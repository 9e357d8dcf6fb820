--------------------------- MODULE XmlContentProofs ---------------------------
(***************************************************************************)
(* Proofs about the content parser of expat (XmlContent): for as long as   *)
(* it is not suspended where it is known to lose its place, the calls of   *)
(* doContent, the open entities, the tags and the processor go with each   *)
(* other, parsing ends well only at the end of a complete entity, and an   *)
(* element ends in the entity it began in.                                 *)
(***************************************************************************)
EXTENDS XmlContentInv, TLAPS

-----------------------------------------------------------------------------
(* Sequences *)

\* The last element is replaced.
LEMMA TopFacts ==
  ASSUME NEW S, NEW s \in Seq(S), s # <<>>, NEW c \in S
  PROVE  LET t == [s EXCEPT ![Len(s)] = c] IN
         /\ t \in Seq(S) /\ Len(t) = Len(s) /\ t # <<>>
         /\ Len(s) \in Nat \ {0}
         /\ t[Len(s)] = c
         /\ \A i \in 1..Len(s) : i # Len(s) => t[i] = s[i]
OBVIOUS

\* An element is added.
LEMMA AppendFacts ==
  ASSUME NEW S, NEW s \in Seq(S), NEW c \in S
  PROVE  /\ Append(s, c) \in Seq(S) /\ Append(s, c) # <<>>
         /\ Len(s) \in Nat /\ Len(Append(s, c)) = Len(s) + 1
         /\ \A i \in 1..Len(s) : Append(s, c)[i] = s[i]
         /\ Append(s, c)[Len(s) + 1] = c
OBVIOUS

\* The last elements are dropped.
LEMMA FrontFacts ==
  ASSUME NEW S, NEW s \in Seq(S), NEW n \in 0..Len(s)
  PROVE  /\ SubSeq(s, 1, n) \in Seq(S)
         /\ Len(SubSeq(s, 1, n)) = n
         /\ \A i \in 1..n : SubSeq(s, 1, n)[i] = s[i]
OBVIOUS

\* The first element is dropped.
LEMMA TailFacts ==
  ASSUME NEW S, NEW s \in Seq(S), s # <<>>
  PROVE  /\ Tail(s) \in Seq(S) /\ Len(s) \in Nat \ {0}
         /\ Len(Tail(s)) = Len(s) - 1
         /\ Head(s) = s[1] /\ Head(s) \in S
         /\ \A i \in 1..(Len(s) - 1) : Tail(s)[i] = s[i + 1]
OBVIOUS

\* An element of a sequence.
LEMMA ElementFacts ==
  ASSUME NEW S, NEW s \in Seq(S), NEW i \in 1..Len(s)
  PROVE  s[i] \in S /\ s # <<>> /\ Len(s) \in Nat
OBVIOUS

\* A function on the same indices.
LEMMA MapFacts ==
  ASSUME NEW S, NEW T, NEW s \in Seq(S), NEW t, DOMAIN t = DOMAIN s,
         t = [i \in DOMAIN s |-> t[i]],
         \A i \in DOMAIN s : t[i] \in T
  PROVE  t \in Seq(T) /\ Len(t) = Len(s)
<1>1. Len(s) \in Nat /\ DOMAIN s = 1..Len(s)
  OBVIOUS
<1>2. t \in [1..Len(s) -> T]
  BY <1>1
<1> QED  BY <1>1, <1>2

\* One element is replaced.
LEMMA SlotFacts ==
  ASSUME NEW S, NEW s \in Seq(S), NEW i \in 1..Len(s), NEW c \in S
  PROVE  LET t == [s EXCEPT ![i] = c] IN
         /\ t \in Seq(S) /\ Len(t) = Len(s)
         /\ t[i] = c
         /\ \A j \in 1..Len(s) : j # i => t[j] = s[j]
OBVIOUS

-----------------------------------------------------------------------------
(* Types *)

\* What ps_parsing may be.
Statuses == {"PARSING", "SUSPENDED", "FINISHED"}

\* The level of tags.
LEMMA LevelFacts ==
  ASSUME TypeOK
  PROVE  /\ Document \in BOOLEAN /\ Len(tags) \in Nat /\ TagLevel \in Nat
         /\ TagLevel = Len(tags) + (IF Document THEN 0 ELSE 1)
         /\ tags = <<>> <=> Len(tags) = 0
<1>1. Document \in BOOLEAN
  BY ContentAssumption DEF TypeOK, Document
<1>2. Len(tags) \in Nat /\ (tags = <<>> <=> Len(tags) = 0)
  BY DEF TypeOK
<1> QED  BY <1>1, <1>2 DEF TagLevel

\* The innermost call.
LEMMA CallFacts ==
  ASSUME TypeOK, calls # <<>>
  PROVE  /\ Len(calls) \in Nat \ {0} /\ This \in Calls
         /\ \A i \in 1..Len(calls) : calls[i] \in Calls
BY DEF TypeOK, This

\* The token it is at.
LEMMA TokenFacts ==
  ASSUME TypeOK, calls # <<>>, This.rest # <<>>
  PROVE  /\ Token \in Tokens /\ Token.kind \in STRING /\ Token.name \in STRING
         /\ Past \in Calls
         /\ Past.via = This.via /\ Past.src = This.src /\ Past.base = This.base
         /\ Past.mode = This.mode /\ Past.rest = Tail(This.rest)
<1>1. This \in Calls /\ This.rest \in Seq(Tokens)
  BY CallFacts DEF Calls
<1>2. Head(This.rest) \in Tokens /\ Tail(This.rest) \in Seq(Tokens)
  BY <1>1, TailFacts
<1>3. Past \in Calls
  BY <1>1, <1>2 DEF Past, Calls
<1> QED  BY <1>1, <1>2, <1>3 DEF Past, Calls, Token, Tokens

\* What a handler may make of the status.
LEMMA StopsFacts ==
  ASSUME TypeOK, NEW st \in Stops
  PROVE  st \in Statuses
<1>1. CASE status = "PARSING"    BY <1>1 DEF Stops, Statuses
<1>2. CASE status = "SUSPENDED"  BY <1>2 DEF Stops, Statuses
<1>3. CASE status = "FINISHED"   BY <1>3 DEF Stops, Statuses
<1> QED  BY <1>1, <1>2, <1>3 DEF TypeOK

\* What the end of the loop makes of it.
LEMMA LoopFacts ==
  ASSUME NEW st \in Statuses, LoopEnd(st)
  PROVE  /\ ret' \in Results
         /\ ret' = "NONE" => st = "SUSPENDED"
         /\ ret' = "ABORTED" <=> st = "FINISHED"
BY DEF LoopEnd, Statuses, Results, Errors

-----------------------------------------------------------------------------
(* The innermost call goes on *)

\* No step of the loop touches the buffer.
Same == UNCHANGED <<setup, handed, pending, final>>

\* While a call runs, it and the open entities are as Aligned says, and the
\* processor is that of the call.
LEMMA RunningFacts ==
  ASSUME IInv, Running
  PROVE  /\ calls # <<>> /\ Aligned /\ ~Unwinding /\ processor # "error"
         /\ processor = "internal" <=> calls[1].via = "internal"
         /\ processor = "epilog" <=> This.mode = "epilog"
         /\ This.mode \in {"init2", "init3"} =>
               Len(calls) = 1 /\ calls[1].via = "external" /\ processor = This.mode
         /\ This.mode = "content" /\ ~Document => processor = "external"
         /\ This.mode = "cdata" /\ This.via # "cdata" /\ ~Document =>
               processor = "external"
         /\ This.via = "cdata" /\ ~Document => This.mode = "cdata"
         /\ This.src # "buffer" => This.base >= 1
         /\ This.base <= TagLevel
<1>1. calls # <<>> /\ ret = "running"
  BY DEF Running
<1>2. ~Unwinding
  BY <1>1 DEF Unwinding
<1>3. Aligned
  BY <1>1, <1>2 DEF IInv, OpenInv
<1>4. Len(calls) \in Nat \ {0}
  BY <1>1, CallFacts DEF IInv
<1>5. /\ This.via = "cdata" /\ ~Document => This.mode = "cdata"
      /\ This.src # "buffer" => This.base >= 1
      /\ This.base <= TagLevel
  BY <1>1, <1>4 DEF IInv, LevelInv, This
<1>6. /\ processor # "error"
      /\ processor = "internal" <=> calls[1].via = "internal"
      /\ processor = "epilog" <=> This.mode = "epilog"
      /\ This.mode \in {"init2", "init3"} =>
            Len(calls) = 1 /\ calls[1].via = "external" /\ processor = This.mode
      /\ /\ ~Document
         /\ This.mode \in {"content", "cdata"} /\ This.via # "cdata"
         => processor = "external"
  BY <1>1, <1>2 DEF IInv, ProcessorInv
<1> QED  BY <1>1, <1>2, <1>3, <1>5, <1>6

\* The innermost call goes on, and is still the call that was made.
Advances ==
    /\ calls' \in Seq(Calls) /\ calls' # <<>> /\ Len(calls') = Len(calls)
    /\ This' \in Calls
    /\ This'.via = This.via /\ This'.src = This.src /\ This'.base = This.base
    /\ \A i \in 1..Len(calls) : i # Len(calls) => calls'[i] = calls[i]

\* The innermost call goes on as another call of the same caller.
LEMMA BecomesFacts ==
  ASSUME TypeOK, calls # <<>>, NEW c \in Calls,
         c.via = This.via, c.src = This.src, c.base = This.base, Becomes(c)
  PROVE  Advances /\ This' = c
<1> DEFINE t == [calls EXCEPT ![Len(calls)] = c]
<1>1. calls' = t
  BY DEF Becomes
<1>2. /\ t \in Seq(Calls) /\ Len(t) = Len(calls) /\ t # <<>>
      /\ t[Len(calls)] = c
      /\ \A i \in 1..Len(calls) : i # Len(calls) => t[i] = calls[i]
  BY TopFacts DEF TypeOK
<1> HIDE DEF t
<1> QED  BY <1>1, <1>2 DEF Advances, This

\* The stack of such a step.
LEMMA StackKept ==
  ASSUME TypeOK, calls # <<>>, Advances
  PROVE  /\ Len(calls) \in Nat \ {0}
         /\ \A i \in 1..Len(calls) : /\ calls'[i].via = calls[i].via
                                   /\ calls'[i].src = calls[i].src
                                   /\ calls'[i].base = calls[i].base
         /\ StackInv => StackInv'
<1>1. Len(calls) \in Nat \ {0}
  BY CallFacts
<1>2. \A i \in 1..Len(calls) : /\ calls'[i].via = calls[i].via
                              /\ calls'[i].src = calls[i].src
                              /\ calls'[i].base = calls[i].base
  BY <1>1 DEF Advances, This
<1>3. ASSUME StackInv, NEW i \in 1..Len(calls')
      PROVE  /\ calls'[i].via = "ref" <=> i > 1
             /\ calls'[i].src = "buffer" <=> calls'[i].via \notin {"ref", "internal"}
             /\ i < Len(calls') => calls'[i].mode = "content"
  <2>1. i \in 1..Len(calls) /\ Len(calls') = Len(calls)
    BY <1>3 DEF Advances
  <2>2. i < Len(calls) => calls'[i] = calls[i]
    BY <1>1, <2>1 DEF Advances
  <2> QED  BY <1>2, <1>3, <2>1, <2>2 DEF StackInv
<1> QED  BY <1>1, <1>2, <1>3 DEF StackInv

\* Its open entities.
LEMMA OpenKept ==
  ASSUME TypeOK, calls # <<>>, OpenInv, Aligned, Advances, UNCHANGED <<open, isOpen>>
  PROVE  OpenInv'
<1>1. First' = First /\ First \in 1..2
  BY StackKept DEF First
<1>2. Len(open') = Len(calls') + 1 - First'
  BY <1>1 DEF Aligned, Advances
<1>3. ASSUME NEW i \in 1..Len(open')
      PROVE  /\ open'[i].entity = calls'[i + First' - 1].src
             /\ open'[i].base = calls'[i + First' - 1].base
  <2>1. Len(open) \in Nat /\ i \in 1..Len(open)
    BY <1>3 DEF TypeOK
  <2>2. i + First - 1 \in 1..Len(calls)
    BY <1>1, <2>1, StackKept DEF Aligned
  <2> QED  BY <1>1, <2>1, <2>2, StackKept DEF Aligned
<1>4. Aligned'
  BY <1>2, <1>3 DEF Aligned
<1> QED  BY <1>4 DEF OpenInv, Advances

\* The levels of its calls.
LEMMA LevelsKept ==
  ASSUME TypeOK, calls # <<>>, StackInv, LevelInv, Advances, ret = "running",
         UNCHANGED setup, This.base <= TagLevel',
         This.via = "cdata" /\ ~Document => This'.mode = "cdata" \/ ret' = "ABORTED"
  PROVE  LevelInv'
<1>1. Len(calls') = Len(calls) /\ Document' = Document
  BY DEF Advances, Document
<1>2. \A i, j \in 1..Len(calls') : i <= j => calls'[i].base <= calls'[j].base
  BY <1>1, StackKept DEF LevelInv
<1>3. This'.base <= TagLevel'
  BY DEF Advances
<1>4. ASSUME NEW i \in 1..Len(calls'), calls'[i].via = "cdata", ~Document'
      PROVE  calls'[i].mode = "cdata" \/ ret' = "ABORTED"
  <2>1. CASE i = Len(calls)
    BY <1>1, <1>4, <2>1 DEF This, Advances
  <2>2. CASE i # Len(calls)
    <3>1. calls'[i] = calls[i] /\ i < Len(calls) /\ i \in 1..Len(calls)
      BY <1>1, <2>2, StackKept DEF Advances
    <3> QED  BY <1>1, <1>4, <3>1 DEF StackInv, LevelInv
  <2> QED  BY <2>1, <2>2
<1>5. \A i \in 1..Len(calls') :
        /\ calls'[i].src # "buffer" => calls'[i].base >= 1
        /\ calls'[i].src = "buffer" =>
              calls'[i].base = IF Document' \/ calls'[i].via = "cdata" THEN 0 ELSE 1
  BY <1>1, StackKept DEF LevelInv
<1> QED  BY <1>2, <1>3, <1>4, <1>5 DEF LevelInv

\* What has to be seen of such a step.
LEMMA Advancing ==
  ASSUME IInv, Running, Advances, Same, UNCHANGED <<open, isOpen>>,
         tags' \in Seq(Tags), status' \in Statuses, ret' \in Results,
         processor' \in Processors \ {"error"},
         This.base <= TagLevel',
         processor' = "internal" <=> processor = "internal",
         processor' = "epilog" <=> This'.mode = "epilog",
         This'.mode \in {"init2", "init3"} =>
            This.via = "external" /\ processor' = This'.mode,
         /\ ~Document /\ ret' \in {"running", "NONE"}
         /\ This'.mode \in {"content", "cdata"} /\ This.via # "cdata"
         => processor' = "external",
         IF Document THEN processor' \notin {"external", "init2", "init3"}
                     ELSE processor' \notin {"content", "epilog", "internal"},
         This.via = "cdata" /\ ~Document => This'.mode = "cdata" \/ ret' = "ABORTED",
         This'.mode = "epilog" => Document /\ tags' = <<>> /\ This.src = "buffer",
         Document /\ tags' = <<>> => This'.mode = "epilog",
         ret' = "NONE" => status' = "SUSPENDED" \/ (~final /\ This.src = "buffer")
  PROVE  IInv'
<1>1. /\ TypeOK /\ StackInv /\ OpenInv /\ KindInv /\ LevelInv
      /\ calls # <<>> /\ ret = "running"
  BY DEF IInv, Running
<1>2. Document' = Document /\ final' = final /\ calls' # <<>>
  BY DEF Same, Document, Advances
<1>3. TypeOK'
  BY <1>1 DEF TypeOK, Same, Statuses, Advances
<1>4. StackInv'
  BY <1>1, StackKept
<1>5. OpenInv'
  BY <1>1, OpenKept, RunningFacts
<1>6. calls'[1].via = calls[1].via
  BY <1>1, StackKept
<1>7. processor' = "internal" <=> calls'[1].via = "internal"
  BY <1>6, RunningFacts
<1>8. ProcessorInv'
  <2>1. This.via = "external" => Len(calls') = 1 /\ calls'[1].via = "external"
    BY <1>1, <1>6, StackKept DEF StackInv, This, Advances
  <2> QED  BY <1>2, <1>7, <2>1 DEF ProcessorInv, Advances
<1>9. KindInv'
  BY <1>1, <1>2, <1>6 DEF KindInv
<1>10. LevelInv'
  BY <1>1, LevelsKept DEF Same
<1>11. RootInv'
  BY <1>2 DEF RootInv, Advances
<1>12. DoneInv'
  BY <1>2 DEF DoneInv, Advances
<1> QED  BY <1>3, <1>4, <1>5, <1>8, <1>9, <1>10, <1>11, <1>12 DEF IInv

-----------------------------------------------------------------------------
(* The tokens *)

\* Before the root element only it is read.
LEMMA RootFacts ==
  ASSUME IInv, Running, Document, tags = <<>>, This.mode # "epilog"
  PROVE  /\ This.mode = "content" /\ This.src = "buffer"
         /\ This.rest # <<>> /\ Token.kind \in {"start", "empty"}
BY RunningFacts DEF IInv, RootInv

\* What is left of a call when it is past a token.
LEMMA PastFacts ==
  ASSUME IInv, Running, This.rest # <<>>, Becomes(Past)
  PROVE  Advances /\ This' = Past /\ This'.mode = This.mode
<1>1. TypeOK /\ calls # <<>>
  BY DEF IInv, Running
<1> QED  BY <1>1, TokenFacts, BecomesFacts

\* It goes on in another mode.
LEMMA ModeFacts ==
  ASSUME IInv, Running, This.rest # <<>>,
         NEW m \in {"content", "init2", "init3", "cdata", "epilog"},
         Becomes([Past EXCEPT !.mode = m])
  PROVE  Advances /\ This'.mode = m
<1> DEFINE c == [Past EXCEPT !.mode = m]
<1>1. TypeOK /\ calls # <<>>
  BY DEF IInv, Running
<1>2. /\ Past \in Calls /\ Past.via = This.via /\ Past.src = This.src
      /\ Past.base = This.base
  BY <1>1, TokenFacts
<1>3. /\ c \in Calls /\ c.via = This.via /\ c.src = This.src /\ c.base = This.base
      /\ c.mode = m
  BY <1>2 DEF Calls
<1>4. Becomes(c)
  OBVIOUS
<1> HIDE DEF c
<1> QED  BY <1>1, <1>3, <1>4, BecomesFacts

\* The processors of a document and of an external entity.
LEMMA KindFacts ==
  ASSUME IInv, Running
  PROVE  /\ Document => processor \notin {"external", "init2", "init3"}
         /\ ~Document => processor \notin {"content", "epilog", "internal"}
         /\ processor \in Processors \ {"error"}
         /\ TypeOK /\ LevelInv /\ tags \in Seq(Tags) /\ calls # <<>>
BY RunningFacts DEF IInv, KindInv, TypeOK

\* A token that is told and changes nothing else keeps the invariant.
LEMMA ReportsKeeps ==
  ASSUME IInv, Running, Same, This.rest # <<>>, Reports,
         This.mode \in {"content", "cdata", "epilog"},
         Document /\ tags = <<>> => This.mode = "epilog"
  PROVE  IInv'
<1>1. PICK st \in Stops : Tell(st) /\ LoopEnd(st) /\ Becomes(Past)
                           /\ UNCHANGED <<processor, open, isOpen, tags>>
  BY DEF Reports
<1>2. Advances /\ This'.mode = This.mode
  BY <1>1, PastFacts
<1>3. /\ status' \in Statuses /\ ret' \in Results
      /\ ret' = "NONE" => status' = "SUSPENDED"
  BY <1>1, KindFacts, StopsFacts, LoopFacts DEF Tell
<1>4. TagLevel' = TagLevel
  BY <1>1 DEF TagLevel, Document, Same
<1>5. UNCHANGED <<open, isOpen>> /\ processor' = processor /\ tags' = tags
  BY <1>1
<1>6. This.mode = "epilog" => Document /\ tags = <<>> /\ This.src = "buffer"
  BY KindFacts DEF IInv, RootInv
<1> QED  BY <1>2, <1>3, <1>4, <1>5, <1>6, Advancing, RunningFacts, KindFacts

\* A start tag keeps it: the tag begins at or above the level of the call.
LEMMA StartTagKeeps ==
  ASSUME IInv, Running, Same, StartTag
  PROVE  IInv'
<1>1. PICK st \in Stops : Tell(st) /\ LoopEnd(st)
  BY DEF StartTag
<1>2. This.rest # <<>> /\ This.mode = "content" /\ Becomes(Past)
      /\ UNCHANGED <<processor, open, isOpen>>
  BY DEF StartTag, Is
<1>3. Advances /\ This'.mode = "content"
  BY <1>2, PastFacts
<1>4. /\ status' \in Statuses /\ ret' \in Results
      /\ ret' = "NONE" => status' = "SUSPENDED"
  BY <1>1, KindFacts, StopsFacts, LoopFacts DEF Tell
<1>5. tags' \in Seq(Tags) /\ tags' # <<>> /\ TagLevel' = TagLevel + 1
  <2> DEFINE tag == [name |-> Token.name, depth |-> Len(open),
                     raw |-> IF This.src = "buffer" THEN "buffer" ELSE "kept"]
  <2>1. tag \in Tags
    BY <1>2, KindFacts, TokenFacts DEF Tags, TypeOK
  <2>2. tags' = <<tag>> \o tags
    BY DEF StartTag
  <2> HIDE DEF tag
  <2>3. tags' \in Seq(Tags) /\ Len(tags') = Len(tags) + 1 /\ tags' # <<>>
    BY <2>1, <2>2, KindFacts
  <2> QED  BY <2>3, KindFacts, LevelFacts DEF TagLevel, Document, Same
<1>6. This.base <= TagLevel'
  BY <1>5, RunningFacts, KindFacts, LevelFacts, CallFacts DEF Calls
<1> QED  BY <1>2, <1>3, <1>4, <1>5, <1>6, Advancing, RunningFacts, KindFacts

\* To the epilog, at level 0 of a document.
LEMMA EpilogFacts ==
  ASSUME IInv, Running, This.rest # <<>>, This.mode = "content", GoesToEpilog,
         Same, UNCHANGED <<open, isOpen>>, status' \in Statuses,
         Document, tags' = <<>>, This.src = "buffer"
  PROVE  IInv'
<1>1. Becomes([Past EXCEPT !.mode = "epilog"]) /\ processor' = "epilog" /\ ret' = "running"
  BY DEF GoesToEpilog
<1>2. Advances /\ This'.mode = "epilog"
  BY <1>1, ModeFacts
<1>3. processor # "internal"
  <2>1. Len(calls) \in Nat \ {0} /\ This.via # "internal" /\ This.via # "ref"
    BY KindFacts, CallFacts DEF IInv, StackInv, This
  <2>2. This = calls[1]
    BY <2>1, KindFacts DEF IInv, StackInv, This
  <2> QED  BY <2>1, <2>2, RunningFacts
<1>4. tags' \in Seq(Tags) /\ TagLevel' \in Nat /\ This.base = 0
  <2>1. Len(calls) \in Nat \ {0}
    BY KindFacts, CallFacts
  <2>2. This.base = 0
    BY <2>1, KindFacts DEF LevelInv, This
  <2> QED  BY <2>2 DEF TagLevel, Document, Same
<1>5. "running" \in Results /\ "epilog" \in Processors
  BY DEF Results, Processors
<1>6. This.base <= TagLevel'
  BY <1>4
<1> QED  BY <1>1, <1>2, <1>3, <1>4, <1>5, <1>6, Advancing

\* An empty element keeps it: the root goes on to the epilog.
LEMMA EmptyElementKeeps ==
  ASSUME IInv, Running, Same, EmptyElement
  PROVE  IInv'
<1>1. PICK st \in Stops :
        /\ Tell(st)
        /\ IF TagLevel = 0 THEN GoesToEpilog
           ELSE LoopEnd(st) /\ Becomes(Past) /\ UNCHANGED processor
  BY DEF EmptyElement
<1>2. This.rest # <<>> /\ This.mode = "content" /\ UNCHANGED <<open, isOpen, tags>>
  BY DEF EmptyElement, Is
<1>3. status' \in Statuses
  BY <1>1, KindFacts, StopsFacts DEF Tell
<1>4. CASE TagLevel = 0
  <2>1. Document /\ tags' = <<>>
    BY <1>2, <1>4, KindFacts, LevelFacts
  <2>2. This.src = "buffer"
    BY <1>4, RunningFacts, KindFacts, CallFacts DEF Calls
  <2> QED  BY <1>1, <1>2, <1>3, <1>4, <2>1, <2>2, EpilogFacts
<1>5. CASE TagLevel # 0
  <2>1. Advances /\ This'.mode = "content"
    BY <1>1, <1>2, <1>5, PastFacts
  <2>2. ret' \in Results /\ (ret' = "NONE" => status' = "SUSPENDED")
    BY <1>1, <1>5, KindFacts, StopsFacts, LoopFacts DEF Tell
  <2>3. processor' = processor
    BY <1>1, <1>5
  <2>4. TagLevel' = TagLevel
    BY <1>2 DEF TagLevel, Document, Same
  <2>5. ~(Document /\ tags' = <<>>)
    BY <1>2, <1>5, KindFacts, LevelFacts
  <2> QED  BY <1>2, <1>3, <2>1, <2>2, <2>3, <2>4, <2>5, Advancing, RunningFacts, KindFacts
<1> QED  BY <1>4, <1>5

\* Nothing but the result changes.
Stays == UNCHANGED <<calls, status, processor, open, isOpen, tags>>

\* An error that a call returns keeps it.
LEMMA FailsKeeps ==
  ASSUME IInv, Running, Same, Stays, ret' \in Errors,
         Document /\ tags = <<>> => This.mode = "epilog"
  PROVE  IInv'
<1>1. ret = "running" /\ calls # <<>> /\ ret' \notin {"running", "NONE"} /\ ret' \in Results
  BY DEF Errors, Results, Running
<1>2. /\ This' = This /\ Document' = Document /\ TagLevel' = TagLevel
      /\ calls' = calls /\ open' = open /\ isOpen' = isOpen /\ status' = status
      /\ processor' = processor /\ tags' = tags
  BY DEF Stays, Same, This, Document, TagLevel
<1>3. TypeOK'
  BY <1>1 DEF IInv, TypeOK, Stays, Same
<1>4. StackInv' /\ KindInv'
  BY <1>2 DEF IInv, StackInv, KindInv
<1>5. OpenInv'
  <2>1. Aligned'
    BY <1>2, RunningFacts DEF Aligned, First
  <2> QED  BY <1>1, <1>2, <2>1 DEF IInv, OpenInv
<1>6. ProcessorInv'
  BY <1>1, <1>2, RunningFacts DEF ProcessorInv
<1>7. LevelInv'
  BY <1>1, <1>2 DEF IInv, LevelInv
<1>8. RootInv'
  BY <1>1, <1>2 DEF IInv, RootInv
<1>9. DoneInv'
  BY <1>1 DEF DoneInv
<1> QED  BY <1>3, <1>4, <1>5, <1>6, <1>7, <1>8, <1>9 DEF IInv

\* ... to no error, at the end of the text.
LEMMA ReturnsKeeps ==
  ASSUME IInv, Running, Same, Returns,
         This.rest = <<>>, This.mode \in {"content", "cdata", "epilog"},
         \/ HaveMore \/ This.mode = "epilog"
         \/ This.mode = "content" /\ This.base # 0 /\ TagLevel = This.base
  PROVE  IInv'
<1>1. ret = "running" /\ calls # <<>> /\ ret' = "NONE" /\ ret' \in Results
  BY DEF Returns, Results, Running
<1>2. /\ This' = This /\ Document' = Document /\ TagLevel' = TagLevel
      /\ calls' = calls /\ open' = open /\ isOpen' = isOpen /\ status' = status
      /\ processor' = processor /\ tags' = tags /\ final' = final
  BY DEF Returns, Same, This, Document, TagLevel
<1>3. TypeOK'
  BY <1>1 DEF IInv, TypeOK, Returns, Same
<1>4. StackInv' /\ KindInv'
  BY <1>2 DEF IInv, StackInv, KindInv
<1>5. OpenInv'
  <2>1. Aligned'
    BY <1>2, RunningFacts DEF Aligned, First
  <2> QED  BY <1>1, <1>2, <2>1 DEF IInv, OpenInv
<1>6. ProcessorInv'
  BY <1>1, <1>2, RunningFacts DEF ProcessorInv
<1>7. LevelInv'
  BY <1>1, <1>2 DEF IInv, LevelInv
<1>8. RootInv'
  <2>1. Document /\ tags = <<>> => This.mode = "epilog"
    BY RootFacts
  <2> QED  BY <1>1, <1>2, <2>1 DEF IInv, RootInv
<1>9. DoneInv'
  BY <1>1, <1>2 DEF DoneInv, HaveMore
<1> QED  BY <1>3, <1>4, <1>5, <1>6, <1>7, <1>8, <1>9 DEF IInv

\* An end tag keeps it: no level below that of the call is reached.
LEMMA EndTagKeeps ==
  ASSUME IInv, Running, Same, EndTag
  PROVE  IInv'
<1>1. This.rest # <<>> /\ This.mode = "content" /\ Token.kind = "end"
  BY DEF EndTag, Is
<1>2. ~(Document /\ tags = <<>>)
  BY <1>1, RootFacts
<1>3. CASE \/ TagLevel = This.base /\ Fails("ASYNC_ENTITY")
           \/ Fails("TAG_MISMATCH")
  <2>1. Stays /\ ret' \in Errors
    BY <1>3 DEF Fails, Stays, Errors
  <2> QED  BY <1>2, <2>1, FailsKeeps
<1>4. CASE /\ TagLevel # This.base
           /\ tags' = Tail(tags)
           /\ \E st \in Stops :
                 /\ Tell(st)
                 /\ IF TagLevel = 1 THEN GoesToEpilog
                    ELSE LoopEnd(st) /\ Becomes(Past) /\ UNCHANGED processor
           /\ UNCHANGED <<open, isOpen>>
  <2>1. PICK st \in Stops :
          /\ Tell(st)
          /\ IF TagLevel = 1 THEN GoesToEpilog
             ELSE LoopEnd(st) /\ Becomes(Past) /\ UNCHANGED processor
    BY <1>4
  <2>2. status' \in Statuses
    BY <2>1, KindFacts, StopsFacts DEF Tell
  <2>3. TagLevel \in Nat /\ This.base \in Nat /\ This.base < TagLevel
    BY <1>4, RunningFacts, KindFacts, LevelFacts, CallFacts DEF Calls
  <2>4. /\ ~Document => This.base >= 1
        /\ Document /\ This.base = 0 => This.src = "buffer"
    <3>1. Len(calls) \in Nat \ {0} /\ This \in Calls
      BY KindFacts, CallFacts
    <3>2. ~Document => This.via # "cdata"
      BY <1>1, RunningFacts
    <3> QED  BY <3>1, <3>2, KindFacts, RunningFacts DEF LevelInv, This
  <2>5. tags # <<>>
    BY <1>2, <2>3, <2>4, KindFacts, LevelFacts
  <2>6. tags' \in Seq(Tags) /\ TagLevel' = TagLevel - 1 /\ Len(tags') = Len(tags) - 1
    BY <1>4, <2>5, KindFacts, LevelFacts, TailFacts DEF TagLevel, Document, Same
  <2>7. CASE TagLevel = 1
    <3>1. Document /\ This.base = 0
      BY <2>3, <2>4, <2>7
    <3>2. tags' = <<>>
      BY <2>6, <2>7, <3>1, KindFacts, LevelFacts
    <3> QED  BY <1>1, <1>4, <2>1, <2>2, <2>4, <2>7, <3>1, <3>2, EpilogFacts
  <2>8. CASE TagLevel # 1
    <3>1. Advances /\ This'.mode = "content"
      BY <1>1, <2>1, <2>8, PastFacts
    <3>2. ret' \in Results /\ (ret' = "NONE" => status' = "SUSPENDED")
      BY <2>1, <2>8, KindFacts, StopsFacts, LoopFacts DEF Tell
    <3>3. processor' = processor
      BY <2>1, <2>8
    <3>4. This.base <= TagLevel'
      BY <2>3, <2>6
    <3>5. ~(Document /\ tags' = <<>>)
      BY <2>3, <2>6, <2>8, KindFacts, LevelFacts
    <3> QED  BY <1>1, <1>4, <2>2, <2>6, <3>1, <3>2, <3>3, <3>4, <3>5,
                Advancing, RunningFacts, KindFacts
  <2> QED  BY <2>7, <2>8
<1> QED  BY <1>3, <1>4 DEF EndTag

\* The beginning of a CDATA section keeps it.
LEMMA CdataOpenKeeps ==
  ASSUME IInv, Running, Same, CdataOpen
  PROVE  IInv'
<1>1. This.rest # <<>> /\ This.mode = "content" /\ Token.kind = "open"
  BY DEF CdataOpen, Is
<1>2. Advances /\ This'.mode = "cdata"
  BY <1>1, ModeFacts DEF CdataOpen
<1>3. status' \in Statuses /\ ret' = "running" /\ ret' \in Results
  BY KindFacts, StopsFacts DEF CdataOpen, Tell, Results
<1>4. processor' = processor /\ tags' = tags /\ UNCHANGED <<open, isOpen>>
  BY DEF CdataOpen
<1>5. TagLevel' = TagLevel
  BY <1>4 DEF TagLevel, Document, Same
<1>6. ~(Document /\ tags = <<>>)
  BY <1>1, RootFacts
<1> QED  BY <1>1, <1>2, <1>3, <1>4, <1>5, <1>6, Advancing, RunningFacts, KindFacts

\* So does what is in the section.
LEMMA CdataDataKeeps ==
  ASSUME IInv, Running, Same, CdataData
  PROVE  IInv'
<1>1. This.rest # <<>> /\ This.mode = "cdata" /\ Reports
  BY DEF CdataData
<1> QED  BY <1>1, RootFacts, ReportsKeeps

\* Character data and comments keep it.
LEMMA ContentKeeps ==
  ASSUME IInv, Running, Same, Content
  PROVE  IInv'
<1>1. This.rest # <<>> /\ This.mode = "content" /\ Reports /\ Token.kind \in {"data", "comment"}
  BY DEF Content, Is
<1> QED  BY <1>1, RootFacts, ReportsKeeps

\* A declaration or the end of a section out of place keeps it.
LEMMA MisplacedKeeps ==
  ASSUME IInv, Running, Same, Misplaced
  PROVE  IInv'
<1>1. This.mode = "content" /\ Token.kind \in {"decl", "close"}
  BY DEF Misplaced, Is
<1>2. Stays /\ ret' \in Errors
  BY DEF Misplaced, Fails, Stays, Errors
<1> QED  BY <1>1, <1>2, RootFacts, FailsKeeps

\* What follows the root element keeps it.
LEMMA EpilogKeeps ==
  ASSUME IInv, Running, Same, Epilog
  PROVE  IInv'
<1>1. This.mode = "epilog" /\ This.rest # <<>>
  BY DEF Epilog, Is
<1>2. CASE Reports
  BY <1>1, <1>2, ReportsKeeps
<1>3. CASE Fails("JUNK_AFTER_DOC_ELEMENT")
  <2>1. Stays /\ ret' \in Errors
    BY <1>3 DEF Fails, Stays, Errors
  <2> QED  BY <1>1, <2>1, FailsKeeps
<1> QED  BY <1>2, <1>3 DEF Epilog

\* The call of a CDATA section the buffer begins with is made a call of the
\* content's processor.
LEMMA CdataCloseKeeps ==
  ASSUME IInv, Running, Same, CdataClose
  PROVE  IInv'
<1>1. PICK st \in Stops :
        /\ Tell(st)
        /\ IF This.via = "cdata" /\ st # "FINISHED"
           THEN /\ processor' = IF Document THEN "content" ELSE "external"
                /\ Becomes(Buffer(processor', Tail(This.rest),
                                  IF Document THEN 0 ELSE 1, "content"))
                /\ ret' = "running"
           ELSE /\ LoopEnd(st) /\ Becomes([Past EXCEPT !.mode = "content"])
                /\ UNCHANGED processor
  BY DEF CdataClose
<1>2. /\ This.rest # <<>> /\ This.mode = "cdata"
      /\ UNCHANGED <<open, isOpen>> /\ tags' = tags
  BY DEF CdataClose, Is
<1>3. status' = st /\ st \in Statuses
  BY <1>1, KindFacts, StopsFacts DEF Tell
<1>4. TagLevel' = TagLevel /\ Document' = Document
  BY <1>2 DEF TagLevel, Document, Same
<1>5. ~(Document /\ tags = <<>>)
  BY <1>2, RootFacts
<1>6. CASE This.via = "cdata" /\ st # "FINISHED"
  <2> DEFINE c == Buffer(processor', Tail(This.rest), IF Document THEN 0 ELSE 1, "content")
  <2>1. /\ processor' = (IF Document THEN "content" ELSE "external")
        /\ ret' = "running" /\ Becomes(c)
    BY <1>1, <1>6
  <2>2. Len(calls) = 1 /\ This = calls[1]
    <3>1. Len(calls) \in Nat \ {0}
      BY KindFacts, CallFacts
    <3>2. Len(calls) = 1
      BY <1>6, <3>1 DEF IInv, StackInv, This
    <3> QED  BY <3>2 DEF This
  <2>3. /\ c \in Calls /\ c.via = processor' /\ c.src = "buffer" /\ c.mode = "content"
        /\ c.base = IF Document THEN 0 ELSE 1
    <3>1. This.rest \in Seq(Tokens)
      BY KindFacts, CallFacts DEF Calls
    <3>2. Tail(This.rest) \in Seq(Tokens)
      BY <1>2, <3>1, TailFacts
    <3> QED  BY <2>1, <3>2 DEF Buffer, Call, Calls, Processors
  <2> HIDE DEF c
  <2>4. calls' = <<c>>
    BY <2>1, <2>2, KindFacts DEF Becomes, TypeOK
  <2>5. calls' \in Seq(Calls) /\ Len(calls') = 1 /\ calls' # <<>> /\ calls'[1] = c
    BY <2>3, <2>4
  <2>6. This' = c
    BY <2>5 DEF This
  <2>7. open = <<>> /\ This.src = "buffer" /\ TagLevel \in Nat /\ Document \in BOOLEAN
        /\ TagLevel >= (IF Document THEN 0 ELSE 1)
    <3>1. Len(open) = 0
      BY <1>6, <2>2, RunningFacts DEF Aligned, First
    <3>2. This.src = "buffer"
      BY <1>6, <2>2 DEF IInv, StackInv
    <3> QED  BY <3>1, <3>2, KindFacts, LevelFacts DEF TypeOK
  <2>8. open' = open /\ isOpen' = isOpen
    BY <1>2
  <2>9. TypeOK'
    BY <1>2, <1>3, <2>1, <2>5, KindFacts DEF TypeOK, Same, Statuses, Results, Processors
  <2>10. StackInv'
    BY <2>1, <2>3, <2>5 DEF StackInv
  <2>11. OpenInv'
    <3>1. Aligned'
      BY <2>1, <2>3, <2>5, <2>7, <2>8 DEF Aligned, First
    <3> QED  BY <2>5, <2>8, <3>1 DEF IInv, OpenInv
  <2>12. ProcessorInv'
    BY <1>4, <2>1, <2>3, <2>5, <2>6 DEF ProcessorInv
  <2>13. KindInv'
    BY <1>4, <2>1, <2>3, <2>5 DEF KindInv
  <2>14. LevelInv'
    BY <1>4, <2>1, <2>3, <2>5, <2>6, <2>7 DEF LevelInv
  <2>15. RootInv'
    BY <1>2, <1>4, <1>5, <2>3, <2>5, <2>6 DEF RootInv
  <2>16. DoneInv'
    BY <2>1 DEF DoneInv
  <2> QED  BY <2>9, <2>10, <2>11, <2>12, <2>13, <2>14, <2>15, <2>16 DEF IInv
<1>7. CASE ~(This.via = "cdata" /\ st # "FINISHED")
  <2>1. LoopEnd(st) /\ processor' = processor /\ Becomes([Past EXCEPT !.mode = "content"])
    BY <1>1, <1>7
  <2>2. Advances /\ This'.mode = "content"
    BY <1>2, <2>1, ModeFacts
  <2>3. /\ ret' \in Results
        /\ ret' = "NONE" => status' = "SUSPENDED"
        /\ This.via = "cdata" => ret' = "ABORTED"
    BY <1>3, <1>7, <2>1, LoopFacts
  <2>4. processor # "epilog" /\ (~Document /\ This.via # "cdata" => processor = "external")
    BY <1>2, RunningFacts
  <2> QED  BY <1>2, <1>3, <1>4, <1>5, <2>1, <2>2, <2>3, <2>4, Advancing, RunningFacts, KindFacts
<1> QED  BY <1>6, <1>7

-----------------------------------------------------------------------------
(* The beginning of an external entity *)

\* A byte order mark keeps it.
LEMMA BomKeeps ==
  ASSUME IInv, Running, Same, Bom
  PROVE  IInv'
<1> DEFINE alone == Tail(This.rest) = <<>> /\ ~final
<1>1. /\ This.rest # <<>> /\ This.mode = "init2"
      /\ UNCHANGED <<open, isOpen>> /\ tags' = tags /\ status' = status
      /\ Becomes(IF alone THEN Past ELSE [Past EXCEPT !.mode = "init3"])
      /\ processor' = IF alone THEN "init2" ELSE "init3"
      /\ ret' = IF alone THEN "NONE" ELSE "running"
      /\ alone => ~final
  BY DEF Bom, Is
<1> HIDE DEF alone
<1>2. /\ This.via = "external" /\ ~Document
      /\ processor = "init2" /\ This.src = "buffer"
  <2>1. Len(calls) = 1 /\ calls[1].via = "external" /\ processor = "init2"
    BY <1>1, RunningFacts
  <2> QED  BY <2>1, KindFacts DEF IInv, StackInv, This
<1>3. Advances /\ This'.mode = IF alone THEN "init2" ELSE "init3"
  <2>1. CASE alone   BY <1>1, <2>1, PastFacts
  <2>2. CASE ~alone  BY <1>1, <2>2, ModeFacts
  <2> QED  BY <2>1, <2>2
<1>4. TagLevel' = TagLevel
  BY <1>1 DEF TagLevel, Document, Same
<1>5. status' \in Statuses /\ ret' \in Results /\ processor' \in Processors
  BY <1>1, KindFacts DEF TypeOK, Statuses, Results, Processors
<1> QED  BY <1>1, <1>2, <1>3, <1>4, <1>5, Advancing, RunningFacts, KindFacts

\* A text declaration keeps it: its processor is the next one or its own.
LEMMA TextDeclKeeps ==
  ASSUME IInv, Running, Same, TextDecl
  PROVE  IInv'
<1>1. /\ This.rest # <<>> /\ This.mode = "init3"
      /\ UNCHANGED <<open, isOpen>> /\ tags' = tags
  BY DEF TextDecl, Is
<1>2. PICK st \in Stops :
        /\ Tell(st) /\ LoopEnd(st)
        /\ Becomes([Past EXCEPT !.mode = IF st = "SUSPENDED" THEN @ ELSE "content"])
        /\ processor' = IF st = "SUSPENDED" THEN processor ELSE "external"
  BY DEF TextDecl
<1>3. /\ This.via = "external" /\ ~Document
      /\ processor = "init3" /\ This.src = "buffer"
  <2>1. Len(calls) = 1 /\ calls[1].via = "external" /\ processor = "init3"
    BY <1>1, RunningFacts
  <2> QED  BY <2>1, KindFacts DEF IInv, StackInv, This
<1>4. Past.mode = "init3"
  BY <1>1, KindFacts, TokenFacts
<1>5. Advances /\ This'.mode = IF st = "SUSPENDED" THEN "init3" ELSE "content"
  <2> DEFINE m == IF st = "SUSPENDED" THEN "init3" ELSE "content"
  <2>1. m \in {"content", "init2", "init3", "cdata", "epilog"}
    OBVIOUS
  <2>2. Becomes([Past EXCEPT !.mode = m])
    BY <1>2, <1>4
  <2> HIDE DEF m
  <2>3. Advances /\ This'.mode = m
    BY <1>1, <2>1, <2>2, ModeFacts
  <2> QED  BY <2>3 DEF m
<1>6. /\ status' = st /\ status' \in Statuses /\ ret' \in Results
      /\ ret' = "NONE" => status' = "SUSPENDED"
  BY <1>2, KindFacts, StopsFacts, LoopFacts DEF Tell
<1>7. TagLevel' = TagLevel
  BY <1>1 DEF TagLevel, Document, Same
<1>8. processor' = IF st = "SUSPENDED" THEN "init3" ELSE "external"
  BY <1>2, <1>3
<1>9. processor' \in Processors
  BY <1>8 DEF Processors
<1> QED  BY <1>1, <1>3, <1>5, <1>6, <1>7, <1>8, <1>9, Advancing, RunningFacts, KindFacts

\* An external entity without them goes on to the next processor.
LEMMA SettlesKeeps ==
  ASSUME IInv, Running, Same, Settles
  PROVE  IInv'
<1>1. /\ This.mode \in {"init2", "init3"}
      /\ UNCHANGED <<open, isOpen>> /\ tags' = tags /\ status' = status /\ ret' = ret
  BY DEF Settles
<1>2. /\ This.via = "external" /\ ~Document
      /\ processor = This.mode /\ This.src = "buffer"
  <2>1. Len(calls) = 1 /\ calls[1].via = "external" /\ processor = This.mode
    BY <1>1, RunningFacts
  <2>2. This = calls[1]
    BY <2>1 DEF This
  <2>3. ~Document
    BY <1>1, <2>1, KindFacts
  <2> QED  BY <2>1, <2>2, <2>3 DEF IInv, StackInv
<1>3. \E m \in {"init3", "content"} :
        /\ Becomes([This EXCEPT !.mode = m])
        /\ processor' = IF m = "init3" THEN "init3" ELSE "external"
  <2>1. CASE Becomes([This EXCEPT !.mode = "init3"]) /\ processor' = "init3"
    BY <2>1
  <2>2. CASE Becomes([This EXCEPT !.mode = "content"]) /\ processor' = "external"
    BY <2>2
  <2> QED  BY <2>1, <2>2 DEF Settles
<1>4. PICK m \in {"init3", "content"} :
        /\ Becomes([This EXCEPT !.mode = m])
        /\ processor' = IF m = "init3" THEN "init3" ELSE "external"
  BY <1>3
<1>5. Advances /\ This'.mode = m
  <2> DEFINE c == [This EXCEPT !.mode = m]
  <2>1. /\ c \in Calls /\ c.via = This.via /\ c.src = This.src /\ c.base = This.base
        /\ c.mode = m
    BY KindFacts, CallFacts DEF Calls
  <2>2. Becomes(c)
    BY <1>4
  <2> HIDE DEF c
  <2> QED  BY <2>1, <2>2, KindFacts, BecomesFacts
<1>6. TagLevel' = TagLevel
  BY <1>1 DEF TagLevel, Document, Same
<1>7. status' \in Statuses /\ ret' = "running" /\ ret' \in Results
      /\ processor' \in Processors
  BY <1>1, <1>4, KindFacts DEF TypeOK, Statuses, Results, Processors, Running
<1> QED  BY <1>1, <1>2, <1>4, <1>5, <1>6, <1>7, Advancing, RunningFacts, KindFacts

-----------------------------------------------------------------------------
(* References to entities, and the end of a text *)

\* The end of the text of a call.
LEMMA TextEndsKeeps ==
  ASSUME IInv, Running, Same, TextEnds
  PROVE  IInv'
<1>1. This.rest = <<>> /\ This.mode \in {"content", "cdata", "epilog"}
  BY KindFacts, CallFacts DEF TextEnds, Calls
<1>2. \/ /\ Returns
         /\ \/ HaveMore \/ This.mode = "epilog"
            \/ This.mode = "content" /\ This.base # 0 /\ TagLevel = This.base
      \/ \E code \in {"UNCLOSED_CDATA_SECTION", "NO_ELEMENTS", "ASYNC_ENTITY"} : Fails(code)
  BY DEF TextEnds
<1>3. CASE Returns /\ \/ HaveMore \/ This.mode = "epilog"
                      \/ This.mode = "content" /\ This.base # 0 /\ TagLevel = This.base
  BY <1>1, <1>3, ReturnsKeeps
<1>4. CASE \E code \in {"UNCLOSED_CDATA_SECTION", "NO_ELEMENTS", "ASYNC_ENTITY"} : Fails(code)
  <2>1. Stays /\ ret' \in Errors
    BY <1>4 DEF Fails, Stays, Errors
  <2>2. Document /\ tags = <<>> => This.mode = "epilog"
    BY <1>1, RootFacts
  <2> QED  BY <2>1, <2>2, FailsKeeps
<1> QED  BY <1>2, <1>3, <1>4

\* A handler of external entities that fails keeps it.
LEMMA ExternalFailsKeeps ==
  ASSUME IInv, Running, Same, ExternalFails
  PROVE  IInv'
<1>1. This.mode = "content" /\ Token.kind = "ref"
  BY DEF ExternalFails, Is
<1>2. Stays /\ ret' \in Errors
  BY DEF ExternalFails, Fails, Stays, Errors
<1> QED  BY <1>1, <1>2, RootFacts, FailsKeeps

\* doContent calls itself for the text of an entity that was not open.
LEMMA EntersKeeps ==
  ASSUME IInv, Running, Same, This.rest # <<>>, This.mode = "content",
         Token.kind = "ref", Token.name \notin isOpen,
         isOpen' = isOpen \cup {Token.name},
         open' = Append(open, [entity |-> Token.name, rest |-> <<>>, base |-> TagLevel]),
         calls' = Append([calls EXCEPT ![Len(calls)] = Past],
                          Call("ref", Token.name, Entity.text, TagLevel, "content")),
         UNCHANGED <<ret, status, processor, tags>>
  PROVE  IInv'
<1> DEFINE o == [entity |-> Token.name, rest |-> <<>>, base |-> TagLevel]
           c == Call("ref", Token.name, Entity.text, TagLevel, "content")
           t == [calls EXCEPT ![Len(calls)] = Past]
<1>1. calls \in Seq(Calls) /\ calls # <<>> /\ ret = "running" /\ open \in Seq(OpenEntities)
  BY KindFacts DEF TypeOK, Running
<1>2. /\ Token.name \in DOMAIN Table /\ Token.name # "buffer"
      /\ Entity.text \in Seq(Tokens)
  <2>1. Token \in Tokens
    BY KindFacts, TokenFacts
  <2>2. Token.name \in DOMAIN Table
    BY <2>1 DEF Tokens
  <2> QED  BY <2>2, ContentAssumption DEF Entity
<1>3. TagLevel \in Nat
  BY KindFacts, LevelFacts
<1>4. /\ c \in Calls /\ c.via = "ref" /\ c.src = Token.name /\ c.base = TagLevel
      /\ c.mode = "content"
  BY <1>2, <1>3 DEF Call, Calls
<1>5. o \in OpenEntities /\ o.entity = Token.name /\ o.base = TagLevel
  BY <1>2, <1>3 DEF OpenEntities
<1>6. /\ Past \in Calls /\ Past.via = This.via /\ Past.src = This.src
      /\ Past.base = This.base /\ Past.mode = "content"
  BY KindFacts, TokenFacts
<1>7. calls' = Append(t, c) /\ open' = Append(open, o)
  OBVIOUS
<1> HIDE DEF o, c
<1>8. /\ t \in Seq(Calls) /\ Len(t) = Len(calls) /\ Len(calls) \in Nat \ {0}
      /\ t[Len(calls)] = Past
      /\ \A i \in 1..Len(calls) : i # Len(calls) => t[i] = calls[i]
  BY <1>1, <1>6, TopFacts
<1> HIDE DEF t
<1>9. /\ calls' \in Seq(Calls) /\ calls' # <<>> /\ Len(calls') = Len(calls) + 1
      /\ calls'[Len(calls) + 1] = c
      /\ \A i \in 1..Len(calls) : calls'[i] = t[i]
  <2>1. /\ Append(t, c) \in Seq(Calls) /\ Append(t, c) # <<>>
        /\ Len(Append(t, c)) = Len(t) + 1
        /\ \A i \in 1..Len(t) : Append(t, c)[i] = t[i]
        /\ Append(t, c)[Len(t) + 1] = c
    BY <1>4, <1>8, AppendFacts
  <2> QED  BY <1>7, <1>8, <2>1
<1>10. \A i \in 1..Len(calls) :
         /\ calls'[i].via = calls[i].via /\ calls'[i].src = calls[i].src
         /\ calls'[i].base = calls[i].base
         /\ calls'[i].mode = IF i = Len(calls) THEN "content" ELSE calls[i].mode
  BY <1>6, <1>8, <1>9 DEF This
<1>11. /\ open' \in Seq(OpenEntities) /\ Len(open') = Len(open) + 1 /\ Len(open) \in Nat
       /\ \A i \in 1..Len(open) : open'[i] = open[i]
       /\ open'[Len(open) + 1] = o
  BY <1>1, <1>5, <1>7, AppendFacts
<1>12. /\ This' = c /\ Document' = Document /\ TagLevel' = TagLevel
  BY <1>9 DEF This, Document, TagLevel, Same
<1>13. /\ StackInv /\ OpenInv /\ LevelInv /\ Aligned /\ TypeOK
  BY RunningFacts DEF IInv
<1>14. TypeOK'
  BY <1>2, <1>9, <1>11, <1>13 DEF TypeOK, Same
<1>15. StackInv'
  BY <1>2, <1>4, <1>8, <1>9, <1>10, <1>13 DEF StackInv
<1>16. OpenInv'
  <2>1. First' = First /\ First \in 1..2
    BY <1>8, <1>10 DEF First
  <2>2. Len(open') = Len(calls') + 1 - First'
    BY <1>9, <1>11, <1>13, <2>1, <1>8 DEF Aligned
  <2>3. ASSUME NEW i \in 1..Len(open')
        PROVE  /\ open'[i].entity = calls'[i + First' - 1].src
               /\ open'[i].base = calls'[i + First' - 1].base
    <3>1. CASE i = Len(open) + 1
      <4>1. i + First' - 1 = Len(calls) + 1
        BY <1>8, <1>11, <1>13, <2>1, <3>1 DEF Aligned
      <4> QED  BY <1>4, <1>5, <1>9, <1>11, <3>1, <4>1
    <3>2. CASE i # Len(open) + 1
      <4>1. i \in 1..Len(open)
        BY <1>11, <3>2
      <4>2. i + First - 1 \in 1..Len(calls)
        BY <1>8, <1>11, <1>13, <2>1, <4>1 DEF Aligned
      <4> QED  BY <1>10, <1>11, <1>13, <2>1, <4>1, <4>2 DEF Aligned
    <3> QED  BY <3>1, <3>2
  <2>4. Aligned'
    BY <2>2, <2>3 DEF Aligned
  <2>5. ASSUME NEW i \in 1..Len(open') PROVE open'[i].entity \in isOpen'
    BY <1>5, <1>11, <1>13 DEF OpenInv
  <2>6. ASSUME NEW i \in 1..Len(open'), NEW j \in 1..Len(open'), i # j
        PROVE  open'[i].entity # open'[j].entity
    <3>1. \A k \in 1..Len(open) : open'[k].entity # Token.name
      BY <1>11, <1>13 DEF OpenInv
    <3>2. CASE i = Len(open) + 1
      <4>1. j \in 1..Len(open)
        BY <1>11, <2>6, <3>2
      <4> QED  BY <1>5, <1>11, <3>1, <3>2, <4>1
    <3>3. CASE j = Len(open) + 1
      <4>1. i \in 1..Len(open)
        BY <1>11, <2>6, <3>3
      <4> QED  BY <1>5, <1>11, <3>1, <3>3, <4>1
    <3>4. CASE i # Len(open) + 1 /\ j # Len(open) + 1
      <4>1. i \in 1..Len(open) /\ j \in 1..Len(open)
        BY <1>11, <3>4
      <4> QED  BY <1>11, <1>13, <2>6, <4>1 DEF OpenInv
    <3> QED  BY <3>2, <3>3, <3>4
  <2> QED  BY <1>9, <2>4, <2>5, <2>6 DEF OpenInv
<1>17. ProcessorInv'
  <2>1. calls'[1].via = calls[1].via
    BY <1>8, <1>10
  <2> QED  BY <1>4, <1>12, <2>1, RunningFacts DEF ProcessorInv
<1>18. KindInv'
  BY <1>8, <1>9, <1>10, <1>12 DEF IInv, KindInv, Running
<1>19. TagLevel > 0
  <2>1. CASE Document
    <3>1. tags # <<>>
      BY RootFacts, <2>1
    <3> QED  BY <2>1, <3>1, KindFacts, LevelFacts
  <2>2. CASE ~Document
    BY <2>2, KindFacts, LevelFacts
  <2> QED  BY <2>1, <2>2
<1>20. LevelInv'
  <2>1. \A i \in 1..Len(calls) : calls[i].base <= TagLevel /\ calls[i].base \in Nat
    <3>1. ASSUME NEW i \in 1..Len(calls) PROVE calls[i].base <= TagLevel /\ calls[i].base \in Nat
      <4>1. calls[i] \in Calls /\ This \in Calls
        BY <1>13, CallFacts, <1>1
      <4>2. calls[i].base \in Nat /\ This.base \in Nat
        BY <4>1 DEF Calls
      <4>3. calls[i].base <= This.base
        BY <1>8, <1>13 DEF LevelInv, This
      <4>4. This.base <= TagLevel
        BY RunningFacts
      <4> QED  BY <1>3, <4>2, <4>3, <4>4
    <3> QED  BY <3>1
  <2>2. ASSUME NEW i \in 1..Len(calls'), NEW j \in 1..Len(calls'), i <= j
        PROVE  calls'[i].base <= calls'[j].base
    <3>1. CASE j = Len(calls) + 1
      <4>1. calls'[j].base = TagLevel
        BY <1>4, <1>9, <3>1
      <4>2. CASE i = Len(calls) + 1
        BY <1>3, <1>4, <1>9, <4>1, <4>2
      <4>3. CASE i \in 1..Len(calls)
        BY <1>10, <2>1, <4>1, <4>3
      <4> QED  BY <1>8, <1>9, <4>2, <4>3
    <3>2. CASE j # Len(calls) + 1
      <4>1. i \in 1..Len(calls) /\ j \in 1..Len(calls)
        BY <1>8, <1>9, <2>2, <3>2
      <4> QED  BY <1>10, <1>13, <2>2, <4>1 DEF LevelInv
    <3> QED  BY <3>1, <3>2
  <2>3. This'.base <= TagLevel'
    BY <1>3, <1>4, <1>12
  <2>4. ASSUME NEW i \in 1..Len(calls')
        PROVE  /\ calls'[i].src # "buffer" => calls'[i].base >= 1
               /\ calls'[i].src = "buffer" =>
                     calls'[i].base = IF Document' \/ calls'[i].via = "cdata" THEN 0 ELSE 1
               /\ calls'[i].via = "cdata" /\ ~Document' =>
                     calls'[i].mode = "cdata" \/ ret' = "ABORTED"
    <3>1. CASE i = Len(calls) + 1
      BY <1>2, <1>3, <1>4, <1>9, <1>19, <3>1
    <3>2. CASE i = Len(calls)
      <4>1. i \in 1..Len(calls) /\ calls[i] = This
        BY <1>8, <3>2 DEF This
      <4>2. ~Document => This.via # "cdata"
        BY RunningFacts
      <4> QED  BY <1>10, <1>12, <1>13, <4>1, <4>2 DEF LevelInv
    <3>3. CASE i \in 1..(Len(calls) - 1)
      <4>1. i \in 1..Len(calls) /\ i # Len(calls)
        BY <1>8, <3>3
      <4> QED  BY <1>1, <1>10, <1>12, <1>13, <4>1 DEF LevelInv
    <3> QED  BY <1>8, <1>9, <3>1, <3>2, <3>3
  <2> QED  BY <1>9, <2>2, <2>3, <2>4 DEF LevelInv
<1>21. RootInv'
  <2>1. ~(Document /\ tags = <<>>)
    BY RootFacts
  <2> QED  BY <1>4, <1>9, <1>12, <2>1 DEF RootInv
<1>22. DoneInv'
  BY <1>1 DEF DoneInv
<1> QED  BY <1>14, <1>15, <1>16, <1>17, <1>18, <1>20, <1>21, <1>22 DEF IInv

\* A reference is reported, entered when the entity is not open, or an error.
LEMMA VerdictFacts ==
  /\ Verdict \in {"reported", "entered"} \cup Errors
  /\ Verdict = "entered" => Token.name \notin isOpen
BY DEF Verdict, Errors

\* A reference keeps it, whatever doContent makes of the entity.
LEMMA ReferenceKeeps ==
  ASSUME IInv, Running, Same, Reference
  PROVE  IInv'
<1>1. This.rest # <<>> /\ This.mode = "content" /\ Token.kind = "ref"
  BY DEF Reference, Is
<1>2. ~(Document /\ tags = <<>>)
  BY <1>1, RootFacts
<1>3. CASE Verdict = "reported"
  <2>1. Reports
    BY <1>3 DEF Reference
  <2> QED  BY <1>1, <1>2, <2>1, ReportsKeeps
<1>4. CASE Verdict = "entered"
  <2>1. Token.name \notin isOpen
    BY <1>4, VerdictFacts
  <2>2. /\ isOpen' = isOpen \cup {Token.name}
        /\ open' = Append(open, [entity |-> Token.name, rest |-> <<>>, base |-> TagLevel])
        /\ calls' = Append([calls EXCEPT ![Len(calls)] = Past],
                           Call("ref", Token.name, Entity.text, TagLevel, "content"))
        /\ UNCHANGED <<ret, status, processor, tags>>
    BY <1>4 DEF Reference
  <2> QED  BY <1>1, <2>1, <2>2, EntersKeeps
<1>5. CASE Verdict \notin {"reported", "entered"}
  <2>1. Fails(Verdict)
    BY <1>5 DEF Reference
  <2>2. Verdict \in Errors
    BY <1>5, VerdictFacts
  <2>3. Stays /\ ret' \in Errors
    BY <2>1, <2>2 DEF Fails, Stays
  <2> QED  BY <1>2, <2>3, FailsKeeps
<1> QED  BY <1>3, <1>4, <1>5

\* A step of the loop keeps the invariant.
LEMMA StepKeeps ==
  ASSUME IInv, Step, UNCHANGED setup
  PROVE  IInv'
<1>1. Running /\ Same
  BY DEF Step, Same
<1> QED  BY <1>1, StartTagKeeps, EmptyElementKeeps, EndTagKeeps, ContentKeeps,
            MisplacedKeeps, CdataOpenKeeps, CdataDataKeeps, CdataCloseKeeps,
            ReferenceKeeps, ExternalFailsKeeps, EpilogKeeps, BomKeeps,
            TextDeclKeeps, SettlesKeeps, TextEndsKeeps
         DEF Step

-----------------------------------------------------------------------------
(* The calls of the application *)

\* The one call there is.
LEMMA OneCall ==
  ASSUME NEW c \in Calls, calls' = <<c>>
  PROVE  /\ calls' \in Seq(Calls) /\ calls' # <<>> /\ Len(calls') = 1
         /\ calls'[1] = c /\ This' = c
<1>1. /\ calls' \in Seq(Calls) /\ calls' # <<>> /\ Len(calls') = 1 /\ calls'[1] = c
  OBVIOUS
<1> QED  BY <1>1 DEF This

\* The call a processor makes with a text of the buffer.
LEMMA EntersFacts ==
  ASSUME processor \in Processors \ {"error", "internal"}, Document \in BOOLEAN, KindInv,
         NEW text \in Seq(Tokens)
  PROVE  LET c == Enters(text) IN
         /\ c \in Calls /\ c.src = "buffer" /\ c.rest = text
         /\ c.via = IF processor \in {"init2", "init3"} THEN "external" ELSE processor
         /\ c.mode = IF processor \in {"content", "external"} THEN "content" ELSE processor
         /\ c.base = IF Document \/ c.via = "cdata" THEN 0 ELSE 1
<1>1. CASE processor = "content"
  <2>1. Enters(text) = Buffer("content", text, 0, "content")
    BY <1>1 DEF Enters
  <2> QED  BY <1>1, <2>1 DEF Buffer, Call, Calls, Processors, KindInv
<1>2. CASE processor = "external"
  <2>1. Enters(text) = Buffer("external", text, 1, "content")
    BY <1>2 DEF Enters
  <2> QED  BY <1>2, <2>1 DEF Buffer, Call, Calls, Processors, KindInv
<1>3. CASE processor \in {"init2", "init3"}
  <2>1. Enters(text) = Buffer("external", text, 1, processor)
    BY <1>3 DEF Enters
  <2> QED  BY <1>3, <2>1 DEF Buffer, Call, Calls, Processors, KindInv
<1>4. CASE processor = "cdata"
  <2>1. Enters(text) = Buffer("cdata", text, 0, "cdata")
    BY <1>4 DEF Enters
  <2> QED  BY <1>4, <2>1 DEF Buffer, Call, Calls, Processors
<1>5. CASE processor = "epilog"
  <2>1. Enters(text) = Buffer("epilog", text, 0, "epilog")
    BY <1>5 DEF Enters
  <2> QED  BY <1>5, <2>1 DEF Buffer, Call, Calls, Processors, KindInv
<1> QED  BY <1>1, <1>2, <1>3, <1>4, <1>5 DEF Processors

\* A processor is called with the text of the buffer.
LEMMA EnteringKeeps ==
  ASSUME IInv, calls = <<>>, open = <<>>, processor \notin {"error", "internal"},
         NEW c \in Calls, calls' = <<c>>, c.src = "buffer",
         c.via = IF processor \in {"init2", "init3"} THEN "external" ELSE processor,
         c.mode = IF processor \in {"content", "external"} THEN "content" ELSE processor,
         c.base = IF Document \/ c.via = "cdata" THEN 0 ELSE 1,
         Document /\ tags = <<>> /\ processor = "content" =>
            c.rest # <<>> /\ Head(c.rest).kind \in {"start", "empty"},
         ret' = "running", status' \in Statuses,
         pending' \in Seq(Tokens), handed' \in Nat, final' \in BOOLEAN,
         UNCHANGED <<setup, processor, open, isOpen, tags>>
  PROVE  IInv'
<1>1. /\ TypeOK /\ KindInv /\ RootInv /\ OpenInv
      /\ Document \in BOOLEAN /\ TagLevel \in Nat /\ TagLevel >= (IF Document THEN 0 ELSE 1)
  BY LevelFacts DEF IInv
<1>2. /\ calls' \in Seq(Calls) /\ calls' # <<>> /\ Len(calls') = 1
      /\ calls'[1] = c /\ This' = c
  BY OneCall
<1>3. /\ Document' = Document /\ TagLevel' = TagLevel /\ open' = <<>>
      /\ processor' = processor /\ tags' = tags /\ ret' = "running"
  BY DEF Document, TagLevel
<1>4. processor \in Processors /\ Len(open') = 0
  BY <1>1, <1>3 DEF TypeOK
<1>5. TypeOK'
  BY <1>1, <1>2 DEF TypeOK, Statuses, Results
<1>6. StackInv'
  BY <1>2, <1>4 DEF StackInv, Processors
<1>7. OpenInv'
  <2>1. First' = 2
    BY <1>2, <1>4 DEF First, Processors
  <2>2. Aligned'
    BY <1>2, <1>4, <2>1 DEF Aligned
  <2> QED  BY <1>2, <1>4, <2>2 DEF OpenInv
<1>8. ProcessorInv'
  BY <1>1, <1>2, <1>3, <1>4 DEF ProcessorInv, KindInv, Processors
<1>9. KindInv'
  BY <1>1, <1>2, <1>3 DEF KindInv, Processors, TypeOK
<1>10. LevelInv'
  BY <1>1, <1>2, <1>3 DEF LevelInv
<1>11. RootInv'
  <2>1. Document /\ tags = <<>> => processor \in {"epilog", "content"}
    BY <1>1 DEF RootInv
  <2>2. processor = "epilog" => Document /\ tags = <<>>
    BY <1>1 DEF RootInv, KindInv
  <2>3. Token' = Head(c.rest)
    BY <1>2 DEF Token
  <2> QED  BY <1>2, <1>3, <2>1, <2>2, <2>3 DEF RootInv
<1>12. DoneInv'
  BY <1>3 DEF DoneInv
<1> QED  BY <1>5, <1>6, <1>7, <1>8, <1>9, <1>10, <1>11, <1>12 DEF IInv

\* XML_Parse keeps it: a document begins with its start tag.
LEMMA ParseKeeps ==
  ASSUME IInv, UNCHANGED setup, NEW chunk \in Pieces, NEW isFinal \in BOOLEAN,
         Offered(chunk, isFinal), XML_Parse(chunk, isFinal)
  PROVE  IInv'
<1>1. /\ calls = <<>> /\ status = "PARSING" /\ processor # "error"
      /\ handed' = handed + Len(chunk) /\ pending' = pending \o chunk
      /\ final' = isFinal /\ calls' = <<Enters(pending')>> /\ ret' = "running"
      /\ UNCHANGED <<status, processor, open, isOpen, tags>>
  BY DEF XML_Parse
<1>2. TypeOK /\ KindInv /\ RootInv /\ Document \in BOOLEAN
  BY LevelFacts DEF IInv
<1>3. chunk \in Seq(Tokens)
  <2>1. Alphabet \subseteq Tokens
    BY <1>2, ContentAssumption DEF TypeOK, Alphabet
  <2>2. PICK n \in 0..MaxChunk : chunk \in [1..n -> Alphabet]
    BY DEF Pieces
  <2>3. n \in Nat
    BY <2>2, ContentAssumption
  <2>4. chunk \in [1..n -> Tokens]
    BY <2>1, <2>2
  <2> QED  BY <2>3, <2>4
<1>4. pending' \in Seq(Tokens) /\ handed' \in Nat
  BY <1>1, <1>2, <1>3 DEF TypeOK
<1>5. open = <<>> /\ processor # "internal"
  BY <1>1 DEF IInv, OpenInv, Idle
<1>6. processor \in Processors \ {"error", "internal"}
  BY <1>1, <1>2, <1>5 DEF TypeOK
<1> DEFINE c == Enters(pending')
<1>7. /\ c \in Calls /\ c.src = "buffer" /\ c.rest = pending'
      /\ c.via = IF processor \in {"init2", "init3"} THEN "external" ELSE processor
      /\ c.mode = IF processor \in {"content", "external"} THEN "content" ELSE processor
      /\ c.base = IF Document \/ c.via = "cdata" THEN 0 ELSE 1
  BY <1>2, <1>4, <1>6, EntersFacts
<1>8. calls' = <<c>>
  BY <1>1
<1> HIDE DEF c
<1>9. ASSUME Document, tags = <<>>, processor = "content"
      PROVE  c.rest # <<>> /\ Head(c.rest).kind \in {"start", "empty"}
  <2>1. handed = 0 /\ pending = <<>>
    BY <1>1, <1>2, <1>9 DEF RootInv
  <2>2. pending' = chunk
    BY <1>1, <1>3, <2>1
  <2>3. chunk # <<>> /\ chunk[1].kind \in {"start", "empty"}
    BY <1>9, <2>1 DEF Offered
  <2> QED  BY <1>3, <1>7, <2>2, <2>3, TailFacts
<1>10. status' \in Statuses /\ final' \in BOOLEAN
  BY <1>1 DEF Statuses
<1> QED  BY <1>1, <1>4, <1>5, <1>7, <1>8, <1>9, <1>10, EnteringKeeps

\* A parser that was suspended in an entity goes on with its text.
LEMMA GoingOnKeeps ==
  ASSUME IInv, calls = <<>>, processor = "internal", status = "SUSPENDED",
         calls' = <<Call("internal", open[Len(open)].entity, open[Len(open)].rest,
                          open[Len(open)].base, "content")>>,
         ret' = "running", status' = "PARSING",
         UNCHANGED <<setup, handed, pending, final, processor, open, isOpen, tags>>
  PROVE  IInv'
<1>1. TypeOK /\ OpenInv
  BY DEF IInv
<1>2. Document /\ Len(open) = 1 /\ open[1].base \in 1..TagLevel
  BY <1>1 DEF OpenInv, Idle
<1> DEFINE c == Call("internal", open[1].entity, open[1].rest, open[1].base, "content")
<1>3. open[1] \in OpenEntities /\ TagLevel \in Nat
  <2>1. open \in Seq(OpenEntities) /\ 1 \in 1..Len(open)
    BY <1>1, <1>2 DEF TypeOK
  <2>2. open[1] \in OpenEntities
    BY <2>1, ElementFacts
  <2> QED  BY <1>1, <2>2, LevelFacts
<1>4. /\ c \in Calls /\ c.via = "internal" /\ c.src = open[1].entity /\ c.src # "buffer"
      /\ c.base = open[1].base /\ c.mode = "content"
  <2>1. /\ open[1].entity \in DOMAIN Table /\ open[1].rest \in Seq(Tokens)
        /\ open[1].base \in Nat /\ open[1].entity # "buffer"
    <3>1. open[1].entity \in DOMAIN Table /\ open[1].rest \in Seq(Tokens) /\ open[1].base \in Nat
      BY <1>3 DEF OpenEntities
    <3>2. \A e \in DOMAIN Table : e # "buffer"
      BY ContentAssumption
    <3> QED  BY <3>1, <3>2
  <2> QED  BY <2>1 DEF Call, Calls, Processors
<1>5. calls' = <<c>>
  BY <1>2
<1> HIDE DEF c
<1>6. /\ calls' \in Seq(Calls) /\ calls' # <<>> /\ Len(calls') = 1
      /\ calls'[1] = c /\ This' = c
  BY <1>4, <1>5, OneCall
<1>7. /\ Document' = Document /\ TagLevel' = TagLevel /\ open' = open
      /\ processor' = "internal" /\ tags' = tags
  BY DEF Document, TagLevel
<1>8. tags # <<>>
  BY <1>1, <1>2, <1>3, LevelFacts
<1>9. TypeOK'
  BY <1>1, <1>6 DEF TypeOK, Results
<1>10. StackInv'
  BY <1>4, <1>6 DEF StackInv
<1>11. OpenInv'
  <2>1. First' = 1
    BY <1>4, <1>6 DEF First
  <2>2. Aligned'
    BY <1>2, <1>4, <1>6, <1>7, <2>1 DEF Aligned
  <2> QED  BY <1>1, <1>6, <1>7, <2>2 DEF OpenInv
<1>12. ProcessorInv'
  BY <1>2, <1>4, <1>6, <1>7 DEF ProcessorInv
<1>13. KindInv'
  BY <1>2, <1>4, <1>6, <1>7 DEF KindInv
<1>14. LevelInv'
  BY <1>2, <1>3, <1>4, <1>6, <1>7 DEF LevelInv
<1>15. RootInv'
  BY <1>4, <1>6, <1>7, <1>8 DEF RootInv
<1>16. DoneInv'
  BY DEF DoneInv
<1> QED  BY <1>9, <1>10, <1>11, <1>12, <1>13, <1>14, <1>15, <1>16 DEF IInv

\* XML_ResumeParser keeps it.
LEMMA ResumeKeeps ==
  ASSUME IInv, UNCHANGED setup, Resume
  PROVE  IInv'
<1>1. /\ calls = <<>> /\ status = "SUSPENDED" /\ processor # "error"
      /\ status' = "PARSING"
      /\ UNCHANGED <<handed, pending, final, open, isOpen, tags>>
  BY DEF Resume
<1>2. TypeOK /\ KindInv /\ RootInv /\ Document \in BOOLEAN /\ pending \in Seq(Tokens)
  BY LevelFacts DEF IInv, TypeOK
<1>3. \/ open = <<>> /\ processor # "internal"
      \/ processor = "internal" /\ Len(open) = 1
  BY <1>1 DEF IInv, OpenInv, Idle
<1>4. /\ calls' = <<Enters(pending)>> /\ ret' = "running" /\ processor' = processor
  BY <1>3 DEF Resume
<1>5. CASE open = <<>> /\ processor # "internal"
  <2>1. processor \in Processors \ {"error", "internal"}
    BY <1>1, <1>2, <1>5 DEF TypeOK
  <2> DEFINE c == Enters(pending)
  <2>2. /\ c \in Calls /\ c.src = "buffer" /\ c.rest = pending
        /\ c.via = IF processor \in {"init2", "init3"} THEN "external" ELSE processor
        /\ c.mode = IF processor \in {"content", "external"} THEN "content" ELSE processor
        /\ c.base = IF Document \/ c.via = "cdata" THEN 0 ELSE 1
    BY <1>2, <2>1, EntersFacts
  <2>3. calls' = <<c>>
    BY <1>4
  <2> HIDE DEF c
  <2>4. ~(Document /\ tags = <<>> /\ processor = "content")
    BY <1>1, <1>2 DEF RootInv
  <2>5. status' \in Statuses /\ pending' \in Seq(Tokens) /\ handed' \in Nat /\ final' \in BOOLEAN
    BY <1>1, <1>2 DEF Statuses, TypeOK
  <2> QED  BY <1>1, <1>4, <1>5, <2>2, <2>3, <2>4, <2>5, EnteringKeeps
<1>6. CASE processor = "internal"
  <2>1. Enters(pending) = Call("internal", open[Len(open)].entity, open[Len(open)].rest,
                               open[Len(open)].base, "content")
    BY <1>6 DEF Enters
  <2> QED  BY <1>1, <1>4, <1>6, <2>1, GoingOnKeeps
<1> QED  BY <1>3, <1>5, <1>6

\* XML_StopParser on a suspended parser keeps it.
LEMMA AbortKeeps ==
  ASSUME IInv, UNCHANGED setup, Abort
  PROVE  IInv'
<1>1. /\ calls = <<>> /\ calls' = <<>> /\ status' = "FINISHED"
      /\ UNCHANGED <<handed, pending, final, processor, ret, open, isOpen, tags>>
      /\ Document' = Document /\ TagLevel' = TagLevel
  BY DEF Abort, Document, TagLevel
<1>2. TypeOK'
  BY <1>1 DEF IInv, TypeOK
<1>3. StackInv' /\ KindInv' /\ ProcessorInv' /\ DoneInv'
  BY <1>1 DEF IInv, StackInv, KindInv, ProcessorInv, DoneInv
<1>4. OpenInv'
  BY <1>1 DEF IInv, OpenInv, Idle
<1>5. LevelInv'
  BY <1>1 DEF IInv, LevelInv
<1>6. RootInv'
  BY <1>1 DEF IInv, RootInv
<1> QED  BY <1>2, <1>3, <1>4, <1>5, <1>6 DEF IInv

\* An error that goes through every call keeps it.
LEMMA ErrorKeeps ==
  ASSUME IInv, UNCHANGED setup, Error
  PROVE  IInv'
<1>1. /\ calls' = <<>> /\ processor' = "error"
      /\ UNCHANGED <<handed, pending, final, status, ret, open, isOpen, tags>>
      /\ Document' = Document
  BY DEF Error, Document
<1>2. TypeOK'
  BY <1>1 DEF IInv, TypeOK, Processors
<1>3. StackInv' /\ KindInv' /\ ProcessorInv' /\ DoneInv'
  BY <1>1 DEF IInv, StackInv, KindInv, ProcessorInv, DoneInv
<1>4. OpenInv'
  BY <1>1 DEF IInv, OpenInv, Idle
<1>5. LevelInv'
  BY <1>1 DEF IInv, LevelInv
<1>6. RootInv'
  BY <1>1 DEF IInv, RootInv
<1> QED  BY <1>2, <1>3, <1>4, <1>5, <1>6 DEF IInv

-----------------------------------------------------------------------------
(* Calls that return *)

\* A call for the text of an entity is the one of the last open entity.
LEMMA DepthFacts ==
  ASSUME TypeOK, StackInv, OpenInv, calls # <<>>, This.src # "buffer"
  PROVE  /\ Aligned /\ Len(open) \in Nat \ {0} /\ Depth = Len(open)
         /\ open[Len(open)].entity = This.src /\ open[Len(open)].base = This.base
         /\ Len(open) + First - 1 = Len(calls)
         /\ This.via = "internal" => Len(calls) = 1 /\ First = 1
         /\ This.via = "ref" => Len(calls) > 1
         /\ This.via \in {"ref", "internal"}
<1>1. Len(calls) \in Nat \ {0} /\ This = calls[Len(calls)] /\ Len(open) \in Nat
  BY CallFacts DEF This, TypeOK
<1>2. This.via \in {"ref", "internal"}
  BY <1>1 DEF StackInv
<1>3. This.via = "ref" => Len(calls) > 1
  BY <1>1 DEF StackInv
<1>4. This.via = "internal" => Len(calls) = 1
  BY <1>1 DEF StackInv
<1>5. Aligned
  BY <1>1 DEF OpenInv, Unwinding
<1>6. First \in 1..2 /\ (This.via = "internal" => First = 1)
  BY <1>1, <1>4 DEF First
<1>7. Len(open) \in Nat \ {0} /\ Len(open) + First - 1 = Len(calls)
  BY <1>1, <1>2, <1>3, <1>4, <1>5, <1>6 DEF Aligned
<1>8. open[Len(open)].entity = This.src /\ open[Len(open)].base = This.base
  BY <1>1, <1>5, <1>7 DEF Aligned
<1>9. \A d \in 1..Len(open) : open[d].entity = This.src <=> d = Len(open)
  BY <1>7, <1>8 DEF OpenInv
<1>10. Depth = Len(open)
  BY <1>7, <1>9 DEF Depth
<1> QED  BY <1>2, <1>3, <1>4, <1>5, <1>6, <1>7, <1>8, <1>10

\* Without the last entity, and without the last call.
LEMMA PopKeeps ==
  ASSUME TypeOK, StackInv, OpenInv, LevelInv, calls # <<>>,
         This.via = "ref", UNCHANGED setup,
         calls' = SubSeq(calls, 1, Len(calls) - 1),
         open' = SubSeq(open, 1, Len(open) - 1), isOpen' = isOpen \ {This.src},
         tags' = tags
  PROVE  /\ calls' \in Seq(Calls) /\ calls' # <<>> /\ This' = calls[Len(calls) - 1]
         /\ Len(calls') = Len(calls) - 1 /\ calls'[1] = calls[1]
         /\ open' \in Seq(OpenEntities) /\ isOpen' \subseteq DOMAIN Table
         /\ This'.mode = "content" /\ This'.base <= This.base /\ This' \in Calls
         /\ StackInv' /\ OpenInv'
<1>1. Len(calls) \in Nat /\ Len(calls) > 1 /\ This = calls[Len(calls)] /\ This.src # "buffer"
  <2>1. Len(calls) \in Nat \ {0} /\ This = calls[Len(calls)]
    BY CallFacts DEF This
  <2> QED  BY <2>1 DEF StackInv
<1>2. /\ Aligned /\ Len(open) \in Nat \ {0}
      /\ open[Len(open)].entity = This.src /\ Len(open) + First - 1 = Len(calls)
  BY <1>1, DepthFacts
<1>3. /\ calls' \in Seq(Calls) /\ Len(calls') = Len(calls) - 1
      /\ \A i \in 1..(Len(calls) - 1) : calls'[i] = calls[i]
  <2>1. Len(calls) - 1 \in 0..Len(calls)
    BY <1>1
  <2> QED  BY <2>1, FrontFacts DEF TypeOK
<1>4. /\ open' \in Seq(OpenEntities) /\ Len(open') = Len(open) - 1
      /\ \A i \in 1..(Len(open) - 1) : open'[i] = open[i]
  <2>1. Len(open) - 1 \in 0..Len(open)
    BY <1>2
  <2> QED  BY <2>1, FrontFacts DEF TypeOK
<1>5. calls' # <<>> /\ This' = calls[Len(calls) - 1] /\ calls'[1] = calls[1]
  <2>1. Len(calls) - 1 \in 1..(Len(calls) - 1) /\ 1 \in 1..(Len(calls) - 1)
    BY <1>1
  <2>2. calls' # <<>>
    BY <1>3, <2>1, ElementFacts
  <2>3. This' = calls'[Len(calls')]
    BY DEF This
  <2> QED  BY <1>3, <2>1, <2>2, <2>3
<1>6. This'.mode = "content" /\ This'.base <= This.base /\ This' \in Calls
  BY <1>1, <1>5 DEF StackInv, LevelInv, TypeOK
<1>7. StackInv'
  BY <1>1, <1>3 DEF StackInv
<1>8. First' = First /\ First \in 1..2
  BY <1>5 DEF First
<1>9. Aligned'
  <2>1. Len(open') = Len(calls') + 1 - First'
    BY <1>1, <1>2, <1>3, <1>4, <1>8 DEF Aligned
  <2>2. ASSUME NEW i \in 1..Len(open')
        PROVE  /\ open'[i].entity = calls'[i + First' - 1].src
               /\ open'[i].base = calls'[i + First' - 1].base
    <3>1. i \in 1..Len(open) /\ open'[i] = open[i]
      BY <1>2, <1>4
    <3>2. i + First - 1 \in 1..(Len(calls) - 1)
      BY <1>1, <1>2, <1>4, <1>8
    <3> QED  BY <1>2, <1>3, <1>8, <3>1, <3>2 DEF Aligned
  <2> QED  BY <2>1, <2>2 DEF Aligned
<1>10. OpenInv'
  <2>1. ASSUME NEW i \in 1..Len(open') PROVE open'[i].entity \in isOpen'
    BY <1>2, <1>4 DEF OpenInv
  <2>2. \A i, j \in 1..Len(open') : i # j => open'[i].entity # open'[j].entity
    BY <1>2, <1>4 DEF OpenInv
  <2> QED  BY <1>5, <1>9, <2>1, <2>2 DEF OpenInv
<1>11. isOpen' \subseteq DOMAIN Table
  BY DEF TypeOK
<1> QED  BY <1>3, <1>4, <1>5, <1>6, <1>7, <1>10, <1>11

\* A call for the text of an entity that was not stopped has read it all.
LEMMA EntityDone ==
  ASSUME IInv, Innermost, This.src # "buffer"
  PROVE  /\ calls # <<>> /\ ~Unwinding /\ processor # "error" /\ This.mode # "epilog"
         /\ Document => tags # <<>>
         /\ status # "SUSPENDED" =>
               This.rest = <<>> /\ This.mode = "content" /\ TagLevel = This.base
         /\ This.base >= 1 /\ This.base <= TagLevel
<1>1. calls # <<>> /\ ret = "NONE" /\ TypeOK /\ RootInv /\ LevelInv /\ DoneInv
  BY DEF IInv, Innermost
<1>2. Len(calls) \in Nat \ {0} /\ This = calls[Len(calls)]
  BY <1>1, CallFacts DEF This
<1>3. ~Unwinding
  BY <1>2 DEF Unwinding
<1>4. processor # "error"
  BY <1>1, <1>3 DEF IInv, ProcessorInv
<1>5. This.mode # "epilog"
  BY <1>1 DEF RootInv
<1>6. Document => tags # <<>>
  BY <1>1, <1>4, <1>5 DEF RootInv
<1>7. status # "SUSPENDED" =>
         This.rest = <<>> /\ This.mode = "content" /\ TagLevel = This.base
  BY <1>1, <1>5 DEF DoneInv
<1>8. This.base >= 1 /\ This.base <= TagLevel
  BY <1>1, <1>2 DEF LevelInv
<1> QED  BY <1>1, <1>3, <1>4, <1>5, <1>6, <1>7, <1>8

\* An entity is done: the call for the reference to it goes on.
LEMMA EntityLeft ==
  ASSUME IInv, Shallow, Innermost, This.via = "ref", ~Unfinished,
         EntityReturns, UNCHANGED setup
  PROVE  IInv'
<1>1. TypeOK /\ StackInv /\ OpenInv /\ LevelInv /\ KindInv /\ calls # <<>> /\ ret = "NONE"
  BY DEF IInv, Innermost
<1>2. Len(calls) \in Nat /\ Len(calls) > 1 /\ This = calls[Len(calls)] /\ This.src # "buffer"
  <2>1. Len(calls) \in Nat \ {0} /\ This = calls[Len(calls)]
    BY <1>1, CallFacts DEF This
  <2> QED  BY <1>1, <2>1 DEF StackInv
<1>3. /\ Len(open) \in Nat \ {0} /\ Depth = Len(open) /\ Len(open) + First - 1 = Len(calls)
  BY <1>1, <1>2, DepthFacts
<1>4. /\ ~Unwinding /\ processor # "error" /\ This.mode # "epilog"
      /\ Document => tags # <<>>
      /\ status # "SUSPENDED" => This.mode = "content"
      /\ This.base <= TagLevel /\ This.base >= 1
  BY <1>2, EntityDone
<1>5. /\ calls' = SubSeq(calls, 1, Len(calls) - 1)
      /\ open' = SubSeq(open, 1, Len(open) - 1) /\ isOpen' = isOpen \ {This.src}
      /\ processor' = IF This.mode = "cdata" THEN "cdata" ELSE processor
      /\ LoopEnd(status)
      /\ UNCHANGED <<handed, pending, final, status, tags>>
  BY <1>3 DEF EntityReturns, Before
<1>6. /\ calls' \in Seq(Calls) /\ calls' # <<>> /\ This' = calls[Len(calls) - 1]
      /\ Len(calls') = Len(calls) - 1 /\ calls'[1] = calls[1]
      /\ open' \in Seq(OpenEntities) /\ isOpen' \subseteq DOMAIN Table
      /\ This'.mode = "content" /\ This'.base <= This.base /\ This' \in Calls
      /\ StackInv' /\ OpenInv'
  BY <1>1, <1>5, PopKeeps
<1>7. \A i \in 1..(Len(calls) - 1) : calls'[i] = calls[i]
  <2>1. Len(calls) - 1 \in 0..Len(calls)
    BY <1>2
  <2> QED  BY <1>1, <1>5, <2>1, FrontFacts DEF TypeOK
<1>8. /\ ret' \in Results
      /\ ret' = "NONE" => status = "SUSPENDED"
      /\ ret' = "ABORTED" <=> status = "FINISHED"
  <2>1. status \in Statuses
    BY <1>1 DEF TypeOK, Statuses
  <2> QED  BY <1>5, <2>1, LoopFacts
<1>9. status = "SUSPENDED" => Document /\ Len(open) = 1 /\ First = 2
  <2>1. status = "SUSPENDED" => Len(open) <= (IF Document THEN 1 ELSE 0)
    BY DEF Shallow
  <2>2. Document \in BOOLEAN /\ First \in 1..2
    BY <1>1, LevelFacts DEF First
  <2> QED  BY <1>2, <1>3, <2>1, <2>2
<1>10. Document' = Document /\ TagLevel' = TagLevel /\ TagLevel \in Nat
  BY <1>1, <1>5, LevelFacts DEF Document, TagLevel
<1>11. TypeOK'
  <2>1. processor' \in Processors
    BY <1>1, <1>5 DEF TypeOK, Processors
  <2> QED  BY <1>1, <1>5, <1>6, <1>8, <2>1 DEF TypeOK
<1>12. processor' = "internal" <=> calls[1].via = "internal"
  <2>1. processor = "internal" <=> calls[1].via = "internal"
    BY <1>1, <1>4 DEF IInv, ProcessorInv
  <2>2. CASE status = "SUSPENDED"
    BY <1>5, <1>9, <2>1, <2>2 DEF First
  <2>3. CASE status # "SUSPENDED"
    BY <1>4, <1>5, <2>1, <2>3
  <2> QED  BY <2>2, <2>3
<1>13. processor' \notin {"error", "epilog"}
  BY <1>1, <1>4, <1>5 DEF IInv, ProcessorInv
<1>14. ~Document /\ ret' \in {"running", "NONE"} => processor' = "external"
  <2> SUFFICES ASSUME ~Document, ret' \in {"running", "NONE"}
               PROVE  processor' = "external"
    OBVIOUS
  <2>1. status # "SUSPENDED"
    BY <1>9
  <2>2. This.mode = "content" /\ processor' = processor
    BY <1>4, <1>5, <2>1
  <2> QED  BY <1>1, <1>4, <2>2 DEF IInv, ProcessorInv
<1>15. ProcessorInv'
  BY <1>6, <1>10, <1>12, <1>13, <1>14 DEF ProcessorInv
<1>16. KindInv'
  BY <1>1, <1>5, <1>6, <1>10 DEF KindInv
<1>17. LevelInv'
  <2>1. \A i, j \in 1..Len(calls') : i <= j => calls'[i].base <= calls'[j].base
    BY <1>1, <1>2, <1>6, <1>7 DEF LevelInv
  <2>2. This'.base <= TagLevel'
    <3>1. This'.base \in Nat /\ This.base \in Nat
      BY <1>1, <1>6, CallFacts DEF Calls
    <3> QED  BY <1>4, <1>6, <1>10, <3>1
  <2>3. ASSUME NEW i \in 1..Len(calls')
        PROVE  /\ calls'[i].src # "buffer" => calls'[i].base >= 1
               /\ calls'[i].src = "buffer" =>
                     calls'[i].base = IF Document' \/ calls'[i].via = "cdata" THEN 0 ELSE 1
               /\ calls'[i].via = "cdata" /\ ~Document' =>
                     calls'[i].mode = "cdata" \/ ret' = "ABORTED"
    <3>1. i \in 1..Len(calls) /\ i < Len(calls) /\ calls'[i] = calls[i]
      BY <1>2, <1>6, <1>7
    <3>2. ~(calls[i].via = "cdata" /\ ~Document)
      BY <1>1, <3>1 DEF StackInv, LevelInv
    <3> QED  BY <1>1, <1>10, <3>1, <3>2 DEF LevelInv
  <2> QED  BY <2>1, <2>2, <2>3 DEF LevelInv
<1>18. RootInv'
  BY <1>4, <1>5, <1>6, <1>10 DEF RootInv
<1>19. DoneInv'
  BY <1>5, <1>8 DEF DoneInv
<1> QED  BY <1>6, <1>11, <1>15, <1>16, <1>17, <1>18, <1>19 DEF IInv

\* The rest of the text of an open entity is put away.
PutAway ==
    /\ open' \in Seq(OpenEntities) /\ Len(open') = Len(open)
    /\ \A i \in 1..Len(open) : /\ open'[i].entity = open[i].entity
                              /\ open'[i].base = open[i].base

\* The assignment to the rest of an entry puts it away.
LEMMA PutAwayFacts ==
  ASSUME TypeOK, NEW d \in 1..Len(open), calls # <<>>,
         open' = [open EXCEPT ![d].rest = This.rest]
  PROVE  PutAway
<1> DEFINE o == [open[d] EXCEPT !.rest = This.rest]
           t == [open EXCEPT ![d] = o]
<1>1. open \in Seq(OpenEntities) /\ open[d] \in OpenEntities
  <2>1. open \in Seq(OpenEntities)
    BY DEF TypeOK
  <2> QED  BY <2>1, ElementFacts
<1>2. This.rest \in Seq(Tokens)
  BY CallFacts DEF Calls
<1>3. o \in OpenEntities /\ o.entity = open[d].entity /\ o.base = open[d].base
  BY <1>1, <1>2 DEF OpenEntities
<1>4. open' = t
  OBVIOUS
<1> HIDE DEF o
<1>5. /\ t \in Seq(OpenEntities) /\ Len(t) = Len(open)
      /\ t[d] = o
      /\ \A j \in 1..Len(open) : j # d => t[j] = open[j]
  BY <1>1, <1>3, SlotFacts
<1> HIDE DEF t
<1> QED  BY <1>3, <1>4, <1>5 DEF PutAway

\* The parser was stopped in an entity: the processor will be its own.
LEMMA EntityStopped ==
  ASSUME IInv, Shallow, Innermost, This.via = "ref", Unfinished,
         EntityReturns, UNCHANGED setup
  PROVE  IInv'
<1>1. /\ TypeOK /\ StackInv /\ OpenInv /\ LevelInv /\ KindInv /\ calls # <<>>
      /\ ret = "NONE" /\ status = "SUSPENDED"
  BY DEF IInv, Innermost, Unfinished
<1>2. Len(calls) \in Nat /\ Len(calls) > 1 /\ This = calls[Len(calls)] /\ This.src # "buffer"
  <2>1. Len(calls) \in Nat \ {0} /\ This = calls[Len(calls)]
    BY <1>1, CallFacts DEF This
  <2> QED  BY <1>1, <2>1 DEF StackInv
<1>3. /\ Len(open) \in Nat \ {0} /\ Depth = Len(open) /\ Len(open) + First - 1 = Len(calls)
      /\ open[Len(open)].base = This.base
  BY <1>1, <1>2, DepthFacts
<1>4. /\ ~Unwinding /\ processor # "error"
      /\ Document => tags # <<>>
      /\ This.base <= TagLevel /\ This.base >= 1
  BY <1>2, EntityDone
<1>5. Document /\ Len(open) = 1 /\ First = 2 /\ Len(calls) = 2
  <2>1. Len(open) <= (IF Document THEN 1 ELSE 0)
    BY <1>1 DEF Shallow
  <2>2. Document \in BOOLEAN /\ First \in 1..2 /\ Len(open) \in Nat \ {0}
    BY <1>1, <1>3, LevelFacts DEF First
  <2>3. Document /\ Len(open) = 1
    BY <2>1, <2>2
  <2>4. 1 + First - 1 = Len(calls) /\ Len(calls) > 1
    BY <1>2, <1>3, <2>3
  <2> QED  BY <2>2, <2>3, <2>4
<1>6. /\ calls' = SubSeq(calls, 1, Len(calls) - 1)
      /\ open' = [open EXCEPT ![Depth].rest = This.rest] /\ processor' = "internal"
      /\ LoopEnd(status)
      /\ UNCHANGED <<handed, pending, final, status, isOpen, tags>>
  BY DEF EntityReturns
<1>7. PutAway
  <2>1. 1 \in 1..Len(open) /\ Depth = 1
    BY <1>3, <1>5
  <2>2. open' = [open EXCEPT ![1].rest = This.rest]
    BY <1>6, <2>1
  <2> QED  BY <1>1, <2>1, <2>2, PutAwayFacts
<1>8. calls' \in Seq(Calls) /\ Len(calls') = 1 /\ calls'[1] = calls[1] /\ calls' # <<>>
  <2>1. Len(calls) - 1 \in 0..Len(calls) /\ 1 \in 1..(Len(calls) - 1)
    BY <1>5
  <2>2. /\ calls' \in Seq(Calls) /\ Len(calls') = Len(calls) - 1
        /\ \A i \in 1..(Len(calls) - 1) : calls'[i] = calls[i]
    BY <1>1, <1>6, <2>1, FrontFacts DEF TypeOK
  <2>3. Len(calls') = 1 /\ calls'[1] = calls[1]
    BY <1>5, <2>1, <2>2
  <2>4. 1 \in 1..Len(calls')
    BY <2>3
  <2>5. calls' # <<>>
    BY <2>2, <2>4, ElementFacts
  <2> QED  BY <2>2, <2>3, <2>5
<1>9. This' = calls[1]
  <2>1. This' = calls'[Len(calls')]
    BY DEF This
  <2> QED  BY <1>8, <2>1
<1>10. /\ calls[1].via \notin {"ref", "internal"} /\ calls[1].src = "buffer"
       /\ calls[1].mode = "content" /\ calls[1].base = 0
  BY <1>1, <1>5 DEF StackInv, First, LevelInv
<1>11. ret' = "NONE"
  BY <1>1, <1>6 DEF LoopEnd
<1>12. Document' = Document /\ TagLevel' = TagLevel /\ TagLevel \in Nat
  BY <1>1, <1>6, LevelFacts DEF Document, TagLevel
<1>13. open'[1].base \in 1..TagLevel /\ Len(open') = 1
  <2>1. This.base \in Nat
    BY <1>1, CallFacts DEF Calls
  <2> QED  BY <1>3, <1>4, <1>5, <1>7, <1>12, <2>1 DEF PutAway
<1>14. TypeOK'
  BY <1>1, <1>6, <1>7, <1>8, <1>11 DEF TypeOK, PutAway, Processors, Results
<1>15. StackInv'
  BY <1>8, <1>10 DEF StackInv
<1>16. Unwinding'
  BY <1>1, <1>5, <1>6, <1>8, <1>10, <1>11, <1>12, <1>13 DEF Unwinding
<1>17. OpenInv'
  <2>1. \A i \in 1..Len(open') : open'[i].entity \in isOpen'
    <3>1. \A i \in 1..Len(open) : open[i].entity \in isOpen
      BY <1>1 DEF OpenInv
    <3>2. Len(open') = Len(open) /\ \A i \in 1..Len(open) : open'[i].entity = open[i].entity
      BY <1>7 DEF PutAway
    <3> QED  BY <1>6, <3>1, <3>2
  <2>2. \A i, j \in 1..Len(open') : i # j => open'[i].entity # open'[j].entity
    BY <1>13
  <2> QED  BY <1>8, <1>16, <2>1, <2>2 DEF OpenInv
<1>18. ProcessorInv'
  BY <1>16 DEF ProcessorInv
<1>19. KindInv'
  BY <1>1, <1>5, <1>6, <1>8, <1>12 DEF KindInv
<1>20. LevelInv'
  BY <1>5, <1>8, <1>9, <1>10, <1>12 DEF LevelInv
<1>21. RootInv'
  BY <1>4, <1>5, <1>6, <1>8, <1>9, <1>10, <1>12 DEF RootInv
<1>22. DoneInv'
  BY <1>1, <1>6 DEF DoneInv
<1> QED  BY <1>14, <1>15, <1>17, <1>18, <1>19, <1>20, <1>21, <1>22 DEF IInv

\* The return from the text of an entity keeps the invariant.
LEMMA EntityReturnsKeeps ==
  ASSUME IInv, Shallow, EntityReturns, UNCHANGED setup
  PROVE  IInv'
<1>1. Innermost /\ This.via = "ref"
  BY DEF EntityReturns
<1> QED  BY <1>1, EntityLeft, EntityStopped

\* What a suspended parser reads of an entity.
LEMMA ResumedFacts ==
  ASSUME IInv, Innermost, This.via = "internal"
  PROVE  /\ TypeOK /\ KindInv /\ OpenInv /\ Len(calls) = 1 /\ First = 1
         /\ Len(open) = 1 /\ Depth = 1 /\ open[1].base = This.base /\ open[1].entity = This.src
         /\ Document /\ tags # <<>> /\ processor = "internal"
         /\ This.base >= 1 /\ This.base <= TagLevel
<1>1. TypeOK /\ StackInv /\ OpenInv /\ KindInv /\ calls # <<>>
  BY DEF IInv, Innermost
<1>2. This = calls[Len(calls)] /\ Len(calls) \in Nat \ {0}
  BY <1>1, CallFacts DEF This
<1>3. This.src # "buffer"
  BY <1>1, <1>2 DEF StackInv
<1>4. /\ Len(calls) = 1 /\ First = 1 /\ Len(open) \in Nat \ {0} /\ Depth = Len(open)
      /\ Len(open) + First - 1 = Len(calls)
      /\ open[Len(open)].entity = This.src /\ open[Len(open)].base = This.base
  BY <1>1, <1>3, DepthFacts
<1>5. Len(open) = 1
  <2>1. Len(open) + 1 - 1 = 1 /\ Len(open) \in Nat
    BY <1>4
  <2> QED  BY <2>1
<1>6. /\ ~Unwinding /\ processor # "error" /\ This.base >= 1 /\ This.base <= TagLevel
      /\ Document => tags # <<>>
  BY <1>3, EntityDone
<1>7. processor = "internal"
  BY <1>1, <1>2, <1>4, <1>6 DEF IInv, ProcessorInv
<1>8. Document
  BY <1>1, <1>2, <1>4 DEF KindInv
<1> QED  BY <1>1, <1>4, <1>5, <1>6, <1>7, <1>8

\* internalEntityProcessor keeps it: it goes on with the buffer, or waits.
LEMMA EntityResumedKeeps ==
  ASSUME IInv, Shallow, EntityResumed, UNCHANGED setup
  PROVE  IInv'
<1>1. Innermost /\ This.via = "internal" /\ calls # <<>> /\ ret = "NONE"
  BY DEF EntityResumed, Innermost
<1>2. /\ TypeOK /\ KindInv /\ OpenInv /\ Len(calls) = 1 /\ First = 1
      /\ Len(open) = 1 /\ Depth = 1 /\ open[1].base = This.base /\ open[1].entity = This.src
      /\ Document /\ tags # <<>> /\ processor = "internal"
      /\ This.base >= 1 /\ This.base <= TagLevel
  BY <1>1, ResumedFacts
<1>3. UNCHANGED <<handed, pending, final, status, tags>>
  BY DEF EntityResumed
<1>4. Document' = Document /\ TagLevel' = TagLevel /\ TagLevel \in Nat
  BY <1>2, <1>3, LevelFacts DEF Document, TagLevel
<1>5. This.base \in Nat
  BY <1>1, <1>2, CallFacts DEF Calls
<1>6. CASE Unfinished
  <2>0. This.mode # "cdata"
    <3>1. status = "SUSPENDED" /\ open # <<>>
      BY <1>2, <1>6 DEF Unfinished
    <3> QED  BY <1>1, <3>1 DEF Shallow, Mode
  <2>1. /\ open' = [open EXCEPT ![Depth].rest = This.rest] /\ calls' = <<>>
        /\ UNCHANGED <<processor, isOpen, ret>>
    BY <1>6, <2>0 DEF EntityResumed
  <2>2. PutAway
    BY <1>1, <1>2, <2>1, PutAwayFacts
  <2>3. status = "SUSPENDED"
    BY <1>6 DEF Unfinished
  <2>4. TypeOK'
    BY <1>2, <1>3, <2>1, <2>2 DEF TypeOK, PutAway
  <2>5. Idle'
    BY <1>2, <1>3, <1>4, <1>5, <2>1, <2>2, <2>3 DEF Idle, PutAway
  <2>6. OpenInv'
    <3>1. \A i \in 1..Len(open') : open'[i].entity \in isOpen'
      <4>1. \A i \in 1..Len(open) : open[i].entity \in isOpen
        BY <1>2 DEF OpenInv
      <4>2. Len(open') = Len(open) /\ \A i \in 1..Len(open) : open'[i].entity = open[i].entity
        BY <2>2 DEF PutAway
      <4> QED  BY <2>1, <4>1, <4>2
    <3>2. \A i, j \in 1..Len(open') : i # j => open'[i].entity # open'[j].entity
      BY <1>2, <2>2 DEF PutAway
    <3> QED  BY <2>1, <2>5, <3>1, <3>2 DEF OpenInv
  <2>7. StackInv' /\ ProcessorInv' /\ DoneInv' /\ LevelInv'
    BY <2>1 DEF StackInv, ProcessorInv, DoneInv, LevelInv
  <2>8. KindInv'
    BY <1>2, <1>4, <2>1 DEF KindInv
  <2>9. RootInv'
    BY <1>2, <1>3, <1>4, <2>1 DEF RootInv
  <2> QED  BY <2>4, <2>6, <2>7, <2>8, <2>9 DEF IInv
<1>7. CASE ~Unfinished
  <2> DEFINE c == Buffer("resumed", pending, 0, "content")
  <2>1. /\ open' = Before /\ isOpen' = isOpen \ {This.src}
        /\ processor' = "content" /\ ret' = "running" /\ calls' = <<c>>
    BY <1>2, <1>7 DEF EntityResumed
  <2>2. /\ c \in Calls /\ c.via = "resumed" /\ c.src = "buffer" /\ c.rest = pending
        /\ c.base = 0 /\ c.mode = "content"
    BY <1>2 DEF Buffer, Call, Calls, TypeOK
  <2> HIDE DEF c
  <2>3. /\ calls' \in Seq(Calls) /\ calls' # <<>> /\ Len(calls') = 1
        /\ calls'[1] = c /\ This' = c
    BY <2>1, <2>2, OneCall
  <2>4. open' \in Seq(OpenEntities) /\ Len(open') = 0
    <3>1. open' = SubSeq(open, 1, 0) /\ 0 \in 0..Len(open)
      BY <1>2, <2>1 DEF Before
    <3> QED  BY <1>2, <3>1, FrontFacts DEF TypeOK
  <2>5. TypeOK'
    BY <1>2, <1>3, <2>1, <2>3, <2>4 DEF TypeOK, Results, Processors
  <2>6. StackInv'
    BY <2>2, <2>3 DEF StackInv
  <2>7. Aligned'
    <3>1. First' = 2
      BY <2>2, <2>3 DEF First
    <3> QED  BY <2>3, <2>4, <3>1 DEF Aligned
  <2>8. OpenInv'
    BY <2>3, <2>4, <2>7 DEF OpenInv
  <2>9. ProcessorInv'
    BY <1>2, <1>4, <2>1, <2>2, <2>3 DEF ProcessorInv
  <2>10. KindInv'
    BY <1>2, <1>4, <2>1, <2>2, <2>3 DEF KindInv
  <2>11. LevelInv'
    BY <1>2, <1>4, <2>2, <2>3 DEF LevelInv
  <2>12. RootInv'
    BY <1>2, <1>3, <1>4, <2>2, <2>3 DEF RootInv
  <2>13. DoneInv'
    BY <2>1 DEF DoneInv
  <2> QED  BY <2>5, <2>6, <2>8, <2>9, <2>10, <2>11, <2>12, <2>13 DEF IInv
<1> QED  BY <1>6, <1>7

\* Tags whose raw names are elsewhere are the same tags.
SameTags(s, t) ==
    /\ t \in Seq(Tags) /\ Len(t) = Len(s)
    /\ \A i \in 1..Len(s) : t[i].name = s[i].name /\ t[i].depth = s[i].depth

\* storeRawNames leaves the tags.
LEMMA StoredFacts ==
  ASSUME NEW s \in Seq(Tags)
  PROVE  SameTags(s, StoreRawNames(s))
<1> DEFINE n == CHOOSE k \in 0..Len(s) :
                  /\ \A i \in 1..k : s[i].raw # "stored"
                  /\ k = Len(s) \/ s[k + 1].raw = "stored"
           t == [i \in DOMAIN s |->
                   IF i <= n
                   THEN [s[i] EXCEPT !.raw = IF @ = "moved" THEN "moved" ELSE "stored"]
                   ELSE s[i]]
<1>1. StoreRawNames(s) = t
  BY DEF StoreRawNames
<1> HIDE DEF n
<1>2. DOMAIN s = 1..Len(s)
  OBVIOUS
<1>3. ASSUME NEW i \in DOMAIN s
      PROVE  t[i] \in Tags /\ t[i].name = s[i].name /\ t[i].depth = s[i].depth
  <2>1. s[i] \in Tags
    BY <1>2, ElementFacts
  <2>2. \/ t[i] = s[i]
        \/ t[i] = [s[i] EXCEPT !.raw = IF @ = "moved" THEN "moved" ELSE "stored"]
    OBVIOUS
  <2> QED  BY <2>1, <2>2 DEF Tags
<1>4. DOMAIN t = DOMAIN s /\ t = [i \in DOMAIN s |-> t[i]]
  OBVIOUS
<1> HIDE DEF t
<1>5. t \in Seq(Tags) /\ Len(t) = Len(s)
  BY <1>3, <1>4, MapFacts
<1> QED  BY <1>1, <1>2, <1>3, <1>5 DEF SameTags

\* A buffer that moves leaves the tags.
LEMMA MovedFacts ==
  ASSUME NEW s \in Seq(Tags)
  PROVE  SameTags(s, [i \in DOMAIN s |->
                        [s[i] EXCEPT !.raw = IF @ = "buffer" THEN "moved" ELSE @]])
<1> DEFINE t == [i \in DOMAIN s |->
                   [s[i] EXCEPT !.raw = IF @ = "buffer" THEN "moved" ELSE @]]
<1>1. DOMAIN s = 1..Len(s)
  OBVIOUS
<1>2. ASSUME NEW i \in DOMAIN s
      PROVE  t[i] \in Tags /\ t[i].name = s[i].name /\ t[i].depth = s[i].depth
  <2>1. s[i] \in Tags
    BY <1>1, ElementFacts
  <2>2. t[i] = [s[i] EXCEPT !.raw = IF @ = "buffer" THEN "moved" ELSE @]
    OBVIOUS
  <2> QED  BY <2>1, <2>2 DEF Tags
<1>3. DOMAIN t = DOMAIN s /\ t = [i \in DOMAIN s |-> t[i]]
  OBVIOUS
<1> HIDE DEF t
<1>4. t \in Seq(Tags) /\ Len(t) = Len(s)
  BY <1>2, <1>3, MapFacts
<1>5. SameTags(s, t)
  BY <1>1, <1>2, <1>4 DEF SameTags
<1> QED  BY <1>5 DEF t

\* A processor that returns leaves the tags.
LEMMA TagsKept ==
  ASSUME TypeOK, ProcessorReturns
  PROVE  SameTags(tags, tags')
<1> DEFINE k == IF This.via \in {"content", "external"} THEN StoreRawNames(tags) ELSE tags
           t == [i \in DOMAIN k |-> [k[i] EXCEPT !.raw = IF @ = "buffer" THEN "moved" ELSE @]]
<1>1. tags \in Seq(Tags)
  BY DEF TypeOK
<1>2. SameTags(tags, k)
  <2>1. SameTags(tags, tags)
    BY <1>1 DEF SameTags
  <2> QED  BY <1>1, <2>1, StoredFacts
<1>3. tags' = t
  BY DEF ProcessorReturns
<1> HIDE DEF k
<1>4. k \in Seq(Tags)
  BY <1>2 DEF SameTags
<1>5. SameTags(k, t)
  BY <1>4, MovedFacts
<1> HIDE DEF t
<1>6. SameTags(tags, t)
  BY <1>2, <1>5 DEF SameTags
<1> QED  BY <1>3, <1>6

\* The call of a processor for the buffer returns: it is the only one.
LEMMA BufferFacts ==
  ASSUME IInv, Innermost, This.src = "buffer"
  PROVE  /\ TypeOK /\ KindInv /\ RootInv /\ Len(calls) = 1 /\ This = calls[1]
         /\ This \in Calls /\ This.via \notin {"ref", "internal"}
         /\ \/ Unwinding
            \/ ~Unwinding /\ open = <<>> /\ processor \notin {"internal", "error"}
         /\ processor = "epilog" <=> This.mode = "epilog"
<1>1. TypeOK /\ StackInv /\ OpenInv /\ KindInv /\ RootInv /\ calls # <<>>
  BY DEF IInv, Innermost
<1>2. This = calls[Len(calls)] /\ Len(calls) \in Nat \ {0} /\ This \in Calls
  BY <1>1, CallFacts DEF This
<1>3. This.via \notin {"ref", "internal"} /\ Len(calls) = 1
  BY <1>1, <1>2 DEF StackInv
<1>4. CASE Unwinding
  BY <1>1, <1>2, <1>3, <1>4 DEF Unwinding
<1>5. CASE ~Unwinding
  <2>1. Aligned /\ First = 2
    BY <1>1, <1>2, <1>3, <1>5 DEF OpenInv, First
  <2>2. Len(open) = 0
    BY <1>3, <2>1 DEF Aligned
  <2>3. open = <<>>
    BY <1>1, <2>2 DEF TypeOK
  <2>4. processor \notin {"internal", "error"} /\ (processor = "epilog" <=> This.mode = "epilog")
    BY <1>1, <1>2, <1>3, <1>5 DEF IInv, ProcessorInv
  <2> QED  BY <1>1, <1>2, <1>3, <1>5, <2>3, <2>4
<1> QED  BY <1>4, <1>5

\* A processor that returns keeps the invariant.
LEMMA ProcessorReturnsKeeps ==
  ASSUME IInv, ProcessorReturns, UNCHANGED setup
  PROVE  IInv'
<1>1. Innermost /\ This.src = "buffer" /\ calls # <<>> /\ ret = "NONE"
  BY DEF ProcessorReturns, Innermost
<1>2. /\ TypeOK /\ KindInv /\ RootInv /\ Len(calls) = 1 /\ This = calls[1]
      /\ This \in Calls /\ This.via \notin {"ref", "internal"}
      /\ \/ Unwinding
         \/ ~Unwinding /\ open = <<>> /\ processor \notin {"internal", "error"}
      /\ processor = "epilog" <=> This.mode = "epilog"
  BY <1>1, BufferFacts
<1>3. /\ pending' = This.rest
      /\ processor' = IF This.mode = "cdata" THEN "cdata" ELSE processor
      /\ status' = IF status = "PARSING" /\ final THEN "FINISHED" ELSE status
      /\ calls' = <<>>
      /\ UNCHANGED <<handed, final, ret, open, isOpen>>
  BY DEF ProcessorReturns
<1>4. tags' \in Seq(Tags) /\ Len(tags') = Len(tags)
  BY <1>2, TagsKept DEF SameTags
<1>5. /\ Document' = Document /\ TagLevel' = TagLevel /\ TagLevel \in Nat
      /\ (tags' = <<>> <=> tags = <<>>)
  <2>1. Document' = Document
    BY DEF Document
  <2>2. Len(tags) \in Nat /\ (tags = <<>> <=> Len(tags) = 0) /\ TagLevel \in Nat
    BY <1>2, LevelFacts
  <2>3. tags' = <<>> <=> Len(tags') = 0
    BY <1>4
  <2>4. TagLevel' = TagLevel
    BY <1>4, <2>1 DEF TagLevel
  <2> QED  BY <1>4, <2>1, <2>2, <2>3, <2>4
<1>6. TypeOK'
  <2>1. This.rest \in Seq(Tokens) /\ <<>> \in Seq(Calls)
    BY <1>2 DEF Calls
  <2> QED  BY <1>2, <1>3, <1>4, <2>1 DEF TypeOK, Processors
<1>7. OpenInv'
  <2>1. CASE Unwinding
    <3>1. /\ processor = "internal" /\ status = "SUSPENDED" /\ This.mode = "content"
          /\ Document /\ Len(open) = 1 /\ open[1].base \in 1..TagLevel
      BY <1>2, <2>1 DEF Unwinding
    <3>2. processor' = "internal" /\ status' = "SUSPENDED" /\ open' = open
      BY <1>3, <3>1
    <3>3. Document' /\ Len(open') = 1 /\ open'[1].base \in 1..TagLevel'
      BY <1>5, <3>1, <3>2
    <3>4. Idle'
      BY <3>2, <3>3 DEF Idle
    <3> QED  BY <1>1, <1>3, <3>4 DEF IInv, OpenInv
  <2>2. CASE open = <<>> /\ processor \notin {"internal", "error"}
    <3>1. Idle'
      BY <1>3, <2>2 DEF Idle
    <3> QED  BY <1>1, <1>3, <3>1 DEF IInv, OpenInv
  <2> QED  BY <1>2, <2>1, <2>2
<1>8. StackInv' /\ ProcessorInv' /\ LevelInv' /\ DoneInv'
  BY <1>3 DEF StackInv, ProcessorInv, LevelInv, DoneInv
<1>9. KindInv'
  BY <1>2, <1>3, <1>5 DEF KindInv
<1>10. RootInv'
  <2>1. processor # "error"
    BY <1>2 DEF Unwinding
  <2>2. processor' = "epilog" => tags = <<>>
    BY <1>1, <1>2, <1>3 DEF RootInv
  <2>3. Document /\ tags = <<>> => processor' = "epilog"
    BY <1>1, <1>2, <1>3, <2>1 DEF RootInv
  <2> QED  BY <1>3, <1>5, <2>2, <2>3 DEF RootInv
<1> QED  BY <1>6, <1>7, <1>8, <1>9, <1>10 DEF IInv

-----------------------------------------------------------------------------
(* The parser *)

\* A new parser has the invariant.
LEMMA InitKeeps ==
  ASSUME ContentInit
  PROVE  IInv
<1>1. /\ setup \in Setups /\ handed = 0 /\ pending = <<>> /\ final = FALSE
      /\ status = "PARSING" /\ processor = (IF Document THEN "content" ELSE "init2")
      /\ calls = <<>> /\ ret = "running" /\ open = <<>> /\ isOpen = {} /\ tags = <<>>
  BY DEF ContentInit
<1>2. TypeOK
  <2>1. /\ pending \in Seq(Tokens) /\ calls \in Seq(Calls)
        /\ open \in Seq(OpenEntities) /\ tags \in Seq(Tags)
    BY <1>1
  <2>2. processor \in Processors /\ ret \in Results
    BY <1>1 DEF Processors, Results
  <2>3. handed \in Nat /\ final \in BOOLEAN /\ isOpen \subseteq DOMAIN Table
    BY <1>1
  <2> QED  BY <1>1, <2>1, <2>2, <2>3 DEF TypeOK
<1>3. Document \in BOOLEAN
  BY <1>2, LevelFacts
<1>4. StackInv /\ ProcessorInv /\ LevelInv /\ DoneInv
  BY <1>1 DEF StackInv, ProcessorInv, LevelInv, DoneInv
<1>5. OpenInv
  BY <1>1 DEF OpenInv, Idle
<1>6. KindInv /\ RootInv
  BY <1>1, <1>3 DEF KindInv, RootInv
<1> QED  BY <1>2, <1>4, <1>5, <1>6 DEF IInv

\* Every step keeps it, as long as the parser is not suspended too deep.
LEMMA NextKeeps ==
  ASSUME IInv, Shallow, [ContentNext /\ UNCHANGED setup]_<<setup, cvars>>
  PROVE  IInv'
<1>1. CASE UNCHANGED <<setup, cvars>>
  <2>1. /\ Document' = Document /\ TagLevel' = TagLevel /\ This' = This /\ Token' = Token
        /\ First' = First
    BY <1>1 DEF cvars, Document, TagLevel, This, Token, First
  <2>2. TypeOK' /\ StackInv' /\ OpenInv' /\ KindInv'
    BY <1>1, <2>1 DEF cvars, IInv, TypeOK, StackInv, OpenInv, Idle, Aligned, Unwinding, KindInv
  <2>3. ProcessorInv' /\ LevelInv' /\ RootInv' /\ DoneInv'
    BY <1>1, <2>1 DEF cvars, IInv, ProcessorInv, Unwinding, LevelInv, RootInv, DoneInv
  <2> QED  BY <2>2, <2>3 DEF IInv
<1>2. CASE ContentNext /\ UNCHANGED setup
  <2>1. ASSUME NEW chunk \in Pieces, NEW isFinal \in BOOLEAN,
               Offered(chunk, isFinal), XML_Parse(chunk, isFinal)
        PROVE  IInv'
    BY <1>2, <2>1, ParseKeeps
  <2>2. CASE Resume           BY <1>2, <2>2, ResumeKeeps
  <2>3. CASE Abort            BY <1>2, <2>3, AbortKeeps
  <2>4. CASE Step             BY <1>2, <2>4, StepKeeps
  <2>5. CASE EntityReturns    BY <1>2, <2>5, EntityReturnsKeeps
  <2>6. CASE EntityResumed    BY <1>2, <2>6, EntityResumedKeeps
  <2>7. CASE ProcessorReturns BY <1>2, <2>7, ProcessorReturnsKeeps
  <2>8. CASE Error            BY <1>2, <2>8, ErrorKeeps
  <2> QED  BY <1>2, <2>1, <2>2, <2>3, <2>4, <2>5, <2>6, <2>7, <2>8 DEF ContentNext
<1> QED  BY <1>1, <1>2

\* A parser that is not suspended more than one internal entity deep, nor in
\* one of an external entity, nor in a CDATA section of one, keeps its place: the calls of doContent that are
\* active are those for the open entities (openInternalEntities), the processor
\* is the one of the outermost, no call is left below the level of tags it
\* began at, and one that is done has read its text.
THEOREM ContentInvariant == ContentSpec /\ []Shallow => []IInv
<1>1. ContentInit => IInv
  BY InitKeeps
<1>2. IInv /\ Shallow /\ [ContentNext /\ UNCHANGED setup]_<<setup, cvars>> => IInv'
  BY NextKeeps
<1> QED  BY <1>1, <1>2, PTL DEF ContentSpec

-----------------------------------------------------------------------------
(* Parsing ends well *)

\* A call of the stack goes on.
LEMMA BecomesStays ==
  ASSUME TypeOK, calls # <<>>, NEW c, Becomes(c)
  PROVE  calls' # <<>>
<1>1. DOMAIN calls' = DOMAIN calls
  BY DEF Becomes
<1>2. DOMAIN calls # {}
  <2>1. Len(calls) \in Nat \ {0} /\ DOMAIN calls = 1..Len(calls)
    BY DEF TypeOK
  <2> QED  BY <2>1
<1> QED  BY <1>1, <1>2

\* So it does when a reference is entered.
LEMMA AppendStays ==
  ASSUME TypeOK, calls # <<>>, NEW p \in Calls, NEW c \in Calls,
         calls' = Append([calls EXCEPT ![Len(calls)] = p], c)
  PROVE  calls' # <<>>
<1> DEFINE t == [calls EXCEPT ![Len(calls)] = p]
<1>1. t \in Seq(Calls)
  BY TopFacts DEF TypeOK
<1>2. calls' = Append(t, c)
  OBVIOUS
<1> HIDE DEF t
<1> QED  BY <1>1, <1>2, AppendFacts

\* A step of the loop leaves no call.
LEMMA StepStays ==
  ASSUME IInv, Step
  PROVE  calls' # <<>>
<1>1. TypeOK /\ calls # <<>>
  BY DEF IInv, Step, Running
<1>2. (\E c : Becomes(c)) => calls' # <<>>
  BY <1>1, BecomesStays
<1>3. CASE StartTag       BY <1>2, <1>3 DEF StartTag
<1>4. CASE EmptyElement   BY <1>2, <1>4 DEF EmptyElement, GoesToEpilog
<1>5. CASE EndTag         BY <1>1, <1>2, <1>5 DEF EndTag, GoesToEpilog, Fails
<1>6. CASE Content        BY <1>2, <1>6 DEF Content, Reports
<1>7. CASE Misplaced      BY <1>1, <1>7 DEF Misplaced, Fails
<1>8. CASE CdataOpen      BY <1>2, <1>8 DEF CdataOpen
<1>9. CASE CdataData      BY <1>2, <1>9 DEF CdataData, Reports
<1>10. CASE CdataClose    BY <1>2, <1>10 DEF CdataClose
<1>11. CASE Reference
  <2>1. CASE Verdict = "entered"
    <3>1. This.rest # <<>>
      BY <1>11 DEF Reference, Is
    <3> DEFINE c == Call("ref", Token.name, Entity.text, TagLevel, "content")
    <3>2. calls' = Append([calls EXCEPT ![Len(calls)] = Past], c)
      BY <1>11, <2>1 DEF Reference
    <3>3. Past \in Calls
      BY <1>1, <3>1, TokenFacts
    <3>4. c \in Calls
      <4>1. Token \in Tokens /\ Token.kind = "ref"
        BY <1>1, <1>11, <3>1, TokenFacts DEF Reference, Is
      <4>2. Token.name \in DOMAIN Table
        BY <4>1 DEF Tokens
      <4>3. Entity.text \in Seq(Tokens)
        BY <4>2, ContentAssumption DEF Entity
      <4>4. TagLevel \in Nat
        BY <1>1, LevelFacts
      <4> QED  BY <4>2, <4>3, <4>4 DEF Call, Calls
    <3> HIDE DEF c
    <3> QED  BY <1>1, <3>2, <3>3, <3>4, AppendStays
  <2>2. CASE Verdict = "reported"
    BY <1>2, <1>11, <2>2 DEF Reference, Reports
  <2>3. CASE Verdict \notin {"reported", "entered"}
    BY <1>1, <1>11, <2>3 DEF Reference, Fails
  <2> QED  BY <2>1, <2>2, <2>3
<1>12. CASE ExternalFails BY <1>1, <1>12 DEF ExternalFails, Fails
<1>13. CASE Epilog        BY <1>1, <1>2, <1>13 DEF Epilog, Reports, Fails
<1>14. CASE Bom           BY <1>2, <1>14 DEF Bom
<1>15. CASE TextDecl      BY <1>2, <1>15 DEF TextDecl
<1>16. CASE Settles       BY <1>2, <1>16 DEF Settles
<1>17. CASE TextEnds      BY <1>1, <1>17 DEF TextEnds, Fails, Returns
<1> QED  BY <1>3, <1>4, <1>5, <1>6, <1>7, <1>8, <1>9, <1>10, <1>11, <1>12, <1>13,
            <1>14, <1>15, <1>16, <1>17 DEF Step

\* With no entity open, what is left is what is left of the buffer.
LEMMA NothingLeft ==
  ASSUME open' = <<>>, calls' = <<>>, pending' = <<>>
  PROVE  Left' = <<>>
<1>1. Len(open') = 0
  OBVIOUS
<1> QED  BY <1>1 DEF Left, FlattenSeq

\* The step that ends parsing well is at the end of a complete entity.
LEMMA FinishStep ==
  ASSUME IInv, ContentNext, UNCHANGED setup,
         status = "PARSING", status' = "FINISHED", calls' = <<>>
  PROVE  Reader!Complete'
<1>1. ProcessorReturns
  <2>1. ~Step
    BY StepStays
  <2> QED  BY <2>1 DEF ContentNext, XML_Parse, Resume, Abort, EntityReturns,
                       EntityResumed, Error
<1>2. Innermost /\ This.src = "buffer" /\ calls # <<>> /\ ret = "NONE" /\ final
  BY <1>1 DEF ProcessorReturns, Innermost
<1>3. /\ TypeOK /\ RootInv /\ Len(calls) = 1 /\ This = calls[1]
      /\ ~Unwinding /\ open = <<>> /\ processor \notin {"internal", "error"}
      /\ processor = "epilog" <=> This.mode = "epilog"
  BY <1>2, BufferFacts DEF Unwinding
<1>4. /\ This.rest = <<>>
      /\ \/ This.mode = "epilog"
         \/ This.mode = "content" /\ This.base # 0 /\ TagLevel = This.base
  BY <1>2 DEF IInv, DoneInv
<1>5. open' = <<>> /\ pending' = <<>> /\ processor' = processor
  BY <1>1, <1>3, <1>4 DEF ProcessorReturns
<1>6. Left' = <<>>
  BY <1>5, NothingLeft
<1>7. \/ processor = "epilog" /\ Document /\ tags = <<>>
      \/ processor = "external" /\ ~Document /\ tags = <<>>
  <2>1. CASE This.mode = "epilog"
    BY <1>2, <1>3, <2>1 DEF RootInv
  <2>2. CASE This.mode = "content" /\ This.base # 0 /\ TagLevel = This.base
    <3>1. This.base = IF Document \/ This.via = "cdata" THEN 0 ELSE 1
      BY <1>2, <1>3 DEF IInv, LevelInv
    <3>2. ~Document /\ This.via # "cdata" /\ TagLevel = 1
      BY <2>2, <3>1
    <3>3. tags = <<>>
      BY <1>3, <3>2, LevelFacts
    <3>4. processor = "external"
      BY <1>2, <1>3, <2>2, <3>2 DEF IInv, ProcessorInv
    <3> QED  BY <3>2, <3>3, <3>4
  <2> QED  BY <1>4, <2>1, <2>2
<1>8. tags' = <<>>
  <2>1. Len(tags') = Len(tags) /\ tags' \in Seq(Tags)
    BY <1>1, <1>3, TagsKept DEF SameTags
  <2> QED  BY <1>7, <2>1
<1>9. Document' = Document /\ ~Failed'
  BY <1>3, <1>5 DEF Document, Failed
<1>10. Place' = IF Document' THEN "epilog" ELSE "content"
  BY <1>5, <1>7, <1>9 DEF Place, Mode
<1>11. Elements' = <<>>
  BY <1>8 DEF Elements
<1> QED  BY <1>6, <1>9, <1>10, <1>11 DEF Reader!Complete

\* Such a parser ends well only at the end of the entity, with every element
\* and section closed and, in a document, the root element read.
THEOREM FinishesCompleteHolds == ContentSpec /\ []Shallow => FinishesComplete
<1>1. /\ IInv /\ [ContentNext /\ UNCHANGED setup]_<<setup, cvars>>
      => [status = "PARSING" /\ status' = "FINISHED" /\ calls' = <<>>
            => Reader!Complete']_cvars
  BY FinishStep DEF cvars
<1> QED  BY <1>1, ContentInvariant, PTL DEF ContentSpec, FinishesComplete

-----------------------------------------------------------------------------
(* Elements within entities *)

\* What a step does to the open entities and the tags: nothing, a start tag,
\* an end tag, a reference.
SameNesting == UNCHANGED <<open, tags>>

OpensElement ==
    /\ UNCHANGED open
    /\ \E t \in Tags : t.depth = Len(open) /\ tags' = <<t>> \o tags

ClosesElement ==
    /\ UNCHANGED open /\ This.base < TagLevel
    /\ tags # <<>> /\ tags' = Tail(tags)

EntersEntity ==
    /\ UNCHANGED tags
    /\ \E o \in OpenEntities : o.base = TagLevel /\ open' = Append(open, o)

\* A start tag opens an element.
LEMMA StartNesting ==
  ASSUME IInv, Running, StartTag
  PROVE  OpensElement
<1>1. TypeOK /\ calls # <<>> /\ This.rest # <<>>
  BY DEF IInv, Running, StartTag, Is
<1> DEFINE t == [name |-> Token.name, depth |-> Len(open),
                 raw |-> IF This.src = "buffer" THEN "buffer" ELSE "kept"]
<1>2. tags' = <<t>> \o tags /\ UNCHANGED open
  BY DEF StartTag
<1>3. t \in Tags /\ t.depth = Len(open)
  <2>1. Len(open) \in Nat /\ Token.name \in STRING
    BY <1>1, TokenFacts DEF TypeOK
  <2> QED  BY <2>1 DEF Tags
<1> QED  BY <1>2, <1>3 DEF OpensElement

\* An end tag closes one, or fails.
LEMMA EndNesting ==
  ASSUME IInv, Running, EndTag
  PROVE  SameNesting \/ ClosesElement
<1>1. TypeOK /\ StackInv /\ LevelInv /\ calls # <<>> /\ This.rest # <<>>
      /\ This.mode = "content" /\ Token.kind = "end"
  BY DEF IInv, Running, EndTag, Is
<1>2. ~(Document /\ tags = <<>>)
  BY <1>1, RootFacts
<1>3. CASE Fails("ASYNC_ENTITY") \/ Fails("TAG_MISMATCH")
  BY <1>3 DEF Fails, SameNesting
<1>4. CASE TagLevel # This.base /\ tags' = Tail(tags) /\ UNCHANGED open
  <2>1. TagLevel \in Nat /\ This.base \in Nat /\ This.base < TagLevel
    BY <1>1, <1>4, RunningFacts, LevelFacts, CallFacts DEF Calls
  <2>2. ~Document => This.base >= 1
    <3>1. Len(calls) \in Nat \ {0} /\ This \in Calls /\ This = calls[Len(calls)]
      BY <1>1, CallFacts DEF This
    <3>2. ~Document => This.via # "cdata"
      BY <1>1, RunningFacts
    <3> QED  BY <1>1, <3>1, <3>2, RunningFacts DEF LevelInv
  <2>3. tags # <<>>
    BY <1>1, <1>2, <2>1, <2>2, LevelFacts
  <2> QED  BY <1>4, <2>1, <2>3 DEF ClosesElement
<1> QED  BY <1>3, <1>4 DEF EndTag

\* A reference enters an entity, is told, or fails.
LEMMA ReferenceNesting ==
  ASSUME IInv, Running, Reference
  PROVE  SameNesting \/ EntersEntity
<1>1. TypeOK /\ calls # <<>> /\ This.rest # <<>> /\ Token.kind = "ref"
  BY DEF IInv, Running, Reference, Is
<1>2. CASE Verdict = "entered"
  <2> DEFINE o == [entity |-> Token.name, rest |-> <<>>, base |-> TagLevel]
  <2>1. open' = Append(open, o) /\ UNCHANGED tags
    BY <1>2 DEF Reference
  <2>2. o \in OpenEntities /\ o.base = TagLevel
    <3>1. Token \in Tokens
      BY <1>1, TokenFacts
    <3>2. Token.name \in DOMAIN Table
      BY <1>1, <3>1 DEF Tokens
    <3>3. TagLevel \in Nat
      BY <1>1, LevelFacts
    <3>4. <<>> \in Seq(Tokens)
      OBVIOUS
    <3> QED  BY <3>2, <3>3, <3>4 DEF OpenEntities
  <2> HIDE DEF o
  <2> QED  BY <2>1, <2>2 DEF EntersEntity
<1>3. CASE Verdict = "reported"
  BY <1>3 DEF Reference, Reports, SameNesting
<1>4. CASE Verdict \notin {"reported", "entered"}
  BY <1>4 DEF Reference, Fails, SameNesting
<1> QED  BY <1>2, <1>3, <1>4

\* No step of the loop does anything else to entities and tags.
LEMMA StepNesting ==
  ASSUME IInv, Step
  PROVE  SameNesting \/ OpensElement \/ ClosesElement \/ EntersEntity
<1>1. Running
  BY DEF Step
<1>2. CASE StartTag       BY <1>1, <1>2, StartNesting
<1>3. CASE EmptyElement   BY <1>3 DEF EmptyElement, SameNesting
<1>4. CASE EndTag         BY <1>1, <1>4, EndNesting
<1>5. CASE Content        BY <1>5 DEF Content, Reports, SameNesting
<1>6. CASE Misplaced      BY <1>6 DEF Misplaced, Fails, SameNesting
<1>7. CASE CdataOpen      BY <1>7 DEF CdataOpen, SameNesting
<1>8. CASE CdataData      BY <1>8 DEF CdataData, Reports, SameNesting
<1>9. CASE CdataClose     BY <1>9 DEF CdataClose, SameNesting
<1>10. CASE Reference     BY <1>1, <1>10, ReferenceNesting
<1>11. CASE ExternalFails BY <1>11 DEF ExternalFails, Fails, SameNesting
<1>12. CASE Epilog        BY <1>12 DEF Epilog, Reports, Fails, SameNesting
<1>13. CASE Bom           BY <1>13 DEF Bom, SameNesting
<1>14. CASE TextDecl      BY <1>14 DEF TextDecl, SameNesting
<1>15. CASE Settles       BY <1>15 DEF Settles, SameNesting
<1>16. CASE TextEnds      BY <1>16 DEF TextEnds, Fails, Returns, SameNesting
<1> QED  BY <1>2, <1>3, <1>4, <1>5, <1>6, <1>7, <1>8, <1>9, <1>10, <1>11, <1>12, <1>13,
            <1>14, <1>15, <1>16 DEF Step

\* The open entities began at levels below that of the innermost call.
LEMMA BaseFacts ==
  ASSUME IInv, calls # <<>>, Aligned
  PROVE  /\ Len(open) \in Nat /\ This.base \in Nat /\ TagLevel \in Nat
         /\ This.base <= TagLevel
         /\ \A k \in 1..Len(open) : open[k].base \in Nat /\ open[k].base <= This.base
         /\ Len(open) # 0 => open[Len(open)].base = This.base
<1>1. TypeOK /\ LevelInv
  BY DEF IInv
<1>2. Len(calls) \in Nat \ {0} /\ This = calls[Len(calls)] /\ This \in Calls
  BY <1>1, CallFacts DEF This
<1>3. Len(open) \in Nat /\ First \in 1..2 /\ Len(open) + First - 1 = Len(calls)
  BY <1>1, <1>2 DEF TypeOK, First, Aligned
<1>4. ASSUME NEW k \in 1..Len(open)
      PROVE  open[k].base \in Nat /\ open[k].base <= This.base
  <2>1. k + First - 1 \in 1..Len(calls) /\ k + First - 1 <= Len(calls)
    BY <1>2, <1>3
  <2>2. open[k].base = calls[k + First - 1].base
    BY <1>4 DEF Aligned
  <2>3. open[k].base <= This.base
    BY <1>1, <1>2, <2>1, <2>2 DEF LevelInv
  <2>4. open[k] \in OpenEntities
    BY <1>1, <1>4, ElementFacts DEF TypeOK
  <2> QED  BY <2>3, <2>4 DEF OpenEntities
<1>5. Len(open) # 0 => open[Len(open)].base = This.base
  BY <1>2, <1>3 DEF Aligned
<1> QED  BY <1>1, <1>2, <1>3, <1>4, <1>5, LevelFacts DEF LevelInv, Calls

\* The depth of a tag.
LEMMA TagFacts ==
  ASSUME TypeOK, NEW i \in DOMAIN tags
  PROVE  tags[i].depth \in Nat /\ i \in Nat \ {0} /\ i <= Len(tags) /\ tags # <<>>
         /\ DOMAIN tags = 1..Len(tags) /\ Len(tags) \in Nat
<1>1. tags \in Seq(Tags) /\ DOMAIN tags = 1..Len(tags) /\ Len(tags) \in Nat
  BY DEF TypeOK
<1>2. tags[i] \in Tags /\ tags # <<>>
  BY <1>1, ElementFacts
<1> QED  BY <1>1, <1>2 DEF Tags

\* An element that begins is within every open entity.
LEMMA OpensWithin ==
  ASSUME IInv, calls # <<>>, Aligned, TagsWithin, OpensElement, UNCHANGED setup
  PROVE  TagsWithin'
<1>1. PICK t \in Tags : t.depth = Len(open) /\ tags' = <<t>> \o tags
  BY DEF OpensElement
<1>2. open' = open /\ TypeOK /\ tags \in Seq(Tags) /\ Len(tags) \in Nat
  BY DEF OpensElement, IInv, TypeOK
<1>3. /\ DOMAIN tags' = 1..(Len(tags) + 1) /\ tags'[1] = t
      /\ \A i \in 2..(Len(tags) + 1) : tags'[i] = tags[i - 1]
      /\ Len(tags') = Len(tags) + 1
  BY <1>1, <1>2
<1>4. TagLevel' = TagLevel + 1 /\ TagLevel \in Nat
  BY <1>2, <1>3, LevelFacts DEF TagLevel, Document
<1>5. ASSUME NEW i \in DOMAIN tags'
      PROVE  /\ tags'[i].depth <= Len(open)
             /\ \A k \in 1..Len(open) :
                   tags'[i].depth >= k <=> TagLevel' - i + 1 > open[k].base
  <2>1. CASE i = 1
    BY <1>1, <1>3, <1>4, <2>1, BaseFacts
  <2>2. CASE i # 1
    <3>1. i - 1 \in DOMAIN tags /\ tags'[i] = tags[i - 1] /\ i \in Nat
      BY <1>2, <1>3, <1>5, <2>2
    <3>2. TagLevel' - i + 1 = TagLevel - (i - 1) + 1
      BY <1>4, <3>1
    <3> QED  BY <3>1, <3>2 DEF TagsWithin
  <2> QED  BY <2>1, <2>2
<1> QED  BY <1>2, <1>5 DEF TagsWithin

\* An end tag closes an element of its entity.
LEMMA ClosesWithin ==
  ASSUME IInv, calls # <<>>, Aligned, TagsWithin, ClosesElement, UNCHANGED setup
  PROVE  TagsWithin' /\ Head(tags).depth = Len(open)
<1>1. /\ open' = open /\ TypeOK /\ tags \in Seq(Tags) /\ Len(tags) \in Nat \ {0}
      /\ tags # <<>> /\ tags' = Tail(tags) /\ This.base < TagLevel
  BY DEF ClosesElement, IInv, TypeOK
<1>2. /\ DOMAIN tags' = 1..(Len(tags) - 1) /\ Head(tags) = tags[1]
      /\ \A i \in 1..(Len(tags) - 1) : tags'[i] = tags[i + 1]
      /\ Len(tags') = Len(tags) - 1 /\ 1 \in DOMAIN tags
  BY <1>1
<1>3. TagLevel' = TagLevel - 1 /\ TagLevel \in Nat
  BY <1>1, <1>2, LevelFacts DEF TagLevel, Document
<1>4. ASSUME NEW i \in DOMAIN tags'
      PROVE  /\ tags'[i].depth <= Len(open)
             /\ \A k \in 1..Len(open) :
                   tags'[i].depth >= k <=> TagLevel' - i + 1 > open[k].base
  <2>1. i + 1 \in DOMAIN tags /\ tags'[i] = tags[i + 1] /\ i \in Nat
    BY <1>1, <1>2, <1>4
  <2>2. TagLevel' - i + 1 = TagLevel - (i + 1) + 1
    BY <1>3, <2>1
  <2> QED  BY <2>1, <2>2 DEF TagsWithin
<1>5. Head(tags).depth = Len(open)
  <2>1. tags[1].depth \in Nat /\ tags[1].depth <= Len(open) /\ Len(open) \in Nat
    BY <1>1, <1>2, TagFacts, BaseFacts DEF TagsWithin
  <2>2. CASE Len(open) = 0
    BY <1>2, <2>1, <2>2
  <2>3. CASE Len(open) # 0
    <3>1. open[Len(open)].base = This.base /\ Len(open) \in 1..Len(open)
      BY <2>1, <2>3, BaseFacts
    <3>2. tags[1].depth >= Len(open) <=> TagLevel - 1 + 1 > open[Len(open)].base
      BY <1>2, <3>1 DEF TagsWithin
    <3>3. TagLevel - 1 + 1 > open[Len(open)].base
      BY <1>1, <1>3, <3>1, BaseFacts
    <3> QED  BY <1>2, <2>1, <3>2, <3>3
  <2> QED  BY <2>2, <2>3
<1> QED  BY <1>1, <1>4, <1>5 DEF TagsWithin

\* An entity that is entered has no element yet.
LEMMA EntersWithin ==
  ASSUME IInv, calls # <<>>, Aligned, TagsWithin, EntersEntity, UNCHANGED setup
  PROVE  TagsWithin'
<1>1. PICK o \in OpenEntities : o.base = TagLevel /\ open' = Append(open, o)
  BY DEF EntersEntity
<1>2. tags' = tags /\ TypeOK /\ open \in Seq(OpenEntities) /\ TagLevel \in Nat
  BY LevelFacts DEF EntersEntity, IInv, TypeOK
<1>3. /\ Len(open) \in Nat /\ Len(open') = Len(open) + 1
      /\ \A k \in 1..Len(open) : open'[k] = open[k]
      /\ open'[Len(open) + 1] = o
  BY <1>1, <1>2, AppendFacts
<1>4. TagLevel' = TagLevel
  BY <1>2 DEF TagLevel, Document
<1>5. ASSUME NEW i \in DOMAIN tags
      PROVE  /\ tags[i].depth <= Len(open')
             /\ \A k \in 1..Len(open') :
                   tags[i].depth >= k <=> TagLevel - i + 1 > open'[k].base
  <2>1. tags[i].depth \in Nat /\ i \in Nat \ {0} /\ tags[i].depth <= Len(open)
    BY <1>2, TagFacts DEF TagsWithin
  <2>2. tags[i].depth <= Len(open')
    BY <1>3, <2>1
  <2>3. ASSUME NEW k \in 1..Len(open')
        PROVE  tags[i].depth >= k <=> TagLevel - i + 1 > open'[k].base
    <3>1. CASE k = Len(open) + 1
      BY <1>1, <1>2, <1>3, <2>1, <3>1
    <3>2. CASE k # Len(open) + 1
      <4>1. k \in 1..Len(open) /\ open'[k] = open[k]
        BY <1>3, <2>3, <3>2
      <4> QED  BY <4>1 DEF TagsWithin
    <3> QED  BY <3>1, <3>2
  <2> QED  BY <2>2, <2>3
<1> QED  BY <1>2, <1>4, <1>5 DEF TagsWithin

\* An entity that ends leaves none of its elements open.
LEMMA LeavesWithin ==
  ASSUME IInv, calls # <<>>, Aligned, TagsWithin, UNCHANGED setup, Len(open) # 0,
         TagLevel = This.base, open' = SubSeq(open, 1, Len(open) - 1), tags' = tags
  PROVE  TagsWithin' /\ \A i \in DOMAIN tags : tags[i].depth <= Len(open')
<1>1. TypeOK /\ open \in Seq(OpenEntities) /\ TagLevel \in Nat
  BY LevelFacts DEF IInv, TypeOK
<1>2. Len(open) \in Nat \ {0} /\ open[Len(open)].base = TagLevel
  BY BaseFacts
<1>3. Len(open') = Len(open) - 1 /\ \A k \in 1..(Len(open) - 1) : open'[k] = open[k]
  <2>1. Len(open) - 1 \in 0..Len(open)
    BY <1>2
  <2> QED  BY <1>1, <2>1, FrontFacts
<1>4. TagLevel' = TagLevel
  BY DEF TagLevel, Document
<1>5. ASSUME NEW i \in DOMAIN tags
      PROVE  /\ tags[i].depth <= Len(open')
             /\ \A k \in 1..Len(open') :
                   tags[i].depth >= k <=> TagLevel - i + 1 > open'[k].base
  <2>1. tags[i].depth \in Nat /\ i \in Nat \ {0} /\ tags[i].depth <= Len(open)
    BY <1>1, TagFacts DEF TagsWithin
  <2>2. tags[i].depth >= Len(open) <=> TagLevel - i + 1 > TagLevel
    BY <1>2 DEF TagsWithin
  <2>3. tags[i].depth <= Len(open')
    BY <1>1, <1>2, <1>3, <2>1, <2>2
  <2>4. ASSUME NEW k \in 1..Len(open')
        PROVE  tags[i].depth >= k <=> TagLevel - i + 1 > open'[k].base
    <3>1. k \in 1..Len(open) /\ open'[k] = open[k]
      BY <1>2, <1>3
    <3> QED  BY <3>1 DEF TagsWithin
  <2> QED  BY <2>3, <2>4
<1> QED  BY <1>4, <1>5 DEF TagsWithin

\* Tags whose raw names are elsewhere are within the same entities.
LEMMA SameWithin ==
  ASSUME TypeOK, TagsWithin, UNCHANGED <<setup, open>>, SameTags(tags, tags')
  PROVE  TagsWithin'
<1>1. DOMAIN tags = 1..Len(tags) /\ DOMAIN tags' = 1..Len(tags) /\ Len(tags') = Len(tags)
  BY DEF TypeOK, SameTags
<1>2. \A i \in DOMAIN tags : tags'[i].depth = tags[i].depth
  BY <1>1 DEF SameTags
<1>3. TagLevel' = TagLevel
  BY <1>1 DEF TagLevel, Document
<1> QED  BY <1>1, <1>2, <1>3 DEF TagsWithin

\* What ElementsWithinEntities says of a step.
Within ==
    /\ Len(tags') < Len(tags) => Head(tags).depth = Len(open)
    /\ Len(open') < Len(open) => \A i \in DOMAIN tags : tags[i].depth <= Len(open')

\* A step that leaves the open entities and the tags.
LEMMA SameNestingKeeps ==
  ASSUME FlatInv, UNCHANGED <<setup, open, tags>>,
         calls' # <<>> \/ ~(processor' = "error" \/ status' = "FINISHED") =>
            calls # <<>> \/ ~(processor = "error" \/ status = "FINISHED")
  PROVE  DepthInv' /\ Within
<1>1. TypeOK
  BY DEF FlatInv, IInv
<1>2. Len(tags) \in Nat /\ Len(open) \in Nat /\ SameTags(tags, tags')
  BY <1>1 DEF TypeOK, SameTags
<1>3. TagsWithin => TagsWithin'
  BY <1>1, <1>2, SameWithin
<1>4. DepthInv'
  BY <1>3 DEF DepthInv, FlatInv
<1> QED  BY <1>2, <1>4 DEF Within

\* A step of the loop keeps elements within their entities.
LEMMA FlatStep ==
  ASSUME FlatInv, Flat, Step, UNCHANGED setup
  PROVE  processor' # "internal" /\ DepthInv' /\ Within
<1>1. IInv /\ Running /\ calls # <<>> /\ TypeOK /\ TagsWithin /\ processor # "internal"
  BY DEF FlatInv, IInv, DepthInv, Step, Running
<1>2. Aligned
  BY <1>1, RunningFacts
<1>3. Len(tags) \in Nat /\ Len(open) \in Nat
  BY <1>1 DEF TypeOK
<1>4. processor' # "internal"
  BY <1>1 DEF Step, StartTag, EmptyElement, GoesToEpilog, EndTag, Fails, Content, Reports,
              Misplaced, CdataOpen, CdataData, CdataClose, Reference, ExternalFails,
              Epilog, Bom, TextDecl, Settles, TextEnds, Returns
<1>5. CASE SameNesting
  <2>1. UNCHANGED <<setup, open, tags>>
    BY <1>5 DEF SameNesting
  <2> QED  BY <1>1, <1>4, <2>1, SameNestingKeeps
<1>6. CASE OpensElement
  <2>1. TagsWithin'
    BY <1>1, <1>2, <1>6, OpensWithin
  <2>2. Len(tags') = Len(tags) + 1 /\ open' = open
    <3>1. tags \in Seq(Tags)
      BY <1>1 DEF TypeOK
    <3> QED  BY <1>6, <3>1 DEF OpensElement
  <2> QED  BY <1>3, <1>4, <2>1, <2>2 DEF DepthInv, Within
<1>7. CASE ClosesElement
  <2>1. TagsWithin' /\ Head(tags).depth = Len(open)
    BY <1>1, <1>2, <1>7, ClosesWithin
  <2>2. open' = open
    BY <1>7 DEF ClosesElement
  <2> QED  BY <1>3, <1>4, <2>1, <2>2 DEF DepthInv, Within
<1>8. CASE EntersEntity
  <2>1. TagsWithin'
    BY <1>1, <1>2, <1>8, EntersWithin
  <2>2. Len(open') = Len(open) + 1 /\ tags' = tags
    <3>1. open \in Seq(OpenEntities)
      BY <1>1 DEF TypeOK
    <3> QED  BY <1>8, <3>1, AppendFacts DEF EntersEntity
  <2> QED  BY <1>3, <1>4, <2>1, <2>2 DEF DepthInv, Within
<1> QED  BY <1>1, <1>5, <1>6, <1>7, <1>8, StepNesting

\* So does the return from an entity.
LEMMA FlatEntityReturns ==
  ASSUME FlatInv, Flat, EntityReturns, UNCHANGED setup
  PROVE  processor' # "internal" /\ DepthInv' /\ Within
<1>1. /\ IInv /\ Innermost /\ calls # <<>> /\ TypeOK /\ StackInv /\ OpenInv /\ TagsWithin
      /\ processor # "internal" /\ This.via = "ref"
  BY DEF FlatInv, IInv, DepthInv, EntityReturns, Innermost
<1>2. This.src # "buffer"
  <2>1. This = calls[Len(calls)] /\ Len(calls) \in Nat \ {0}
    BY <1>1, CallFacts DEF This
  <2> QED  BY <1>1, <2>1 DEF StackInv
<1>3. Aligned /\ Len(open) \in Nat \ {0} /\ Depth = Len(open)
  BY <1>1, <1>2, DepthFacts
<1>4. status # "SUSPENDED"
  <2>1. Len(open) = 0 <=> open = <<>>
    BY <1>1 DEF TypeOK
  <2> QED  BY <1>3, <2>1 DEF Flat
<1>5. This.rest = <<>> /\ This.mode = "content" /\ TagLevel = This.base
  BY <1>1, <1>2, <1>4, EntityDone
<1>6. /\ open' = SubSeq(open, 1, Len(open) - 1) /\ tags' = tags
      /\ processor' = processor
  BY <1>3, <1>4, <1>5 DEF EntityReturns, Unfinished, Before
<1>7. TagsWithin' /\ \A i \in DOMAIN tags : tags[i].depth <= Len(open')
  BY <1>1, <1>3, <1>5, <1>6, LeavesWithin
<1>8. Len(tags) \in Nat
  BY <1>1 DEF TypeOK
<1> QED  BY <1>1, <1>6, <1>7, <1>8 DEF DepthInv, Within

\* So does a processor that returns.
LEMMA FlatProcessorReturns ==
  ASSUME FlatInv, ProcessorReturns, UNCHANGED setup
  PROVE  processor' # "internal" /\ DepthInv' /\ Within
<1>1. TypeOK /\ TagsWithin /\ processor # "internal"
  BY DEF FlatInv, IInv, DepthInv, ProcessorReturns, Innermost
<1>2. SameTags(tags, tags') /\ open' = open
  BY <1>1, TagsKept DEF ProcessorReturns
<1>3. TagsWithin'
  BY <1>1, <1>2, SameWithin
<1>4. Len(tags') = Len(tags) /\ Len(tags) \in Nat /\ Len(open) \in Nat
  BY <1>1, <1>2 DEF SameTags, TypeOK
<1>5. processor' # "internal"
  BY <1>1 DEF ProcessorReturns
<1> QED  BY <1>2, <1>3, <1>4, <1>5 DEF DepthInv, Within

\* So does every step of a parser that is not suspended in an entity.
LEMMA FlatNext ==
  ASSUME FlatInv, Flat, [ContentNext /\ UNCHANGED setup]_<<setup, cvars>>
  PROVE  FlatInv' /\ [Within]_cvars
<1>1. IInv /\ Shallow /\ TypeOK /\ processor # "internal"
  <2>1. IInv /\ TypeOK
    BY DEF FlatInv, IInv
  <2>2. Document \in BOOLEAN
    BY <2>1, LevelFacts
  <2>3. open = <<>> => Len(open) <= (IF Document THEN 1 ELSE 0)
    BY <2>2
  <2> QED  BY <2>1, <2>3 DEF FlatInv, Flat, Shallow
<1>2. IInv'
  BY <1>1, NextKeeps
<1>3. CASE UNCHANGED <<setup, cvars>>
  <2>1. UNCHANGED <<setup, open, tags, calls, processor, status>>
    BY <1>3 DEF cvars
  <2>2. DepthInv'
    BY <2>1, SameNestingKeeps
  <2> QED  BY <1>1, <1>2, <1>3, <2>1, <2>2 DEF FlatInv
<1>4. CASE ContentNext /\ UNCHANGED setup
  <2> SUFFICES processor' # "internal" /\ DepthInv' /\ Within
    BY <1>2 DEF FlatInv
  <2>1. ASSUME NEW chunk \in Pieces, NEW isFinal \in BOOLEAN,
               Offered(chunk, isFinal), XML_Parse(chunk, isFinal)
        PROVE  processor' # "internal" /\ DepthInv' /\ Within
    <3>1. /\ status = "PARSING" /\ processor # "error"
          /\ UNCHANGED <<setup, status, processor, open, tags>>
      BY <1>4, <2>1 DEF XML_Parse
    <3> QED  BY <1>1, <3>1, SameNestingKeeps
  <2>2. CASE Resume
    <3>1. /\ status = "SUSPENDED" /\ processor # "error" /\ processor' = processor
          /\ UNCHANGED <<setup, open, tags>>
      BY <1>1, <1>4, <2>2 DEF Resume
    <3> QED  BY <1>1, <3>1, SameNestingKeeps
  <2>3. CASE Abort
    <3>1. /\ status' = "FINISHED" /\ calls' = <<>>
          /\ UNCHANGED <<setup, processor, open, tags>>
      BY <1>4, <2>3 DEF Abort
    <3> QED  BY <1>1, <3>1, SameNestingKeeps
  <2>4. CASE Step
    BY <1>4, <2>4, FlatStep
  <2>5. CASE EntityReturns
    BY <1>4, <2>5, FlatEntityReturns
  <2>6. CASE EntityResumed
    BY <1>1, <2>6, ResumedFacts DEF EntityResumed
  <2>7. CASE ProcessorReturns
    BY <1>4, <2>7, FlatProcessorReturns
  <2>8. CASE Error
    <3>1. /\ calls # <<>> /\ processor' = "error"
          /\ UNCHANGED <<setup, open, tags>>
      BY <1>4, <2>8 DEF Error
    <3> QED  BY <3>1, SameNestingKeeps
  <2> QED  BY <1>4, <2>1, <2>2, <2>3, <2>4, <2>5, <2>6, <2>7, <2>8 DEF ContentNext
<1> QED  BY <1>3, <1>4

\* A new parser has no element.
LEMMA FlatInit ==
  ASSUME ContentInit
  PROVE  FlatInv
<1>1. IInv /\ tags = <<>> /\ processor # "internal"
  BY InitKeeps DEF ContentInit
<1> QED  BY <1>1 DEF FlatInv, DepthInv, TagsWithin

\* A parser that is never suspended in an internal entity ends an element in
\* the entity it began in: an end tag closes an element of the entity it stands
\* in, and an entity that ends leaves none of its elements open (startTagLevel).
THEOREM ElementsWithinEntitiesHold == ContentSpec /\ []Flat => ElementsWithinEntities
<1>1. ContentInit => FlatInv
  BY FlatInit
<1>2. FlatInv /\ Flat /\ [ContentNext /\ UNCHANGED setup]_<<setup, cvars>>
      => FlatInv' /\ [Within]_cvars
  BY FlatNext
<1>3. ContentSpec /\ []Flat => [][Within]_cvars
  BY <1>1, <1>2, PTL DEF ContentSpec
<1>4. [Within]_cvars
      => [(\A i \in DOMAIN open : ~Stranded(open[i])) =>
          /\ Len(tags') < Len(tags) => Head(tags).depth = Len(open)
          /\ Len(open') < Len(open) => \A i \in DOMAIN tags : tags[i].depth <= Len(open')
         ]_cvars
  BY DEF Within
<1> QED  BY <1>3, <1>4, PTL DEF ElementsWithinEntities

=============================================================================
