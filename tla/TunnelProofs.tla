---------------------------- MODULE TunnelProofs ----------------------------
(***************************************************************************)
(* Proofs that IInv is an invariant of Tunnel, for any number of chunks,   *)
(* drops and faults, and of the properties that follow from it.            *)
(***************************************************************************)
EXTENDS TunnelInv, SequenceTheorems, TLAPS

-----------------------------------------------------------------------------
(* Queues *)

\* The front of a queue and what is left of it.
LEMMA TailFacts ==
    ASSUME NEW q \in Seq(Message), q # <<>>
    PROVE  /\ Tail(q) \in Seq(Message)
           /\ Len(q) \in Nat /\ Len(q) >= 1
           /\ Len(Tail(q)) = Len(q) - 1
           /\ Head(q) = q[1] /\ Head(q) \in Message
           /\ \A i \in 1..Len(Tail(q)) : i + 1 \in 1..Len(q) /\ Tail(q)[i] = q[i + 1]
    OBVIOUS

\* A message joins the end of a queue.
LEMMA AppendFacts ==
    ASSUME NEW q \in Seq(Message), NEW m \in Message
    PROVE  /\ Append(q, m) \in Seq(Message)
           /\ Len(q) \in Nat
           /\ Len(Append(q, m)) = Len(q) + 1
           /\ \A i \in 1..Len(q) : Append(q, m)[i] = q[i]
           /\ Append(q, m)[Len(q) + 1] = m
    OBVIOUS

\* A queue loses its end.
LEMMA KeepFacts ==
    ASSUME NEW q \in Seq(Message), NEW k \in 0..Len(q)
    PROVE  /\ SubSeq(q, 1, k) \in Seq(Message)
           /\ Len(SubSeq(q, 1, k)) = k
           /\ \A i \in 1..k : i \in 1..Len(q) /\ SubSeq(q, 1, k)[i] = q[i]
    OBVIOUS

\* The hand holds at most one message.
LEMMA HandFacts ==
    ASSUME NEW q \in Seq(Message), Len(q) <= 1, q # <<>>
    PROVE  Head(q) \in Message /\ q = <<Head(q)>>
<1>1. /\ Len(q) \in Nat /\ Len(q) >= 1
      /\ Head(q) = q[1] /\ Head(q) \in Message
  BY TailFacts
<1>2. <<q[1]>> \in Seq(Message) /\ Len(<<q[1]>>) = 1 /\ <<q[1]>>[1] = q[1]
  BY <1>1
<1>3. Len(q) = 1
  <2>1. Len(q) \in Nat /\ Len(q) # 0
    BY EmptySeq
  <2>2. QED
    BY <2>1
<1>4. \A i \in 1..Len(q) : q[i] = <<q[1]>>[i]
  BY <1>2, <1>3
<1>5. q = <<q[1]>>
  BY <1>2, <1>3, <1>4, SeqEqual
<1>6. QED
  BY <1>1, <1>5

\* Messages are what their constructors make.
LEMMA MessageTypes ==
    ASSUME NEW n \in Nat, NEW c \in Nat
    PROVE  StartMsg(n) \in Message /\ EndMsg(n) \in Message /\ DataMsg(n, c) \in Message
    BY DEF StartMsg, EndMsg, DataMsg, Message

LEMMA PeerFacts ==
    ASSUME NEW e \in End
    PROVE  Peer(e) \in End /\ Peer(e) # e /\ Peer(Peer(e)) = e
    BY DEF End, Peer

-----------------------------------------------------------------------------
(* Sequence numbers rise along a path. *)

\* A sorted queue stays sorted when a later message joins it.
LEMMA AppendSorted ==
    ASSUME NEW q \in Seq(Message), NEW m \in Message, Sorted(q), AllBefore(q, m.seq)
    PROVE  Sorted(Append(q, m))
<1> DEFINE r == Append(q, m)
<1>1. /\ Len(q) \in Nat /\ Len(r) = Len(q) + 1 /\ r[Len(q) + 1] = m
      /\ \A i \in 1..Len(q) : r[i] = q[i]
  BY AppendFacts
<1> HIDE DEF r
<1>2. ASSUME NEW i \in 1..Len(r), NEW j \in 1..Len(r), i < j
      PROVE  Before(r[i].seq, r[j].seq)
  <2>1. i \in 1..Len(q) /\ r[i] = q[i]
    BY <1>1, <1>2
  <2>2. CASE j \in 1..Len(q)
    BY <1>1, <1>2, <2>1, <2>2 DEF Sorted
  <2>3. CASE j = Len(q) + 1
    BY <1>1, <2>1, <2>3 DEF AllBefore
  <2>4. QED
    BY <1>1, <2>2, <2>3
<1>3. QED
  BY <1>2 DEF Sorted, r

\* What is before every message of a queue is before one that joins it later.
LEMMA AppendAfter ==
    ASSUME NEW q \in Seq(Message), NEW m \in Message, NEW x, AllAfter(x, q),
           Before(x, m.seq)
    PROVE  AllAfter(x, Append(q, m))
<1> DEFINE r == Append(q, m)
<1>1. /\ Len(q) \in Nat /\ Len(r) = Len(q) + 1 /\ r[Len(q) + 1] = m
      /\ \A i \in 1..Len(q) : r[i] = q[i]
  BY AppendFacts
<1> HIDE DEF r
<1>2. ASSUME NEW i \in 1..Len(r) PROVE Before(x, r[i].seq)
  <2>1. CASE i \in 1..Len(q)
    BY <1>1, <2>1 DEF AllAfter
  <2>2. CASE i = Len(q) + 1
    BY <1>1, <2>2
  <2>3. QED
    BY <1>1, <2>1, <2>2
<1>3. QED
  BY <1>2 DEF AllAfter, r

\* Removing the front of a queue.
LEMMA TailSorted ==
    ASSUME NEW q \in Seq(Message), q # <<>>
    PROVE  /\ Sorted(q) => Sorted(Tail(q)) /\ AllAfter(Head(q).seq, Tail(q))
           /\ \A x : AllAfter(x, q) => AllAfter(x, Tail(q)) /\ Before(x, Head(q).seq)
<1> DEFINE r == Tail(q)
<1>1. /\ Len(q) \in Nat /\ 1 \in 1..Len(q) /\ Head(q) = q[1] /\ Len(r) \in Nat
      /\ \A i \in 1..Len(r) : i + 1 \in 1..Len(q) /\ r[i] = q[i + 1]
  BY TailFacts
<1> HIDE DEF r
<1>2. ASSUME Sorted(q) PROVE Sorted(r) /\ AllAfter(Head(q).seq, r)
  <2>1. ASSUME NEW i \in 1..Len(r), NEW j \in 1..Len(r), i < j
        PROVE  Before(r[i].seq, r[j].seq)
    BY <1>1, <1>2, <2>1 DEF Sorted
  <2>2. ASSUME NEW i \in 1..Len(r) PROVE Before(q[1].seq, r[i].seq)
    BY <1>1, <1>2, <2>2 DEF Sorted
  <2>3. QED
    BY <1>1, <2>1, <2>2 DEF Sorted, AllAfter
<1>3. ASSUME NEW x, AllAfter(x, q) PROVE AllAfter(x, r) /\ Before(x, Head(q).seq)
  BY <1>1, <1>3 DEF AllAfter
<1>4. QED
  BY <1>2, <1>3 DEF r

\* Keeping only the first messages of a queue.
LEMMA KeepSorted ==
    ASSUME NEW q \in Seq(Message), NEW k \in 0..Len(q)
    PROVE  /\ Sorted(q) => Sorted(SubSeq(q, 1, k))
           /\ \A x : AllAfter(x, q) => AllAfter(x, SubSeq(q, 1, k))
<1> DEFINE r == SubSeq(q, 1, k)
<1>1. Len(r) = k /\ \A i \in 1..k : i \in 1..Len(q) /\ r[i] = q[i]
  BY KeepFacts
<1> HIDE DEF r
<1>2. QED
  BY <1>1 DEF Sorted, AllAfter, r

\* Taking a packet off the stream keeps the order of the path.
LEMMA ArriveOrder ==
    ASSUME NEW h \in Seq(Message), NEW in \in Seq(Message),
           NEW ch \in Seq(Message), ch # <<>>, PathOrder(h, in, ch)
    PROVE  PathOrder(h, Append(in, Head(ch)), Tail(ch))
<1> DEFINE m == Head(ch)
           in2 == Append(in, m)
           ch2 == Tail(ch)
<1>1. m \in Message /\ Sorted(ch2) /\ AllAfter(m.seq, ch2)
  BY TailFacts, TailSorted DEF PathOrder
<1>2. AllBefore(in, m.seq) /\ AllBefore(h, m.seq)
  BY TailSorted DEF PathOrder, Crossed, AllBefore
<1>3. Sorted(in2)
  BY <1>1, <1>2, AppendSorted DEF PathOrder
<1>4. Crossed(h, in2)
  BY <1>1, <1>2, AppendAfter DEF PathOrder, Crossed, AllBefore
<1>5. Crossed(h, ch2) /\ Crossed(in, ch2)
  BY TailSorted DEF PathOrder, Crossed
<1>6. Crossed(in2, ch2)
  <2>1. /\ Len(in) \in Nat /\ Len(in2) = Len(in) + 1 /\ in2[Len(in) + 1] = m
        /\ \A i \in 1..Len(in) : in2[i] = in[i]
    BY <1>1, AppendFacts
  <2> HIDE DEF in2, ch2, m
  <2>2. ASSUME NEW i \in 1..Len(in2) PROVE AllAfter(in2[i].seq, ch2)
    <3>1. CASE i \in 1..Len(in)
      BY <1>5, <2>1, <3>1 DEF Crossed
    <3>2. CASE i = Len(in) + 1
      BY <1>1, <2>1, <3>2
    <3>3. QED
      BY <2>1, <3>1, <3>2
  <2>3. QED
    BY <2>2 DEF Crossed
<1>7. QED
  BY <1>1, <1>3, <1>4, <1>5, <1>6 DEF PathOrder

\* So does handing the front of the inbox to the callback thread.
LEMMA TakeOrder ==
    ASSUME NEW in \in Seq(Message), NEW ch \in Seq(Message), in # <<>>,
           PathOrder(<<>>, in, ch)
    PROVE  /\ PathOrder(<<>>, Tail(in), ch)
           /\ PathOrder(<<Head(in)>>, Tail(in), ch)
           /\ AllAfter(Head(in).seq, Tail(in)) /\ AllAfter(Head(in).seq, ch)
<1> DEFINE m == Head(in)
           in2 == Tail(in)
<1>1. Sorted(in2) /\ AllAfter(m.seq, in2)
  BY TailSorted DEF PathOrder
<1>2. m = in[1] /\ 1 \in 1..Len(in)
      /\ \A i \in 1..Len(in2) : i + 1 \in 1..Len(in) /\ in2[i] = in[i + 1]
  BY TailFacts
<1> HIDE DEF m, in2
<1>3. AllAfter(m.seq, ch) /\ Crossed(in2, ch)
  BY <1>2 DEF PathOrder, Crossed
<1>4. Crossed(<<m>>, in2) /\ Crossed(<<m>>, ch)
  BY <1>1, <1>3 DEF Crossed
<1>5. QED
  BY <1>1, <1>3, <1>4 DEF PathOrder, Crossed, m, in2

\* And losing messages from the front or the end of the channel.
LEMMA LoseOrder ==
    ASSUME NEW h \in Seq(Message), NEW in \in Seq(Message),
           NEW ch \in Seq(Message), PathOrder(h, in, ch)
    PROVE  /\ ch # <<>> => PathOrder(h, in, Tail(ch))
           /\ \A k \in 0..Len(ch) : PathOrder(h, in, SubSeq(ch, 1, k))
<1>1. ch # <<>> => PathOrder(h, in, Tail(ch))
  BY TailSorted DEF PathOrder, Crossed
<1>2. \A k \in 0..Len(ch) : PathOrder(h, in, SubSeq(ch, 1, k))
  BY KeepSorted DEF PathOrder, Crossed
<1>3. QED
  BY <1>1, <1>2

\* And sending one more message, when its number is past all the others.
LEMMA SendOrder ==
    ASSUME NEW h \in Seq(Message), NEW in \in Seq(Message),
           NEW ch \in Seq(Message), NEW m \in Message, PathOrder(h, in, ch),
           AllBefore(h, m.seq), AllBefore(in, m.seq), AllBefore(ch, m.seq)
    PROVE  PathOrder(h, in, Append(ch, m))
<1>1. Sorted(Append(ch, m))
  BY AppendSorted DEF PathOrder
<1>2. Crossed(h, Append(ch, m)) /\ Crossed(in, Append(ch, m))
  BY AppendAfter DEF PathOrder, Crossed, AllBefore
<1>3. QED
  BY <1>1, <1>2 DEF PathOrder

-----------------------------------------------------------------------------
(* What can happen to a path. *)

\* A queue of fitting messages, its front removed, its end cut off, or a
\* fitting message added.
LEMMA FitQueue ==
    ASSUME NEW q \in Seq(Message), NEW g, NEW top, NEW l, NEW floor,
           AllFit(g, top, l, floor, q)
    PROVE  /\ q # <<>> => /\ AllFit(g, top, l, floor, Tail(q))
                          /\ Fits(g, top, l, floor, Head(q))
           /\ \A k \in 0..Len(q) : AllFit(g, top, l, floor, SubSeq(q, 1, k))
           /\ \A m \in Message : Fits(g, top, l, floor, m)
                                 => AllFit(g, top, l, floor, Append(q, m))
<1>1. ASSUME q # <<>>
      PROVE  AllFit(g, top, l, floor, Tail(q)) /\ Fits(g, top, l, floor, Head(q))
  <2>1. /\ Head(q) = q[1] /\ 1 \in 1..Len(q)
        /\ \A i \in 1..Len(Tail(q)) : i + 1 \in 1..Len(q) /\ Tail(q)[i] = q[i + 1]
    BY <1>1, TailFacts
  <2>2. QED
    BY <2>1 DEF AllFit
<1>2. ASSUME NEW k \in 0..Len(q)
      PROVE  AllFit(g, top, l, floor, SubSeq(q, 1, k))
  BY KeepFacts DEF AllFit
<1>3. ASSUME NEW m \in Message, Fits(g, top, l, floor, m)
      PROVE  AllFit(g, top, l, floor, Append(q, m))
  <2> DEFINE r == Append(q, m)
  <2>1. /\ Len(q) \in Nat /\ Len(r) = Len(q) + 1 /\ r[Len(q) + 1] = m
        /\ \A i \in 1..Len(q) : r[i] = q[i]
    BY AppendFacts
  <2> HIDE DEF r
  <2>2. ASSUME NEW i \in 1..Len(r) PROVE Fits(g, top, l, floor, r[i])
    <3>1. CASE i \in 1..Len(q)
      BY <2>1, <3>1 DEF AllFit
    <3>2. CASE i = Len(q) + 1
      BY <1>3, <2>1, <3>2
    <3>3. QED
      BY <2>1, <3>1, <3>2
  <2>3. QED
    BY <2>2 DEF AllFit, r
<1>4. QED
  BY <1>1, <1>2, <1>3

\* A message goes from the channel to the inbox.
LEMMA PathArrive ==
    ASSUME NEW h \in Seq(Message), NEW in \in Seq(Message), NEW ch \in Seq(Message),
           NEW g, NEW top, NEW l, NEW floor, Path(h, in, ch, g, top, l, floor), ch # <<>>
    PROVE  Path(h, Append(in, Head(ch)), Tail(ch), g, top, l, floor)
<1>1. Head(ch) \in Message
  BY TailFacts
<1>2. PathOrder(h, Append(in, Head(ch)), Tail(ch))
  BY ArriveOrder DEF Path
<1>3. AllFit(g, top, l, floor, Tail(ch)) /\ AllFit(g, top, l, floor, Append(in, Head(ch)))
  BY <1>1, FitQueue DEF Path
<1>4. QED
  BY <1>2, <1>3 DEF Path

\* A message goes from the inbox to the callback thread's hand.
LEMMA PathTake ==
    ASSUME NEW in \in Seq(Message), NEW ch \in Seq(Message),
           NEW g, NEW top, NEW l, NEW floor, Path(<<>>, in, ch, g, top, l, floor), in # <<>>
    PROVE  Path(<<Head(in)>>, Tail(in), ch, g, top, l, floor)
<1>1. PathOrder(<<Head(in)>>, Tail(in), ch)
  BY TakeOrder DEF Path
<1>2. AllFit(g, top, l, floor, Tail(in)) /\ Fits(g, top, l, floor, Head(in))
  BY FitQueue DEF Path
<1>3. AllFit(g, top, l, floor, <<Head(in)>>)
  BY <1>2 DEF AllFit
<1>4. QED
  BY <1>1, <1>2, <1>3 DEF Path

\* The message at hand is dropped.
LEMMA PathDrop ==
    ASSUME NEW m, NEW in \in Seq(Message), NEW ch \in Seq(Message),
           NEW g, NEW top, NEW l, NEW floor, Path(<<m>>, in, ch, g, top, l, floor)
    PROVE  Path(<<>>, in, ch, g, top, l, floor)
BY DEF Path, PathOrder, Crossed, AllFit

\* Messages are lost on the way.
LEMMA PathLose ==
    ASSUME NEW h \in Seq(Message), NEW in \in Seq(Message), NEW ch \in Seq(Message),
           NEW g, NEW top, NEW l, NEW floor, Path(h, in, ch, g, top, l, floor)
    PROVE  /\ ch # <<>> => Path(h, in, Tail(ch), g, top, l, floor)
           /\ \A k \in 0..Len(ch) : Path(h, in, SubSeq(ch, 1, k), g, top, l, floor)
<1>1. ch # <<>> => Path(h, in, Tail(ch), g, top, l, floor)
  BY LoseOrder, FitQueue DEF Path
<1>2. \A k \in 0..Len(ch) : Path(h, in, SubSeq(ch, 1, k), g, top, l, floor)
  BY LoseOrder, FitQueue DEF Path
<1>3. QED
  BY <1>1, <1>2

\* The sender reads on, or its receiver's gap closes with its socket.
LEMMA PathMono ==
    ASSUME NEW h \in Seq(Message), NEW in \in Seq(Message), NEW ch \in Seq(Message),
           NEW g \in Nat, NEW top \in Nat, NEW l, NEW floor \in Int,
           Path(h, in, ch, g, top, l, floor),
           NEW g2 \in Nat, NEW top2 \in Nat, NEW floor2 \in Int,
           g <= g2, top <= top2, top <= g + 1, top = g + 1 => g2 = g,
           floor2 <= floor
    PROVE  Path(h, in, ch, g2, top2, l, floor2)
<1>1. \A m \in Message : Fits(g, top, l, floor, m) => Fits(g2, top2, l, floor2, m)
  BY DEF Fits, Message
<1>2. ASSUME NEW q \in Seq(Message), AllFit(g, top, l, floor, q)
      PROVE  AllFit(g2, top2, l, floor2, q)
  BY <1>1, <1>2 DEF AllFit
<1>3. QED
  BY <1>2 DEF Path

\* A message is sent whose number is past all that was sent before.
LEMMA PathSend ==
    ASSUME NEW h \in Seq(Message), NEW in \in Seq(Message), NEW ch \in Seq(Message),
           NEW g, NEW top, NEW l, NEW floor, Path(h, in, ch, g, top, l, floor),
           NEW m \in Message, Fits(g, top, l, floor, m),
           AllBefore(h, m.seq), AllBefore(in, m.seq), AllBefore(ch, m.seq)
    PROVE  Path(h, in, Append(ch, m), g, top, l, floor)
<1>1. PathOrder(h, in, Append(ch, m))
  BY SendOrder DEF Path
<1>2. AllFit(g, top, l, floor, Append(ch, m))
  BY FitQueue DEF Path
<1>3. QED
  BY <1>1, <1>2 DEF Path

\* The receiver's check of the message at hand: the rest of the path is new
\* to it, and past the number it waits for if the message was refused.
Waits(l, m) == IF Accepts(l, m.seq) THEN NoSequence ELSE l + 1

LEMMA PathCheck ==
    ASSUME NEW m \in Message, NEW in \in Seq(Message), NEW ch \in Seq(Message),
           NEW g \in Nat, NEW top \in Nat, NEW l \in Nat \cup {NoSequence},
           NEW floor \in Int,
           Path(<<m>>, in, ch, g, top, l, floor)
    PROVE  /\ Path(<<>>, in, ch, g, top, CheckSequence(l, m.seq), Waits(l, m))
           /\ Fits(g, top, l, floor, m)
           /\ ~Accepts(l, m.seq) => l >= 0 /\ l + 1 < top
<1> DEFINE l2 == CheckSequence(l, m.seq)
           floor2 == Waits(l, m)
<1>1. /\ Fits(g, top, l, floor, m)
      /\ AllAfter(m.seq, in) /\ AllAfter(m.seq, ch)
      /\ AllFit(g, top, l, floor, in) /\ AllFit(g, top, l, floor, ch)
      /\ PathOrder(<<>>, in, ch)
  BY DEF Path, PathOrder, Crossed, AllFit
<1>2. ASSUME NEW x \in Message, Fits(g, top, l, floor, x), Before(m.seq, x.seq)
      PROVE  Fits(g, top, l2, floor2, x)
  <2>1. m.seq \in Nat /\ x.seq \in Nat
    BY DEF Message
  <2>2. Before(l, m.seq)
    BY <1>1 DEF Fits
  <2>3. Before(l2, x.seq)
    BY <1>2, <2>1, <2>2 DEF Before, CheckSequence, NoSequence
  <2>4. floor2 < x.seq
    BY <1>2, <2>1, <2>2 DEF Before, Accepts, Waits, NoSequence
  <2>5. QED
    BY <1>2, <2>3, <2>4 DEF Fits
<1>3. ASSUME NEW q \in Seq(Message), AllFit(g, top, l, floor, q), AllAfter(m.seq, q)
      PROVE  AllFit(g, top, l2, floor2, q)
  BY <1>2, <1>3 DEF AllFit, AllAfter
<1>4. AllFit(g, top, l2, floor2, <<>>)
  BY DEF AllFit
<1>5. Path(<<>>, in, ch, g, top, l2, floor2)
  BY <1>1, <1>3, <1>4 DEF Path
<1>6. ~Accepts(l, m.seq) => l >= 0 /\ l + 1 < top
  <2>1. m.seq \in Nat /\ Before(l, m.seq) /\ m.seq <= top
    BY <1>1 DEF Fits, Message
  <2>2. QED
    BY <2>1 DEF Before, Accepts, NoSequence
<1>7. QED
  BY <1>1, <1>5, <1>6

-----------------------------------------------------------------------------
(* Type correctness *)

\* What a step that processes a message does to the types.
LEMMA DeliverType ==
    ASSUME TypeOK, NEW e \in End, NEW m \in Message, DeliverToChat(e, m)
    PROVE  /\ last' \in [End -> Nat \cup {NoSequence}]
           /\ written' \in [End -> Seq(Nat)]
           /\ outShut' \in [End -> BOOLEAN]
           /\ stop' \in [End -> BOOLEAN]
           /\ app' \in [End -> {"open", "closed", "reset"}]
           /\ lost' \in [End -> BOOLEAN]
<1>1. m.seq \in Nat /\ m.chunk \in Nat
  BY DEF Message
<1>2. CASE Registered(e)
  <2>1. ProcessMessage(e, m) /\ lost' = lost
    BY <1>2 DEF DeliverToChat
  <2>2. last' \in [End -> Nat \cup {NoSequence}]
    BY <1>1, <2>1 DEF ProcessMessage, CheckSequence, TypeOK
  <2>3. /\ written' \in [End -> Seq(Nat)]
        /\ outShut' \in [End -> BOOLEAN]
        /\ stop' \in [End -> BOOLEAN]
        /\ app' \in [End -> {"open", "closed", "reset"}]
    <3>1. CASE WriteChunk(e, m)
      BY <1>1, <3>1 DEF WriteChunk, TypeOK
    <3>2. CASE ShutdownOutput(e)
      BY <3>2 DEF ShutdownOutput, TypeOK
    <3>3. CASE StopOnly(e)
      BY <3>3 DEF StopOnly, TypeOK
    <3>4. CASE UNCHANGED <<written, outShut, app, stop>>
      BY <3>4 DEF TypeOK
    <3>5. QED
      BY <2>1, <3>1, <3>2, <3>3, <3>4 DEF ProcessMessage
  <2>4. QED
    BY <2>1, <2>2, <2>3 DEF TypeOK
<1>3. CASE ~Registered(e)
  BY <1>3 DEF DeliverToChat, TypeOK
<1>4. QED
  BY <1>2, <1>3

LEMMA TypeStep == TypeOK /\ [Next]_vars => TypeOK'
<1> SUFFICES ASSUME TypeOK, [Next]_vars PROVE TypeOK'
  OBVIOUS
<1> USE PeerFacts
<1>1. ASSUME NEW e \in End, App(e) PROVE TypeOK'
  BY ZenonT(40), <1>1 DEF TypeOK, App, AppClose, AppReset, pumpVars, xmppVars
<1>2. ASSUME NEW e \in End, Pump(e) PROVE TypeOK'
  <2> USE DEF TypeOK, Sends, tcpVars, pumpVars, xmppVars
  <2>1. CASE SendStart(e)
    BY <2>1, MessageTypes DEF SendStart
  <2>2. CASE ReadChunk(e)
    BY SMTT(30), <2>2, MessageTypes DEF ReadChunk
  <2>3. CASE ReadEof(e)
    BY SMTT(30), <2>3, MessageTypes DEF ReadEof
  <2>4. CASE ReadFails(e)
    BY <2>4 DEF ReadFails
  <2>5. QED
    BY <1>2, <2>1, <2>2, <2>3, <2>4 DEF Pump
<1>3. ASSUME NEW e \in End, T2(e) PROVE TypeOK'
  <2>1. CASE Register(e)
    BY <2>1 DEF TypeOK, Register, tcpVars, xmppVars
  <2>2. CASE PollStop(e)
    BY <2>2 DEF TypeOK, PollStop, tcpVars, xmppVars
  <2>3. QED
    BY <1>3, <2>1, <2>2 DEF T2
<1>4. ASSUME NEW e \in End, Arrive(e) PROVE TypeOK'
  <2>1. /\ Head(chan[Peer(e)]) \in Message
        /\ Tail(chan[Peer(e)]) \in Seq(Message)
    BY <1>4, TailFacts DEF Arrive, TypeOK
  <2>2. Append(inbox[e], Head(chan[Peer(e)])) \in Seq(Message)
    BY <2>1, AppendFacts DEF TypeOK
  <2>3. QED
    BY <1>4, <2>1, <2>2 DEF TypeOK, Arrive, tcpVars, pumpVars
<1>5. ASSUME NEW e \in End, Lose(e) PROVE TypeOK'
  <2>1. Tail(chan[e]) \in Seq(Message)
    BY <1>5, TailFacts DEF Lose, TypeOK
  <2>2. QED
    BY <1>5, <2>1 DEF TypeOK, Lose, tcpVars, pumpVars
<1>6. CASE ClientReceives
  <2>1. Head(inbox["client"]) \in Message /\ Tail(inbox["client"]) \in Seq(Message)
    BY <1>6, TailFacts DEF ClientReceives, TypeOK, End
  <2>2. QED
    BY <1>6, <2>1, DeliverType DEF ClientReceives, TypeOK, End
<1>7. CASE Dispatch
  <2>1. ASSUME Take
        PROVE  cur' \in Seq(Message) /\ Len(cur') <= 1 /\ inbox' \in [End -> Seq(Message)]
    BY <2>1, TailFacts DEF Take, TypeOK, End
  <2>2. CASE DispatchKnown
    BY <2>1, <2>2 DEF TypeOK, DispatchKnown, tcpVars, pumpVars
  <2>3. CASE DispatchNew
    BY <2>1, <2>3 DEF TypeOK, DispatchNew, tcpVars
  <2>4. CASE DispatchRefuse
    <3>1. Append(chan["server"], EndMsg(0)) \in Seq(Message)
      BY MessageTypes, AppendFacts DEF TypeOK, End
    <3>2. chan' \in [End -> Seq(Message)] /\ session' \in {"ok", "failed", "gone"}
      BY <2>4, <3>1 DEF TypeOK, DispatchRefuse, ChargeError
    <3>3. Take /\ refused' = TRUE /\ UNCHANGED <<tcpVars, pumpVars, up, drops, lost>>
      BY <2>4 DEF DispatchRefuse
    <3>4. QED
      BY <2>1, <3>2, <3>3 DEF TypeOK, tcpVars, pumpVars
  <2>5. CASE DispatchFails
    BY <2>1, <2>5 DEF TypeOK, DispatchFails, ChargeError, tcpVars, pumpVars
  <2>6. QED
    BY <1>7, <2>2, <2>3, <2>4, <2>5 DEF Dispatch
<1>8. CASE ServerDelivers
  <2>1. Head(cur) \in Message
    BY <1>8, TailFacts DEF ServerDelivers, TypeOK
  <2>2. QED
    BY <1>8, <2>1, DeliverType DEF ServerDelivers, TypeOK, End
<1>9. CASE ServerSkips \/ CollectRefused \/ ClientReconnects
  <2>1. <<>> \in Seq(Message) /\ Len(<<>>) <= 1
    OBVIOUS
  <2>2. CASE ServerSkips
    BY <2>1, <2>2 DEF TypeOK, ServerSkips, tcpVars, pumpVars
  <2>3. CASE CollectRefused
    BY <2>3 DEF TypeOK, CollectRefused, tcpVars, pumpVars
  <2>4. CASE ClientReconnects
    BY <2>4 DEF TypeOK, ClientReconnects, tcpVars, pumpVars
  <2>5. QED
    BY <1>9, <2>2, <2>3, <2>4
<1>10. ASSUME NEW e \in End, NEW k \in 0..Len(chan[e]), KeepSent(e, k)
       PROVE  /\ chan' \in [End -> Seq(Message)]
              /\ lost' \in [End -> BOOLEAN]
              /\ up' \in [End -> BOOLEAN]
  BY <1>10, KeepFacts DEF TypeOK, KeepSent
<1>11. CASE CloseClientTunnel
  BY <1>10, <1>11 DEF TypeOK, CloseClientTunnel, tcpVars, End
<1>12. CASE CloseServerTunnel
  BY <1>12 DEF TypeOK, CloseServerTunnel, tcpVars, xmppVars, End
<1>13. CASE ClientDrops
  BY <1>10, <1>13 DEF TypeOK, ClientDrops, tcpVars, pumpVars, End
<1>14. CASE ServerDrops
  BY <1>10, <1>14 DEF TypeOK, ServerDrops, ChargeError, tcpVars, pumpVars, End
<1>15. CASE ServerGivesUp
  BY <1>10, <1>15 DEF TypeOK, ServerGivesUp, tcpVars, pumpVars, End
<1>16. CASE UNCHANGED vars
  BY <1>16 DEF TypeOK, vars
<1>17. QED
  BY <1>1, <1>2, <1>3, <1>4, <1>5, <1>6, <1>7, <1>8, <1>9, <1>11, <1>12,
     <1>13, <1>14, <1>15, <1>16 DEF Next

LEMMA InitType == Init => TypeOK
<1>1. <<>> \in Seq(Message) /\ <<>> \in Seq(Nat) /\ Len(<<>>) = 0
  OBVIOUS
<1> SUFFICES ASSUME Init PROVE TypeOK
  OBVIOUS
<1>2. /\ chan \in [End -> Seq(Message)] /\ inbox \in [End -> Seq(Message)]
      /\ cur \in Seq(Message) /\ Len(cur) <= 1
      /\ written \in [End -> Seq(Nat)]
  BY <1>1 DEF Init
<1>3. /\ last \in [End -> Nat \cup {NoSequence}]
      /\ got \in [End -> Nat] /\ sequence \in [End -> Nat] /\ drops \in Nat
  BY DEF Init
<1>4. /\ t1 \in [End -> {"none", "start", "read", "done", "failed"}]
      /\ t2 \in [End -> {"none", "starting", "polling", "done"}]
      /\ tun \in [End -> {"absent", "running", "closed"}]
  BY DEF Init
<1>5. QED
  BY <1>2, <1>3, <1>4 DEF Init, TypeOK

\* Every variable of the tunnel keeps its type, whatever the bounds and faults.
THEOREM TypeCorrect == Spec => []TypeOK
  BY InitType, TypeStep, PTL DEF Spec

-----------------------------------------------------------------------------
(* Steps that give receiver x nothing to process. *)

Quiet(x) ==
    /\ written'[x] = written[x] /\ last'[x] = last[x] /\ outShut'[x] = outShut[x]
    /\ got[Peer(x)] <= got'[Peer(x)]
    /\ t1[Peer(x)] = "done" => t1'[Peer(x)] = "done" /\ got'[Peer(x)] = got[Peer(x)]
    /\ stop'[x] => stop[x]
    /\ Gap(x)' => Gap(x)
    /\ Writable(x)' => Writable(x) \/ ~Registered(x)
    /\ Registered(x) => Registered(x)'

\* The types of what a path is measured against.
LEMMA PathTypes ==
    ASSUME TypeOK, NEW x \in End
    PROVE  /\ got[Peer(x)] \in Nat /\ Top(Peer(x)) \in Nat
           /\ Top(Peer(x)) <= got[Peer(x)] + 1
           /\ Top(Peer(x)) = got[Peer(x)] + 1 <=> t1[Peer(x)] = "done"
           /\ last[x] \in Nat \cup {NoSequence} /\ last[x] \in Int
           /\ Floor(x) \in Int
           /\ written[x] \in Seq(Nat)
           /\ Hand(x) \in Seq(Message) /\ inbox[x] \in Seq(Message)
           /\ chan[Peer(x)] \in Seq(Message)
<1>1. /\ got[Peer(x)] \in Nat
      /\ last[x] \in Nat \cup {NoSequence} /\ last[x] \in Int
      /\ written[x] \in Seq(Nat)
      /\ Hand(x) \in Seq(Message) /\ inbox[x] \in Seq(Message)
      /\ chan[Peer(x)] \in Seq(Message)
  BY PeerFacts DEF TypeOK, Hand, NoSequence
<1>2. QED
  BY <1>1 DEF Top, Floor, NoSequence

\* What a quiet step does to the measures.
LEMMA QuietMeasures ==
    ASSUME TypeOK, TypeOK', NEW x \in End, Quiet(x)
    PROVE  /\ got[Peer(x)] \in Nat /\ got'[Peer(x)] \in Nat
           /\ Top(Peer(x)) \in Nat /\ Top(Peer(x))' \in Nat
           /\ Top(Peer(x)) <= got[Peer(x)] + 1
           /\ Top(Peer(x)) = got[Peer(x)] + 1 => got'[Peer(x)] = got[Peer(x)]
           /\ Top(Peer(x)) <= Top(Peer(x))'
           /\ Floor(x) \in Int /\ Floor(x)' \in Int
<1>1. got[Peer(x)] \in Nat /\ got'[Peer(x)] \in Nat
  BY PeerFacts DEF TypeOK
<1>2. /\ Top(Peer(x)) \in Nat /\ Top(Peer(x)) <= got[Peer(x)] + 1
      /\ Top(Peer(x)) = got[Peer(x)] + 1 <=> t1[Peer(x)] = "done"
      /\ Floor(x) \in Int
  BY PathTypes
<1>3. Top(Peer(x))' \in Nat /\ Top(Peer(x)) <= Top(Peer(x))'
  BY <1>1 DEF Quiet, Top
<1>4. Floor(x)' \in Int
  <2>1. last'[x] \in Int
    BY DEF TypeOK, NoSequence
  <2>2. QED
    BY <2>1 DEF Floor, NoSequence
<1>5. QED
  BY <1>1, <1>2, <1>3, <1>4 DEF Quiet

\* Nothing that ReceiverInv says of x is disturbed.
LEMMA QuietReceiver ==
    ASSUME IInv, TypeOK', NEW x \in End, Quiet(x)
    PROVE  ReceiverInv(x)'
<1>1. /\ TypeOK /\ ReceiverInv(x)
      /\ last[x] \in Nat \cup {NoSequence} /\ last[x] \in Int
  BY PathTypes DEF IInv
<1>2. /\ Top(Peer(x)) \in Nat /\ Top(Peer(x))' \in Nat
      /\ Top(Peer(x)) <= Top(Peer(x))'
      /\ got[Peer(x)] \in Nat /\ got'[Peer(x)] \in Nat
  BY <1>1, QuietMeasures
<1>3. /\ written'[x] = written[x] /\ last'[x] = last[x]
      /\ outShut'[x] = outShut[x]
      /\ Gap(x)' => Gap(x)
  BY DEF Quiet
<1>4. last'[x] <= Top(Peer(x))'
  BY <1>1, <1>2, <1>3 DEF ReceiverInv
<1>5. stop'[x] \/ last'[x] # NoSequence => Registered(x)'
  BY <1>1 DEF ReceiverInv, Quiet
<1>6. Gap(x)' => last'[x] >= 0 /\ last'[x] + 1 < Top(Peer(x))'
  <2>1. Gap(x) => last[x] >= 0 /\ last[x] + 1 < Top(Peer(x))
    BY <1>1 DEF ReceiverInv
  <2>2. QED
    BY <1>1, <1>2, <1>3, <2>1
<1>7. ASSUME written[x] # <<>>
      PROVE  /\ Latest(written[x]) \in Nat
             /\ Latest(written[x]) <= got'[Peer(x)]
             /\ Writable(x)' => Latest(written[x]) = last[x]
             /\ outShut[x] => /\ t1'[Peer(x)] = "done"
                              /\ Latest(written[x]) = got'[Peer(x)]
  <2>1. written[x] \in Seq(Nat) /\ Len(written[x]) \in Nat /\ Len(written[x]) >= 1
    BY <1>1, <1>7, PathTypes
  <2>2. Latest(written[x]) \in Nat
    BY <2>1 DEF Latest
  <2>3. Registered(x)
    BY <1>1, <1>7, <2>2 DEF ReceiverInv, NoSequence
  <2>4. QED
    BY <1>1, <1>2, <1>7, <2>2, <2>3 DEF ReceiverInv, Quiet
<1>8. Run(written[x]) /\ (written[x] # <<>> => /\ 1 <= Latest(written[x])
                                               /\ Latest(written[x]) <= last[x])
  BY <1>1 DEF ReceiverInv
<1>9. QED
  BY <1>3, <1>4, <1>5, <1>6, <1>7, <1>8 DEF ReceiverInv

\* A path that is in order stays so, its sender and receiver having moved on.
LEMMA QuietPath ==
    ASSUME IInv, TypeOK', NEW x \in End, Quiet(x), NEW h \in Seq(Message),
           NEW in \in Seq(Message), NEW ch \in Seq(Message),
           Path(h, in, ch, got[Peer(x)], Top(Peer(x)), last[x], Floor(x))
    PROVE  Path(h, in, ch, got'[Peer(x)], Top(Peer(x))', last'[x], Floor(x)')
<1>1. /\ got[Peer(x)] \in Nat /\ got'[Peer(x)] \in Nat
      /\ Top(Peer(x)) \in Nat /\ Top(Peer(x))' \in Nat
      /\ Top(Peer(x)) <= got[Peer(x)] + 1
      /\ Top(Peer(x)) = got[Peer(x)] + 1 => got'[Peer(x)] = got[Peer(x)]
      /\ Top(Peer(x)) <= Top(Peer(x))'
      /\ Floor(x) \in Int /\ Floor(x)' \in Int
  BY QuietMeasures DEF IInv
<1>2. got[Peer(x)] <= got'[Peer(x)] /\ last'[x] = last[x]
  BY DEF Quiet
<1>3. CASE Floor(x)' <= Floor(x)
  <2>1. Path(h, in, ch, got'[Peer(x)], Top(Peer(x))', last[x], Floor(x)')
    BY <1>1, <1>2, <1>3, PathMono
  <2>2. QED
    BY <1>2, <2>1
<1>4. Floor(x)' <= Floor(x)
  <2>1. Gap(x)' => Gap(x)
    BY DEF Quiet
  <2>2. Gap(x) => last[x] >= 0
    BY DEF IInv, ReceiverInv
  <2>3. QED
    BY <1>1, <1>2, <2>1, <2>2, PathTypes DEF Floor, NoSequence, IInv
<1>5. QED
  BY <1>3, <1>4

\* A quiet step that moves messages along the path of x.
LEMMA MovingStep ==
    ASSUME IInv, TypeOK', NEW x \in End, Quiet(x),
           Path(Hand(x)', inbox'[x], chan'[Peer(x)],
                got[Peer(x)], Top(Peer(x)), last[x], Floor(x))
    PROVE  PathInv(x)' /\ ReceiverInv(x)'
<1>1. ReceiverInv(x)'
  BY QuietReceiver
<1>2. /\ Hand(x)' \in Seq(Message) /\ inbox'[x] \in Seq(Message)
      /\ chan'[Peer(x)] \in Seq(Message)
  BY PeerFacts DEF TypeOK, Hand
<1>3. Path(Hand(x)', inbox'[x], chan'[Peer(x)],
           got'[Peer(x)], Top(Peer(x))', last'[x], Floor(x)')
  BY <1>2, QuietPath
<1>4. QED
  BY <1>1, <1>3 DEF PathInv

\* A quiet step that moves no message.
LEMMA StillStep ==
    ASSUME IInv, TypeOK', NEW x \in End, Quiet(x), UNCHANGED <<chan, inbox, cur>>
    PROVE  PathInv(x)' /\ ReceiverInv(x)'
<1>1. Path(Hand(x), inbox[x], chan[Peer(x)],
           got[Peer(x)], Top(Peer(x)), last[x], Floor(x))
  BY DEF IInv, PathInv
<1>2. Hand(x)' = Hand(x) /\ inbox'[x] = inbox[x] /\ chan'[Peer(x)] = chan[Peer(x)]
  BY DEF Hand
<1>3. QED
  BY <1>1, <1>2, MovingStep

-----------------------------------------------------------------------------
(* The step that processes a message. *)

\* A pump that waits for a message it has missed refuses all the others.
LEMMA GapRefuses ==
    ASSUME IInv, NEW e \in End, NEW m \in Message, NEW g, NEW top,
           Fits(g, top, last[e], Floor(e), m), Gap(e)
    PROVE  ~Accepts(last[e], m.seq)
<1>1. last[e] \in Int /\ last[e] >= 0 /\ m.seq \in Nat
  BY PathTypes DEF IInv, ReceiverInv, Message
<1>2. last[e] + 1 < m.seq
  BY <1>1 DEF Fits, Floor
<1>3. QED
  BY <1>1, <1>2 DEF Accepts, NoSequence

\* processMessage writes the next chunk, shuts the socket at the end of the
\* stream, or stops the pump; the rest of the path is new to the receiver.
LEMMA ProcessStep ==
    ASSUME IInv, TypeOK', NEW e \in End, NEW m \in Message,
           NEW in \in Seq(Message), NEW ch \in Seq(Message),
           Path(<<m>>, in, ch, got[Peer(e)], Top(Peer(e)), last[e], Floor(e)),
           Registered(e), ProcessMessage(e, m), UNCHANGED <<got, t1, t2, tun>>
    PROVE  /\ ReceiverInv(e)'
           /\ Path(<<>>, in, ch, got'[Peer(e)], Top(Peer(e))', last'[e], Floor(e)')
<1> DEFINE g == got[Peer(e)]
           top == Top(Peer(e))
           l == last[e]
           w == written[e]
<1>1. /\ g \in Nat /\ top \in Nat /\ top <= g + 1
      /\ top = g + 1 <=> t1[Peer(e)] = "done"
      /\ l \in Nat \cup {NoSequence} /\ l \in Int
      /\ Floor(e) \in Int /\ w \in Seq(Nat)
  BY PathTypes DEF IInv
<1>2. m.seq \in Nat /\ m.chunk \in Nat /\ m.kind \in {"_start", "_end", "data"}
  BY DEF Message
<1>3. ReceiverInv(e) /\ TypeOK
  BY DEF IInv
<1>4. last'[e] = CheckSequence(l, m.seq)
  BY <1>3 DEF ProcessMessage, TypeOK
<1>5. /\ Path(<<>>, in, ch, g, top, last'[e], Waits(l, m))
      /\ Fits(g, top, l, Floor(e), m)
      /\ ~Accepts(l, m.seq) => l >= 0 /\ l + 1 < top
  BY <1>1, <1>4, PathCheck
<1>6. Before(l, m.seq) /\ (Gap(e) => ~Accepts(l, m.seq))
  BY <1>5, GapRefuses DEF Fits
<1>7. Gap(e)' => ~Accepts(l, m.seq)
  <2>1. CASE WriteChunk(e, m)
    <3>1. Writable(e) /\ stop' = stop
      BY <2>1 DEF WriteChunk
    <3>2. Gap(e)' => Gap(e)
      BY <3>1 DEF Gap
    <3>3. QED
      BY <1>6, <3>2
  <2>2. CASE ShutdownOutput(e)
    BY <1>3, <2>2 DEF ShutdownOutput, Gap, Writable, TypeOK
  <2>3. CASE ~Writable(e) /\ StopOnly(e)
    BY <2>3 DEF StopOnly, Gap, Writable
  <2>4. CASE UNCHANGED <<written, outShut, app, stop>>
    <3>1. Gap(e)' => Gap(e)
      BY <2>4 DEF Gap, Writable
    <3>2. QED
      BY <1>6, <3>1
  <2>5. QED
    BY <2>1, <2>2, <2>3, <2>4 DEF ProcessMessage
<1>8. /\ last'[e] <= top
      /\ Gap(e)' => last'[e] >= 0 /\ last'[e] + 1 < top
  BY <1>1, <1>2, <1>3, <1>4, <1>5, <1>7 DEF ReceiverInv, CheckSequence, Fits
<1>9. w # <<>> => Len(w) \in Nat /\ Len(w) >= 1 /\ Latest(w) \in Nat
  BY SMTT(30), <1>1 DEF Latest
<1>10. /\ Run(written'[e])
       /\ written'[e] # <<>> =>
            /\ 1 <= Latest(written'[e])
            /\ Latest(written'[e]) <= last'[e]
            /\ Latest(written'[e]) <= g
            /\ Writable(e)' => Latest(written'[e]) = last'[e]
            /\ outShut'[e] => t1[Peer(e)] = "done" /\ Latest(written'[e]) = g
  <2>1. CASE ~Accepts(l, m.seq) /\ StopOnly(e)
    <3>1. last'[e] = l /\ written'[e] = w /\ outShut'[e] = outShut[e]
      BY <1>4, <2>1 DEF CheckSequence, StopOnly
    <3>2. Writable(e)' => Writable(e)
      BY <2>1 DEF StopOnly, Writable
    <3>3. QED
      BY <1>3, <3>1, <3>2 DEF ReceiverInv
  <2>2. CASE Accepts(l, m.seq)
    <3>1. last'[e] = m.seq /\ l <= m.seq
      BY <1>1, <1>2, <1>4, <1>6, <2>2 DEF CheckSequence, Before, NoSequence
    <3>2. w # <<>> /\ Writable(e) => Latest(w) = l /\ m.seq = l + 1
      BY <1>1, <1>2, <1>3, <1>6, <1>9, <2>2
      DEF ReceiverInv, Accepts, Before, NoSequence
    <3>3. CASE m.kind = "_start" /\ UNCHANGED <<written, outShut, app, stop>>
      <4>1. m.seq = 0
        BY <1>5, <3>3 DEF Fits
      <4>2. w = <<>>
        BY <1>1, <1>3, <1>6, <1>9, <4>1 DEF ReceiverInv, Before, NoSequence
      <4>3. QED
        BY <1>3, <3>3, <4>2 DEF ReceiverInv
    <3>4. CASE m.kind = "_end" /\ ShutdownOutput(e)
      <4>1. Writable(e) /\ written'[e] = w /\ ~Writable(e)'
        BY <1>3, <3>4 DEF ShutdownOutput, Writable, TypeOK
      <4>2. ASSUME w # <<>>
            PROVE  /\ 1 <= Latest(w) /\ Latest(w) <= m.seq
                   /\ t1[Peer(e)] = "done" /\ Latest(w) = g
        <5>1. Latest(w) = l /\ m.seq = l + 1 /\ 1 <= Latest(w)
          BY <1>3, <3>2, <4>1, <4>2 DEF ReceiverInv
        <5>2. m.seq = g + 1 /\ m.seq <= top
          BY <1>1, <1>2, <1>5, <3>4, <5>1 DEF Fits
        <5>3. QED
          BY <1>1, <1>2, <5>1, <5>2
      <4>3. QED
        BY <1>1, <1>3, <3>1, <4>1, <4>2 DEF ReceiverInv
    <3>5. CASE ~Writable(e) /\ StopOnly(e)
      <4>1. written'[e] = w /\ outShut'[e] = outShut[e] /\ ~Writable(e)'
        BY <3>5 DEF StopOnly, Writable
      <4>2. w # <<>> => Latest(w) <= m.seq
        BY <1>1, <1>2, <1>3, <1>9, <3>1 DEF ReceiverInv
      <4>3. QED
        BY <1>3, <3>1, <4>1, <4>2 DEF ReceiverInv
    <3>6. CASE m.kind = "data" /\ WriteChunk(e, m)
      <4>1. /\ written'[e] = Append(w, m.chunk) /\ Writable(e) /\ outShut'[e] = FALSE
        BY <1>3, <3>6 DEF WriteChunk, Writable, TypeOK
      <4>2. m.chunk = m.seq /\ 1 <= m.seq /\ m.seq <= g
        BY <1>5, <3>6 DEF Fits
      <4>3. /\ Len(Append(w, m.chunk)) = Len(w) + 1
            /\ Append(w, m.chunk)[Len(w) + 1] = m.chunk
            /\ Append(w, m.chunk) # <<>>
            /\ \A i \in 1..Len(w) : Append(w, m.chunk)[i] = w[i]
            /\ Len(w) \in Nat
        <5>1. w \in Seq(Nat) /\ m.chunk \in Nat
          BY <1>1, <1>2
        <5> HIDE DEF w
        <5>2. QED
          BY <5>1
      <4>4. Latest(Append(w, m.chunk)) = m.seq
        BY <4>2, <4>3 DEF Latest
      <4>5. Run(Append(w, m.chunk))
        <5>1. ASSUME NEW i \in 1..Len(w)
              PROVE  Append(w, m.chunk)[i + 1] = Append(w, m.chunk)[i] + 1
          <6>1. i < Len(w) \/ i = Len(w)
            BY <4>3
          <6>2. CASE i < Len(w)
            <7>1. i \in 1..(Len(w) - 1) /\ i \in 1..Len(w) /\ i + 1 \in 1..Len(w)
              BY <4>3, <6>2
            <7>2. w[i + 1] = w[i] + 1
              BY <1>3, <7>1 DEF ReceiverInv, Run
            <7>3. QED
              BY <4>3, <7>1, <7>2
          <6>3. CASE i = Len(w)
            <7>1. w # <<>>
              BY <4>3, <6>3
            <7>2. w[i] = l /\ m.chunk = l + 1
              BY <3>2, <4>1, <4>2, <6>3, <7>1 DEF Latest
            <7>3. QED
              BY <4>3, <6>3, <7>2
          <6>4. QED
            BY <6>1, <6>2, <6>3
        <5>2. QED
          BY <4>3, <5>1 DEF Run
      <4>6. QED
        BY <1>1, <1>2, <3>1, <4>1, <4>2, <4>4, <4>5
    <3>7. QED
      BY <2>2, <3>3, <3>4, <3>5, <3>6 DEF ProcessMessage
  <2>3. QED
    BY <2>1, <2>2 DEF ProcessMessage
<1>11. /\ got'[Peer(e)] = g /\ t1'[Peer(e)] = t1[Peer(e)]
       /\ Top(Peer(e))' = top /\ Registered(e)'
  BY DEF Registered, Top
<1>12. ReceiverInv(e)'
  BY <1>8, <1>10, <1>11 DEF ReceiverInv
<1>13. Path(<<>>, in, ch, g, top, last'[e], Floor(e)')
  <2>1. /\ Floor(e)' \in Int /\ Waits(l, m) \in Int /\ Floor(e)' <= Waits(l, m)
    BY <1>1, <1>4, <1>7 DEF Floor, Waits, CheckSequence, NoSequence
  <2>2. <<>> \in Seq(Message) /\ g <= g /\ top <= top
    BY <1>1
  <2>3. /\ Path(<<>>, in, ch, g, top, last'[e], Waits(l, m))
        /\ g \in Nat /\ top \in Nat /\ top <= g + 1
    BY <1>1, <1>5
  <2> HIDE DEF g, top, l
  <2>4. QED
    BY <2>1, <2>2, <2>3, PathMono
<1>14. QED
  BY <1>11, <1>12, <1>13

\* Whether the chat has a listener or not.
LEMMA DeliverStep ==
    ASSUME IInv, TypeOK', NEW e \in End, NEW m \in Message,
           NEW in \in Seq(Message), NEW ch \in Seq(Message),
           Path(<<m>>, in, ch, got[Peer(e)], Top(Peer(e)), last[e], Floor(e)),
           DeliverToChat(e, m), UNCHANGED <<got, t1, t2, tun>>
    PROVE  /\ ReceiverInv(e)'
           /\ Path(<<>>, in, ch, got'[Peer(e)], Top(Peer(e))', last'[e], Floor(e)')
<1>1. CASE Registered(e)
  BY <1>1, ProcessStep DEF DeliverToChat
<1>2. CASE ~Registered(e)
  <2>1. Quiet(e)
    BY <1>2, PathTypes DEF DeliverToChat, Quiet, Gap, Writable, Registered, IInv
  <2>2. Path(<<>>, in, ch, got[Peer(e)], Top(Peer(e)), last[e], Floor(e))
    BY PathDrop
  <2>3. <<>> \in Seq(Message)
    OBVIOUS
  <2>4. QED
    BY <2>1, <2>2, <2>3, QuietReceiver, QuietPath
<1>3. QED
  BY <1>1, <1>2

\* The other end is not concerned.
LEMMA DeliverOther ==
    ASSUME IInv, TypeOK', NEW e \in End, NEW m \in Message, DeliverToChat(e, m),
           UNCHANGED <<got, t1, t2, tun>>, NEW x \in End, x # e
    PROVE  Quiet(x)
<1>1. TypeOK
  BY DEF IInv
<1>2. /\ written'[x] = written[x] /\ last'[x] = last[x]
      /\ outShut'[x] = outShut[x] /\ stop'[x] = stop[x] /\ app'[x] = app[x]
  <2>1. CASE ~Registered(e)
    BY <2>1 DEF DeliverToChat
  <2>2. CASE Registered(e)
    <3>1. ProcessMessage(e, m) /\ last'[x] = last[x]
      BY <1>1, <2>2 DEF DeliverToChat, ProcessMessage, TypeOK
    <3>2. CASE WriteChunk(e, m)
      BY <1>1, <3>1, <3>2 DEF WriteChunk, TypeOK
    <3>3. CASE ShutdownOutput(e)
      BY <1>1, <3>1, <3>3 DEF ShutdownOutput, TypeOK
    <3>4. CASE StopOnly(e)
      BY <1>1, <3>1, <3>4 DEF StopOnly, TypeOK
    <3>5. CASE UNCHANGED <<written, outShut, app, stop>>
      BY <3>1, <3>5
    <3>6. QED
      BY <3>1, <3>2, <3>3, <3>4, <3>5 DEF ProcessMessage
  <2>3. QED
    BY <2>1, <2>2
<1>3. got[Peer(x)] <= got'[Peer(x)]
  BY <1>1, PathTypes
<1>4. QED
  BY <1>2, <1>3 DEF Quiet, Gap, Writable, Registered

\* t1 and the threads' places.
LEMMA PumpStep == IInv /\ [Next]_vars => \A x \in End : PumpInv(x)'
<1> SUFFICES ASSUME IInv, [Next]_vars, NEW x \in End PROVE PumpInv(x)'
  OBVIOUS
<1>1. PumpInv(x) /\ TypeOK
  BY DEF IInv
<1>2. ASSUME UNCHANGED <<t1, sequence, got, tun>>,
             t2'[x] = "none" <=> t2[x] = "none"
      PROVE  PumpInv(x)'
  BY <1>1, <1>2 DEF PumpInv
<1>3. ASSUME NEW e \in End, Pump(e) PROVE PumpInv(x)'
  <2>1. CASE SendStart(e)
    BY <1>1, <2>1 DEF SendStart, Sends, PumpInv, TypeOK, tcpVars
  <2>2. CASE ReadChunk(e)
    BY <1>1, <2>2 DEF ReadChunk, Sends, PumpInv, TypeOK
  <2>3. CASE ReadEof(e)
    BY <1>1, <2>3 DEF ReadEof, Sends, PumpInv, TypeOK, tcpVars
  <2>4. CASE ReadFails(e)
    BY <1>1, <2>4 DEF ReadFails, PumpInv, TypeOK, tcpVars
  <2>5. QED
    BY <1>3, <2>1, <2>2, <2>3, <2>4 DEF Pump
<1>4. ASSUME NEW e \in End, T2(e) PROVE PumpInv(x)'
  <2>1. CASE Register(e)
    BY <1>1, <1>2, <2>1 DEF Register, TypeOK, tcpVars
  <2>2. CASE PollStop(e)
    BY <1>1, <1>2, <2>2 DEF PollStop, TypeOK, tcpVars
  <2>3. QED
    BY <1>4, <2>1, <2>2 DEF T2
<1>5. ASSUME NEW e \in End, App(e) \/ Arrive(e) \/ Lose(e) PROVE PumpInv(x)'
  BY <1>2, <1>5 DEF App, AppClose, AppReset, Arrive, Lose, tcpVars, pumpVars
<1>6. CASE ClientReceives \/ ServerDelivers \/ ServerSkips \/ CollectRefused
  BY <1>2, <1>6
  DEF ClientReceives, ServerDelivers, ServerSkips, CollectRefused, tcpVars, pumpVars
<1>7. CASE DispatchNew
  BY <1>1, <1>7 DEF DispatchNew, PumpInv, TypeOK, tcpVars
<1>8. CASE DispatchKnown \/ DispatchRefuse \/ DispatchFails
  BY <1>2, <1>8 DEF DispatchKnown, DispatchRefuse, DispatchFails, tcpVars, pumpVars
<1>9. CASE CloseClientTunnel \/ CloseServerTunnel
  BY <1>1, <1>9
  DEF CloseClientTunnel, CloseServerTunnel, PumpInv, TypeOK, tcpVars
<1>10. CASE ClientDrops \/ ClientReconnects \/ ServerDrops \/ ServerGivesUp
  BY <1>2, <1>10
  DEF ClientDrops, ClientReconnects, ServerDrops, ServerGivesUp, tcpVars, pumpVars
<1>11. CASE UNCHANGED vars
  BY <1>2, <1>11 DEF vars
<1>12. QED
  BY <1>3, <1>4, <1>5, <1>6, <1>7, <1>8, <1>9, <1>10, <1>11 DEF Next, Dispatch

-----------------------------------------------------------------------------
(* Each action, for a receiver x. *)

ReceiverOK(x) == PathInv(x)' /\ ReceiverInv(x)'

\* A path whose queues do not change, though those of the other may.
LEMMA SameQueues ==
    ASSUME IInv, TypeOK', NEW x \in End, Quiet(x), inbox'[x] = inbox[x],
           chan'[Peer(x)] = chan[Peer(x)], Hand(x)' = Hand(x)
    PROVE  ReceiverOK(x)
<1>1. Path(Hand(x), inbox[x], chan[Peer(x)],
           got[Peer(x)], Top(Peer(x)), last[x], Floor(x))
  BY DEF IInv, PathInv
<1>2. QED
  BY <1>1, MovingStep DEF ReceiverOK

\* e sends m to x: the numbers on the path are at most what e has read, and
\* m's is past that, or nothing has been read and it is 0.
LEMMA SendStep ==
    ASSUME IInv, TypeOK', NEW x \in End, Quiet(x), NEW e \in End, e = Peer(x),
           NEW m \in Message, t1[e] # "done",
           \/ m.seq > got[e]
           \/ got[e] = 0 /\ m.seq = 0,
           m.seq <= Top(e)',
           m.kind = "_start" => m.seq = 0,
           m.kind = "data" => m.seq = m.chunk /\ 1 <= m.seq /\ m.seq <= got'[e],
           m.kind = "_end" => m.seq = 0 \/ m.seq = got'[e] + 1,
           inbox'[x] = inbox[x], Hand(x)' = Hand(x),
           chan'[e] = Append(chan[e], m)
    PROVE  ReceiverOK(x)
<1>1. /\ got[e] \in Nat /\ Top(e) = got[e] /\ last[x] \in Int
      /\ Hand(x) \in Seq(Message) /\ inbox[x] \in Seq(Message)
      /\ chan[e] \in Seq(Message) /\ m.seq \in Nat
  BY PathTypes DEF IInv, Top, Message
<1>2. ReceiverInv(x) /\ PathInv(x)
  BY DEF IInv
<1>3. Path(Hand(x), inbox[x], chan[e], got[e], Top(e), last[x], Floor(x))
  BY <1>2 DEF PathInv
<1>4. Path(Hand(x), inbox[x], chan[e], got'[e], Top(e)', last'[x], Floor(x)')
  BY <1>1, <1>3, QuietPath
<1>5. ASSUME NEW q \in Seq(Message), AllFit(got[e], Top(e), last[x], Floor(x), q)
      PROVE  AllBefore(q, m.seq)
  <2>1. ASSUME NEW i \in 1..Len(q) PROVE Before(q[i].seq, m.seq)
    <3>1. q[i].seq <= got[e] /\ q[i].seq \in Nat
      <4>1. q[i] \in Message
        OBVIOUS
      <4>2. Fits(got[e], Top(e), last[x], Floor(x), q[i])
        BY <1>5 DEF AllFit
      <4>3. QED
        BY <1>1, <4>1, <4>2 DEF Fits, Message
    <3>2. QED
      BY <1>1, <3>1 DEF Before
  <2>2. QED
    BY <2>1 DEF AllBefore
<1>6. /\ AllBefore(Hand(x), m.seq) /\ AllBefore(inbox[x], m.seq)
      /\ AllBefore(chan[e], m.seq)
  BY <1>1, <1>3, <1>5 DEF Path
<1>7. Before(last'[x], m.seq) /\ Floor(x)' < m.seq
  <2>1. last'[x] = last[x] /\ (Gap(x)' => Gap(x))
    BY DEF Quiet
  <2>2. last[x] <= got[e] /\ (Gap(x) => last[x] >= 0 /\ last[x] + 1 < got[e])
    BY <1>1, <1>2 DEF ReceiverInv
  <2>3. last[x] \in Nat \/ last[x] = NoSequence
    BY PathTypes DEF IInv
  <2>4. QED
    BY <1>1, <2>1, <2>2, <2>3 DEF Before, Floor, NoSequence
<1>8. Fits(got'[e], Top(e)', last'[x], Floor(x)', m)
  BY <1>7 DEF Fits
<1>9. Path(Hand(x), inbox[x], Append(chan[e], m), got'[e], Top(e)', last'[x], Floor(x)')
  BY <1>1, <1>4, <1>6, <1>8, PathSend
<1>10. ReceiverInv(x)'
  BY QuietReceiver
<1>11. QED
  BY <1>9, <1>10 DEF PathInv, ReceiverOK

\* The application and the threads.
LEMMA LocalStep ==
    ASSUME IInv, TypeOK', NEW x \in End, NEW e \in End,
           App(e) \/ ReadFails(e) \/ T2(e)
    PROVE  ReceiverOK(x)
<1>1. TypeOK /\ got[Peer(x)] \in Nat
  BY PathTypes DEF IInv
<1>2. UNCHANGED <<got, written, outShut, stop, last, tun, chan, inbox, cur>>
  BY DEF App, AppClose, AppReset, ReadFails, T2, Register, PollStop, tcpVars,
         pumpVars, xmppVars
<1>3. Writable(x)' => Writable(x)
  BY ZenonT(40), <1>1, <1>2 DEF App, AppClose, AppReset, ReadFails, T2, Register, PollStop,
                    tcpVars, pumpVars, xmppVars, Writable, TypeOK
<1>4. t1[Peer(x)] = "done" => t1'[Peer(x)] = "done"
  <2>1. CASE ReadFails(e)
    BY <1>1, <2>1, PeerFacts DEF ReadFails, TypeOK
  <2>2. CASE App(e) \/ T2(e)
    BY <2>2 DEF App, AppClose, AppReset, T2, Register, PollStop, pumpVars
  <2>3. QED
    BY <2>1, <2>2
<1>5. Registered(x) => Registered(x)'
  <2>1. CASE Register(e)
    BY <1>1, <2>1 DEF Register, Registered, TypeOK
  <2>2. CASE PollStop(e)
    BY <1>1, <2>2 DEF PollStop, Registered, TypeOK
  <2>3. CASE App(e) \/ ReadFails(e)
    BY <2>3 DEF App, AppClose, AppReset, ReadFails, pumpVars, Registered
  <2>4. QED
    BY <2>1, <2>2, <2>3 DEF T2
<1>6. Quiet(x)
  BY <1>1, <1>2, <1>3, <1>4, <1>5 DEF Quiet, Gap
<1>7. QED
  BY <1>2, <1>6, StillStep DEF ReceiverOK

\* t1 sends a message, or finds its connection down.
LEMMA PumpSends ==
    ASSUME IInv, TypeOK', NEW x \in End, NEW e \in End,
           SendStart(e) \/ ReadChunk(e) \/ ReadEof(e)
    PROVE  ReceiverOK(x)
<1>1. TypeOK /\ PumpInv(e) /\ got[e] \in Nat /\ got[Peer(x)] \in Nat
  BY PathTypes DEF IInv, TypeOK
<1>2. UNCHANGED <<app, written, outShut, stop, last, t2, tun, inbox, cur>>
  BY DEF SendStart, ReadChunk, ReadEof, tcpVars
<1>3. /\ t1[e] # "done" /\ got[e] <= got'[e]
      /\ \A y \in End : y # e => t1'[y] = t1[y] /\ got'[y] = got[y] /\ chan'[y] = chan[y]
  <2>1. CASE SendStart(e)
    BY <1>1, <2>1 DEF SendStart, Sends, tcpVars, TypeOK
  <2>2. CASE ReadChunk(e)
    BY <1>1, <2>2 DEF ReadChunk, Sends, TypeOK
  <2>3. CASE ReadEof(e)
    BY <1>1, <2>3 DEF ReadEof, Sends, tcpVars, TypeOK
  <2>4. QED
    BY <2>1, <2>2, <2>3
<1>5. Quiet(x)
  BY <1>1, <1>2, <1>3, PeerFacts DEF Quiet, Gap, Writable, Registered
<1>6. Hand(x)' = Hand(x) /\ inbox'[x] = inbox[x]
  BY <1>2 DEF Hand
<1>7. CASE Peer(x) # e \/ ~up[e]
  <2>1. chan'[Peer(x)] = chan[Peer(x)]
    BY <1>3, <1>7, PeerFacts DEF SendStart, ReadChunk, ReadEof, Sends
  <2>2. QED
    BY <1>5, <1>6, <2>1, SameQueues
<1>8. CASE Peer(x) = e /\ up[e]
  <2> USE <1>1, <1>3, <1>8
  <2>1. CASE SendStart(e)
    <3> DEFINE m == StartMsg(sequence[e])
    <3>1. chan'[e] = Append(chan[e], m) /\ got'[e] = got[e] /\ Top(e)' = got[e]
      BY <2>1 DEF SendStart, Sends, tcpVars, TypeOK, Top
    <3>2. m \in Message /\ m.seq = 0 /\ m.kind = "_start" /\ got[e] = 0
      BY <2>1, MessageTypes DEF SendStart, PumpInv, StartMsg
    <3> HIDE DEF m
    <3>3. QED
      BY <1>5, <1>6, <3>1, <3>2, SendStep
  <2>2. CASE ReadChunk(e)
    <3> DEFINE m == DataMsg(sequence[e], got[e] + 1)
    <3>1. /\ chan'[e] = Append(chan[e], m) /\ got'[e] = got[e] + 1
          /\ Top(e)' = got[e] + 1
      BY <2>2 DEF ReadChunk, Sends, TypeOK, Top
    <3>2. /\ m \in Message /\ m.seq = got[e] + 1 /\ m.kind = "data"
          /\ m.chunk = got[e] + 1
      BY <2>2, MessageTypes DEF ReadChunk, PumpInv, DataMsg
    <3> HIDE DEF m
    <3>3. QED
      BY <1>5, <1>6, <3>1, <3>2, SendStep
  <2>3. CASE ReadEof(e)
    <3> DEFINE m == EndMsg(sequence[e])
    <3>1. /\ chan'[e] = Append(chan[e], m) /\ got'[e] = got[e]
          /\ Top(e)' = got[e] + 1
      BY <2>3 DEF ReadEof, Sends, tcpVars, TypeOK, Top
    <3>2. m \in Message /\ m.seq = got[e] + 1 /\ m.kind = "_end"
      BY <2>3, MessageTypes DEF ReadEof, PumpInv, EndMsg
    <3> HIDE DEF m
    <3>3. QED
      BY <1>5, <1>6, <3>1, <3>2, SendStep
  <2>4. QED
    BY <2>1, <2>2, <2>3
<1>9. QED
  BY <1>7, <1>8

\* A step that concerns neither the sockets nor the pumps.
LEMMA QuietElsewhere ==
    ASSUME IInv, NEW x \in End, UNCHANGED <<tcpVars, t1, t2, stop, last>>,
           tun'[x] = "running" => tun[x] = "running"
    PROVE  Quiet(x)
<1>1. got[Peer(x)] \in Nat
  BY PathTypes DEF IInv
<1>2. QED
  BY <1>1 DEF Quiet, Gap, Writable, Registered, tcpVars

\* What is in the way of messages to x, at the start of a step.
LEMMA PathNow ==
    ASSUME IInv, NEW x \in End
    PROVE  /\ Path(Hand(x), inbox[x], chan[Peer(x)],
                   got[Peer(x)], Top(Peer(x)), last[x], Floor(x))
           /\ Hand(x) \in Seq(Message) /\ inbox[x] \in Seq(Message)
           /\ chan[Peer(x)] \in Seq(Message)
  BY PathTypes DEF IInv, PathInv

\* A packet is taken off the stream.
LEMMA ArriveStep ==
    ASSUME IInv, TypeOK', NEW x \in End, NEW e \in End, Arrive(e)
    PROVE  ReceiverOK(x)
<1>1. Quiet(x) /\ Hand(x)' = Hand(x)
  BY QuietElsewhere DEF Arrive, pumpVars, Hand
<1>2. TypeOK
  BY DEF IInv
<1>3. CASE x = e
  <2>1. /\ chan[Peer(x)] # <<>> /\ chan'[Peer(x)] = Tail(chan[Peer(x)])
        /\ inbox'[x] = Append(inbox[x], Head(chan[Peer(x)]))
    BY <1>2, <1>3, PeerFacts DEF Arrive, TypeOK
  <2>2. Path(Hand(x)', inbox'[x], chan'[Peer(x)],
             got[Peer(x)], Top(Peer(x)), last[x], Floor(x))
    BY <1>1, <2>1, PathNow, PathArrive
  <2>3. QED
    BY <1>1, <2>2, MovingStep DEF ReceiverOK
<1>4. CASE x # e
  <2>1. chan'[Peer(x)] = chan[Peer(x)] /\ inbox'[x] = inbox[x]
    BY <1>2, <1>4, PeerFacts DEF Arrive, TypeOK
  <2>2. QED
    BY <1>1, <2>1, SameQueues
<1>5. QED
  BY <1>3, <1>4

\* XMPP drops a message.
LEMMA LoseStep ==
    ASSUME IInv, TypeOK', NEW x \in End, NEW e \in End, Lose(e)
    PROVE  ReceiverOK(x)
<1>1. Quiet(x) /\ Hand(x)' = Hand(x) /\ inbox'[x] = inbox[x]
  BY QuietElsewhere DEF Lose, pumpVars, Hand
<1>2. TypeOK
  BY DEF IInv
<1>3. CASE Peer(x) = e
  <2>1. chan[Peer(x)] # <<>> /\ chan'[Peer(x)] = Tail(chan[Peer(x)])
    BY <1>2, <1>3 DEF Lose, TypeOK
  <2>2. Path(Hand(x)', inbox'[x], chan'[Peer(x)],
             got[Peer(x)], Top(Peer(x)), last[x], Floor(x))
    BY <1>1, <2>1, PathNow, PathLose
  <2>3. QED
    BY <1>1, <2>2, MovingStep DEF ReceiverOK
<1>4. CASE Peer(x) # e
  <2>1. chan'[Peer(x)] = chan[Peer(x)]
    BY <1>2, <1>4, PeerFacts DEF Lose, TypeOK
  <2>2. QED
    BY <1>1, <2>1, SameQueues
<1>5. QED
  BY <1>3, <1>4

\* A connection goes down with its last messages.
LEMMA KeepStep ==
    ASSUME IInv, TypeOK', NEW x \in End, Quiet(x), UNCHANGED <<inbox, cur>>,
           NEW e \in End, NEW k \in 0..Len(chan[e]), KeepSent(e, k)
    PROVE  ReceiverOK(x)
<1>1. Hand(x)' = Hand(x) /\ inbox'[x] = inbox[x]
  BY DEF Hand
<1>2. TypeOK
  BY DEF IInv
<1>3. CASE Peer(x) = e
  <2>1. chan'[Peer(x)] = SubSeq(chan[Peer(x)], 1, k)
    BY <1>2, <1>3 DEF KeepSent, TypeOK
  <2>2. Path(Hand(x)', inbox'[x], chan'[Peer(x)],
             got[Peer(x)], Top(Peer(x)), last[x], Floor(x))
    BY <1>1, <1>3, <2>1, PathNow, PathLose
  <2>3. QED
    BY <2>2, MovingStep DEF ReceiverOK
<1>4. CASE Peer(x) # e
  <2>1. chan'[Peer(x)] = chan[Peer(x)]
    BY <1>2, <1>4, PeerFacts DEF KeepSent, TypeOK
  <2>2. QED
    BY <1>1, <2>1, SameQueues
<1>5. QED
  BY <1>3, <1>4

\* The connections come and go, and the tunnel threads end.
LEMMA ConnectionStep ==
    ASSUME IInv, TypeOK', NEW x \in End,
           \/ CloseClientTunnel \/ CloseServerTunnel
           \/ ClientDrops \/ ClientReconnects \/ ServerDrops \/ ServerGivesUp
    PROVE  ReceiverOK(x)
<1>1. "client" \in End /\ "server" \in End /\ TypeOK
  BY DEF End, IInv
<1>2. UNCHANGED <<inbox, cur>> /\ Quiet(x)
  <2>1. CASE CloseClientTunnel
    BY <1>1, <2>1, QuietElsewhere DEF CloseClientTunnel, TypeOK
  <2>2. CASE CloseServerTunnel
    BY <1>1, <2>2, QuietElsewhere DEF CloseServerTunnel, TypeOK, xmppVars
  <2>3. CASE ClientDrops \/ ClientReconnects \/ ServerDrops \/ ServerGivesUp
    BY <2>3, QuietElsewhere
    DEF ClientDrops, ClientReconnects, ServerDrops, ServerGivesUp, pumpVars
  <2>4. QED
    BY <2>1, <2>2, <2>3
<1>3. CASE CloseServerTunnel \/ ClientReconnects
  <2>1. UNCHANGED chan
    BY <1>3 DEF CloseServerTunnel, ClientReconnects, xmppVars
  <2>2. QED
    BY <1>2, <2>1, StillStep DEF ReceiverOK
<1>4. CASE CloseClientTunnel
  BY <1>1, <1>2, <1>4, KeepStep DEF CloseClientTunnel
<1>5. CASE ClientDrops
  BY <1>1, <1>2, <1>5, KeepStep DEF ClientDrops
<1>6. CASE ServerDrops
  BY <1>1, <1>2, <1>6, KeepStep DEF ServerDrops
<1>7. CASE ServerGivesUp
  BY <1>1, <1>2, <1>7, KeepStep DEF ServerGivesUp
<1>8. QED
  BY <1>3, <1>4, <1>5, <1>6, <1>7

\* The client's callback thread runs the listener.
LEMMA ClientReceivesStep ==
    ASSUME IInv, TypeOK', NEW x \in End, ClientReceives
    PROVE  ReceiverOK(x)
<1> DEFINE m == Head(inbox["client"])
<1>1. "client" \in End /\ TypeOK /\ inbox["client"] # <<>>
  BY DEF End, IInv, ClientReceives
<1>2. m \in Message /\ Tail(inbox["client"]) \in Seq(Message)
  BY <1>1, TailFacts DEF TypeOK
<1>3. DeliverToChat("client", m) /\ UNCHANGED <<got, t1, t2, tun, chan, cur>>
      /\ inbox' = [inbox EXCEPT !["client"] = Tail(@)]
  BY DEF ClientReceives
<1>4. Hand(x)' = Hand(x) /\ chan'[Peer(x)] = chan[Peer(x)]
  BY <1>3 DEF Hand
<1>5. CASE x = "client"
  <2> DEFINE in == Tail(inbox["client"])
             ch == chan[Peer("client")]
  <2>1. Hand("client") = <<>> /\ Hand("client")' = <<>> /\ inbox'["client"] = in
    BY <1>1, <1>3 DEF Hand, TypeOK
  <2>2. ch \in Seq(Message) /\ inbox["client"] \in Seq(Message)
        /\ Path(<<>>, inbox["client"], ch, got[Peer("client")],
                Top(Peer("client")), last["client"], Floor("client"))
    BY <1>1, <2>1, PathNow
  <2>3. Path(<<m>>, in, ch, got[Peer("client")], Top(Peer("client")),
             last["client"], Floor("client"))
    BY <1>1, <2>2, PathTake
  <2> HIDE DEF m, in, ch
  <2>4. /\ ReceiverInv("client")'
        /\ Path(<<>>, in, ch, got'[Peer("client")], Top(Peer("client"))',
                last'["client"], Floor("client")')
    BY <1>1, <1>2, <1>3, <2>2, <2>3, DeliverStep DEF in
  <2>5. QED
    BY <1>3, <1>5, <2>1, <2>4 DEF ReceiverOK, PathInv, ch
<1>6. CASE x # "client"
  <2>1. Quiet(x)
    BY <1>1, <1>2, <1>3, <1>6, DeliverOther
  <2>2. inbox'[x] = inbox[x]
    BY <1>1, <1>3, <1>6 DEF TypeOK
  <2>3. QED
    BY <1>4, <2>1, <2>2, SameQueues
<1>7. QED
  BY <1>5, <1>6

\* The server's callback thread takes a packet in hand.
LEMMA TakeStep ==
    ASSUME IInv, TypeOK', NEW x \in End, Take, Quiet(x), UNCHANGED chan
    PROVE  ReceiverOK(x)
<1>1. /\ "server" \in End /\ TypeOK /\ cur = <<>> /\ inbox["server"] # <<>>
      /\ cur' = <<Head(inbox["server"])>>
      /\ inbox' = [inbox EXCEPT !["server"] = Tail(@)]
  BY DEF End, IInv, Take
<1>2. CASE x = "server"
  <2>1. Hand(x) = <<>> /\ Hand(x)' = <<Head(inbox[x])>> /\ inbox'[x] = Tail(inbox[x])
    BY <1>1, <1>2 DEF Hand, TypeOK
  <2>2. Path(Hand(x)', inbox'[x], chan'[Peer(x)],
             got[Peer(x)], Top(Peer(x)), last[x], Floor(x))
    BY <1>1, <1>2, <2>1, PathNow, PathTake
  <2>3. QED
    BY <2>2, MovingStep DEF ReceiverOK
<1>3. CASE x # "server"
  BY ZenonT(40), <1>1, <1>3, SameQueues DEF Hand, TypeOK
<1>4. QED
  BY <1>2, <1>3

\* The refusal of a tunnel is numbered 0: the server's pump has sent nothing.
LEMMA RefuseStep ==
    ASSUME IInv, TypeOK', NEW x \in End, DispatchRefuse
    PROVE  ReceiverOK(x)
<1>1. /\ "server" \in End /\ "client" \in End /\ TypeOK /\ PumpInv("server")
      /\ Peer("client") = "server"
  BY DEF End, IInv, Peer
<1>2. Quiet(x) /\ Take
  BY QuietElsewhere DEF DispatchRefuse, pumpVars
<1>3. CASE ~up["server"]
  BY <1>2, <1>3, TakeStep DEF DispatchRefuse
<1>4. CASE up["server"] /\ x = "server"
  <2>1. /\ chan'["client"] = chan["client"] /\ cur = <<>> /\ inbox["server"] # <<>>
        /\ cur' = <<Head(inbox["server"])>> /\ inbox'["server"] = Tail(inbox["server"])
    BY <1>1, <1>4 DEF DispatchRefuse, Take, TypeOK
  <2>2. Hand(x) = <<>> /\ Hand(x)' = <<Head(inbox[x])>> /\ Peer(x) = "client"
    BY <1>4, <2>1 DEF Hand, Peer
  <2>3. Path(Hand(x)', inbox'[x], chan'[Peer(x)],
             got[Peer(x)], Top(Peer(x)), last[x], Floor(x))
    BY <1>4, <2>1, <2>2, PathNow, PathTake
  <2>4. QED
    BY <1>2, <2>3, MovingStep DEF ReceiverOK
<1>5. CASE up["server"] /\ x = "client"
  <2> DEFINE m == EndMsg(0)
  <2>1. /\ m \in Message /\ m.seq = 0 /\ m.kind = "_end"
    BY MessageTypes DEF EndMsg
  <2>2. t1["server"] = "none" /\ got["server"] = 0
    BY <1>1 DEF DispatchRefuse, PumpInv
  <2>3. got' = got /\ t1' = t1 /\ Top("server")' = 0
    BY <2>2 DEF DispatchRefuse, tcpVars, pumpVars, Top
  <2>4. /\ chan'["server"] = Append(chan["server"], m)
        /\ inbox'[x] = inbox[x] /\ Hand(x)' = Hand(x)
    BY <1>1, <1>5 DEF DispatchRefuse, Take, Hand, TypeOK
  <2> HIDE DEF m
  <2>5. QED
    BY <1>1, <1>2, <1>5, <2>1, <2>2, <2>3, <2>4, SendStep
<1>6. QED
  BY <1>3, <1>4, <1>5 DEF End

LEMMA DispatchStep ==
    ASSUME IInv, TypeOK', NEW x \in End, Dispatch
    PROVE  ReceiverOK(x)
<1>1. CASE DispatchKnown \/ DispatchFails
  <2>1. Take /\ UNCHANGED <<tcpVars, pumpVars, chan>>
    BY <1>1 DEF DispatchKnown, DispatchFails
  <2>2. Quiet(x)
    BY <2>1, QuietElsewhere DEF pumpVars
  <2>3. QED
    BY <2>1, <2>2, TakeStep
<1>2. CASE DispatchNew
  <2>1. /\ "server" \in End /\ TypeOK /\ PumpInv("server") /\ ReceiverInv("server")
        /\ got[Peer(x)] \in Nat
    BY PathTypes DEF End, IInv
  <2>2. Take /\ UNCHANGED <<tcpVars, stop, last, chan>>
    BY <1>2 DEF DispatchNew
  <2>3. t1["server"] = "none" /\ t2["server"] = "none"
    BY <1>2, <2>1 DEF DispatchNew, PumpInv
  <2>4. ~Registered("server") /\ ~stop["server"]
    BY <2>1, <2>3 DEF ReceiverInv, Registered
  <2>5. \A y \in End : y # "server" => t1'[y] = t1[y] /\ t2'[y] = t2[y] /\ tun'[y] = tun[y]
    BY <1>2, <2>1 DEF DispatchNew, TypeOK
  <2>6. t1[Peer(x)] = "done" => t1'[Peer(x)] = "done"
    BY <2>3, <2>5, PeerFacts
  <2>7. /\ Gap(x)' => Gap(x)
        /\ Writable(x)' => Writable(x) \/ ~Registered(x)
        /\ Registered(x) => Registered(x)'
    <3>1. CASE x = "server"
      BY <2>2, <2>4, <3>1 DEF Gap
    <3>2. CASE x # "server"
      BY <2>2, <2>5, <3>2 DEF Gap, Writable, Registered, tcpVars
    <3>3. QED
      BY <3>1, <3>2
  <2>8. Quiet(x)
    BY <2>1, <2>2, <2>6, <2>7 DEF Quiet, tcpVars
  <2>9. QED
    BY <2>2, <2>8, TakeStep
<1>3. CASE DispatchRefuse
  BY <1>3, RefuseStep
<1>4. QED
  BY <1>1, <1>2, <1>3 DEF Dispatch

\* The server's callback thread delivers what it has in hand.
LEMMA ServerDeliversStep ==
    ASSUME IInv, TypeOK', NEW x \in End, ServerDelivers
    PROVE  ReceiverOK(x)
<1> DEFINE m == Head(cur)
<1>1. "server" \in End /\ TypeOK /\ cur # <<>>
  BY DEF End, IInv, ServerDelivers
<1>2. m \in Message /\ cur = <<m>>
  BY <1>1, HandFacts DEF TypeOK
<1>3. /\ DeliverToChat("server", m) /\ cur' = <<>>
      /\ UNCHANGED <<got, t1, t2, tun, chan, inbox>>
  BY DEF ServerDelivers
<1> HIDE DEF m
<1>4. CASE x = "server"
  <2> DEFINE in == inbox["server"]
             ch == chan[Peer("server")]
  <2>1. /\ Path(<<m>>, in, ch, got[Peer("server")], Top(Peer("server")),
                last["server"], Floor("server"))
        /\ in \in Seq(Message) /\ ch \in Seq(Message)
    BY <1>1, <1>2, PathNow DEF Hand
  <2> HIDE DEF in, ch
  <2>2. /\ ReceiverInv("server")'
        /\ Path(<<>>, in, ch, got'[Peer("server")], Top(Peer("server"))',
                last'["server"], Floor("server")')
    BY <1>1, <1>2, <1>3, <2>1, DeliverStep
  <2>3. QED
    BY <1>3, <1>4, <2>2 DEF ReceiverOK, PathInv, in, ch, Hand
<1>5. CASE x # "server"
  <2>1. Quiet(x)
    BY <1>1, <1>2, <1>3, <1>5, DeliverOther
  <2>2. QED
    BY <1>3, <1>5, <2>1, SameQueues DEF Hand
<1>6. QED
  BY <1>4, <1>5

\* The message at hand is dropped, or the refusing Chat collected.
LEMMA ServerIdleStep ==
    ASSUME IInv, TypeOK', NEW x \in End, ServerSkips \/ CollectRefused
    PROVE  ReceiverOK(x)
<1>1. Quiet(x) /\ UNCHANGED <<chan, inbox>>
  BY QuietElsewhere DEF ServerSkips, CollectRefused, pumpVars
<1>2. CASE CollectRefused
  BY <1>1, <1>2, StillStep DEF CollectRefused, ReceiverOK
<1>3. CASE ServerSkips /\ x # "server"
  BY <1>1, <1>3, SameQueues DEF Hand
<1>4. CASE ServerSkips /\ x = "server"
  <2>1. cur' = <<>> /\ cur = <<Head(cur)>>
    BY <1>4, HandFacts DEF ServerSkips, IInv, TypeOK
  <2>2. Hand(x) = <<Head(cur)>> /\ Hand(x)' = <<>>
    BY <1>4, <2>1 DEF Hand
  <2>3. Path(Hand(x)', inbox'[x], chan'[Peer(x)],
             got[Peer(x)], Top(Peer(x)), last[x], Floor(x))
    BY <1>1, <2>2, PathNow, PathDrop
  <2>4. QED
    BY <1>1, <2>3, MovingStep DEF ReceiverOK
<1>5. QED
  BY <1>2, <1>3, <1>4

-----------------------------------------------------------------------------
(* The inductive invariant *)

LEMMA IInvStep == IInv /\ [Next]_vars => IInv'
<1> SUFFICES ASSUME IInv, [Next]_vars PROVE IInv'
  OBVIOUS
<1>1. TypeOK'
  BY TypeStep DEF IInv
<1>2. ASSUME NEW x \in End PROVE ReceiverOK(x)
  <2>1. ASSUME NEW e \in End, App(e) \/ Pump(e) \/ T2(e) PROVE ReceiverOK(x)
    BY <1>1, <2>1, LocalStep, PumpSends DEF Pump
  <2>2. ASSUME NEW e \in End, Arrive(e) \/ Lose(e) PROVE ReceiverOK(x)
    BY <1>1, <2>2, ArriveStep, LoseStep
  <2>3. CASE ClientReceives \/ Dispatch \/ ServerDelivers \/ ServerSkips \/ CollectRefused
    BY <1>1, <2>3, ClientReceivesStep, DispatchStep, ServerDeliversStep, ServerIdleStep
  <2>4. CASE \/ CloseClientTunnel \/ CloseServerTunnel
             \/ ClientDrops \/ ClientReconnects \/ ServerDrops \/ ServerGivesUp
    BY <1>1, <2>4, ConnectionStep
  <2>5. CASE UNCHANGED vars
    <3>1. UNCHANGED <<tcpVars, t1, t2, stop, last, tun, chan, inbox, cur>>
      BY <2>5 DEF vars, tcpVars
    <3>2. QED
      BY <1>1, <3>1, QuietElsewhere, StillStep DEF ReceiverOK
  <2>6. QED
    BY <2>1, <2>2, <2>3, <2>4, <2>5 DEF Next
<1>3. QED
  BY <1>1, <1>2, PumpStep DEF IInv, ReceiverOK

LEMMA IInvInit == Init => IInv
<1> SUFFICES ASSUME Init PROVE IInv
  OBVIOUS
<1>1. TypeOK
  BY InitType
<1>2. ASSUME NEW e \in End PROVE PumpInv(e)
  BY <1>2 DEF Init, PumpInv, End
<1>3. ASSUME NEW e \in End
      PROVE  /\ last[e] = NoSequence /\ written[e] = <<>> /\ ~stop[e]
             /\ Hand(e) = <<>> /\ inbox[e] = <<>> /\ chan[Peer(e)] = <<>>
             /\ Top(Peer(e)) = 0
  BY <1>3, PeerFacts DEF Init, Hand, Top
<1>4. \A g, top, l, floor : Path(<<>>, <<>>, <<>>, g, top, l, floor)
  BY DEF Path, PathOrder, Sorted, Crossed, AllFit
<1>5. ASSUME NEW e \in End PROVE PathInv(e)
  BY <1>3, <1>4 DEF PathInv
<1>6. ASSUME NEW e \in End PROVE ReceiverInv(e)
  <2>1. last[e] <= Top(Peer(e)) /\ ~Gap(e)
    BY <1>3 DEF Gap, NoSequence
  <2>2. Run(<<>>)
    BY DEF Run
  <2>3. QED
    BY <1>3, <2>1, <2>2 DEF ReceiverInv
<1>7. QED
  BY <1>1, <1>2, <1>5, <1>6 DEF IInv

\* The order of every path, what its receiver knows of it, and the types.
THEOREM InductiveInvariant == Spec => []IInv
  BY IInvInit, IInvStep, PTL DEF Spec

-----------------------------------------------------------------------------
(* What it gives *)

\* No chunk is skipped, repeated or reordered.
THEOREM OrderCorrect == Spec => []InOrder
<1>1. IInv => InOrder
  <2> SUFFICES ASSUME IInv, NEW e \in End
               PROVE  /\ \A i \in 1..(Len(written[e]) - 1) :
                            written[e][i + 1] = written[e][i] + 1
                      /\ written[e] # <<>> =>
                            written[e][Len(written[e])] <= got[Peer(e)]
    BY DEF InOrder
  <2>1. ReceiverInv(e)
    BY DEF IInv
  <2>2. QED
    BY <2>1 DEF ReceiverInv, Run, Latest
<1>2. QED
  BY <1>1, InductiveInvariant, PTL

\* A socket that was given data is shut only at the end of the whole stream.
THEOREM EndCorrect == Spec => []EndMeansAll
<1>1. IInv => EndMeansAll
  BY DEF IInv, ReceiverInv, Latest, EndMeansAll
<1>2. QED
  BY <1>1, InductiveInvariant, PTL

\* The message a step processes at e is in hand there, and fits.
LEMMA DeliveredFits ==
    ASSUME IInv, NEW e \in End,
           \/ e = "client" /\ ClientReceives
           \/ e = "server" /\ ServerDelivers
    PROVE  \E m \in Message :
             /\ DeliverToChat(e, m)
             /\ Fits(got[Peer(e)], Top(Peer(e)), last[e], Floor(e), m)
             /\ UNCHANGED <<got, t1>>
<1>1. CASE e = "client" /\ ClientReceives
  <2>1. inbox[e] # <<>> /\ inbox[e] \in Seq(Message)
    BY <1>1, PathNow DEF ClientReceives
  <2>2. /\ Head(inbox[e]) \in Message
        /\ Fits(got[Peer(e)], Top(Peer(e)), last[e], Floor(e), Head(inbox[e]))
    BY <2>1, PathNow, TailFacts, FitQueue DEF Path
  <2>3. QED
    BY <1>1, <2>2 DEF ClientReceives
<1>2. CASE e = "server" /\ ServerDelivers
  <2>1. cur # <<>> /\ Hand(e) = cur /\ cur \in Seq(Message)
    BY <1>2, PathNow DEF ServerDelivers, Hand
  <2>2. /\ Head(cur) \in Message
        /\ Fits(got[Peer(e)], Top(Peer(e)), last[e], Floor(e), Head(cur))
    BY <2>1, PathNow, TailFacts, FitQueue DEF Path
  <2>3. QED
    BY <1>2, <2>2 DEF ServerDelivers
<1>3. QED
  BY <1>1, <1>2

\* Only the processing of a message at e touches what e's socket was given.
LEMMA OnlyDeliveryWrites ==
    ASSUME IInv, [Next]_vars, NEW e \in End,
           ~(e = "client" /\ ClientReceives), ~(e = "server" /\ ServerDelivers)
    PROVE  written'[e] = written[e] /\ outShut'[e] = outShut[e]
<1>1. CASE ClientReceives \/ ServerDelivers
  <2>1. TypeOK'
    BY TypeStep DEF IInv
  <2>2. PICK y \in End : /\ y # e
                          /\ \/ y = "client" /\ ClientReceives
                             \/ y = "server" /\ ServerDelivers
    BY <1>1 DEF End
  <2>3. PICK m \in Message : DeliverToChat(y, m)
    BY <2>2, DeliveredFits
  <2>4. UNCHANGED <<got, t1, t2, tun>>
    BY <1>1 DEF ClientReceives, ServerDelivers
  <2>5. QED
    BY <2>1, <2>2, <2>3, <2>4, DeliverOther DEF Quiet
<1>2. CASE UNCHANGED <<written, outShut>>
  BY <1>2
<1>3. CASE \E x \in End : App(x) \/ Pump(x) \/ T2(x) \/ Arrive(x) \/ Lose(x)
  BY <1>2, <1>3
  DEF App, AppClose, AppReset, Pump, SendStart, ReadChunk, ReadEof, ReadFails,
      T2, Register, PollStop, Arrive, Lose, tcpVars
<1>4. CASE Dispatch \/ ServerSkips \/ CollectRefused
  BY <1>2, <1>4
  DEF Dispatch, DispatchKnown, DispatchNew, DispatchRefuse, DispatchFails,
      ServerSkips, CollectRefused, tcpVars
<1>5. CASE \/ CloseClientTunnel \/ CloseServerTunnel
           \/ ClientDrops \/ ClientReconnects \/ ServerDrops \/ ServerGivesUp
  BY <1>2, <1>5
  DEF CloseClientTunnel, CloseServerTunnel, ClientDrops, ClientReconnects,
      ServerDrops, ServerGivesUp, tcpVars
<1>6. CASE UNCHANGED vars
  BY <1>2, <1>6 DEF vars
<1>7. QED
  BY <1>1, <1>3, <1>4, <1>5, <1>6 DEF Next

\* A pump told to stop writes nothing more, though it is still called.
THEOREM StopCorrect == Spec => StopIsFinal
<1>1. IInv /\ [Next]_vars => [\A e \in End : stop[e] => written'[e] = written[e]]_vars
  <2> SUFFICES ASSUME IInv, [Next]_vars, NEW e \in End, stop[e]
               PROVE  written'[e] = written[e]
    OBVIOUS
  <2>1. CASE \/ e = "client" /\ ClientReceives
             \/ e = "server" /\ ServerDelivers
    <3>1. PICK m \in Message :
            /\ DeliverToChat(e, m)
            /\ Fits(got[Peer(e)], Top(Peer(e)), last[e], Floor(e), m)
      BY <2>1, DeliveredFits
    <3>2. ASSUME WriteChunk(e, m), Accepts(last[e], m.seq) PROVE FALSE
      <4>1. Gap(e)
        BY <3>2 DEF WriteChunk, Gap
      <4>2. QED
        BY <3>1, <3>2, <4>1, GapRefuses
    <3>3. QED
      BY <3>1, <3>2 DEF DeliverToChat, ProcessMessage, ShutdownOutput, StopOnly
  <2>2. CASE ~(e = "client" /\ ClientReceives) /\ ~(e = "server" /\ ServerDelivers)
    BY <2>2, OnlyDeliveryWrites
  <2>3. QED
    BY <2>1, <2>2
<1>2. QED
  BY <1>1, InductiveInvariant, PTL DEF Spec, StopIsFinal

-----------------------------------------------------------------------------
(* Each direction implements Pipe. *)

Stream(e) == INSTANCE Pipe WITH
    produced <- got[Peer(e)], finished <- t1[Peer(e)] = "done",
    delivered <- written[e], ended <- outShut[e]

\* A chunk that is written follows the one before it, and has been read.
LEMMA WriteDelivers ==
    ASSUME IInv, IInv', NEW e \in End, NEW m \in Message, WriteChunk(e, m),
           UNCHANGED <<got, t1>>
    PROVE  Stream(e)!Deliver
<1> DEFINE w == written[e]
           c == m.chunk
<1>1. /\ w \in Seq(Nat) /\ c \in Nat /\ ~outShut[e] /\ outShut'[e] = outShut[e]
      /\ got[Peer(e)] \in Nat /\ written'[e] = Append(w, c)
  <2>1. TypeOK /\ c \in Nat
    BY DEF IInv, Message
  <2>2. w \in Seq(Nat) /\ got[Peer(e)] \in Nat
    BY <2>1, PathTypes
  <2>3. ~outShut[e] /\ outShut'[e] = outShut[e]
    BY DEF WriteChunk, Writable
  <2>4. written'[e] = Append(w, c)
    BY <2>1 DEF WriteChunk, TypeOK
  <2>5. QED
    BY <2>1, <2>2, <2>3, <2>4
<1>2. ReceiverInv(e)'
  BY DEF IInv
<1> HIDE DEF w, c
<1>3. /\ Append(w, c) # <<>> /\ Len(w) \in Nat /\ Len(Append(w, c)) = Len(w) + 1
      /\ Append(w, c)[Len(w) + 1] = c
      /\ \A i \in 1..Len(w) : Append(w, c)[i] = w[i]
  BY SMTT(30), <1>1
<1>4. c \in 1..got[Peer(e)]
  BY <1>1, <1>2, <1>3 DEF ReceiverInv, Latest
<1>5. w # <<>> => c = w[Len(w)] + 1
  <2>1. Run(Append(w, c))
    BY <1>1, <1>2 DEF ReceiverInv
  <2>2. w # <<>> => Len(w) \in 1..(Len(w) + 1 - 1) /\ Len(w) \in 1..Len(w)
    BY <1>1
  <2>3. QED
    BY <1>3, <2>1, <2>2 DEF Run
<1>6. QED
  BY <1>1, <1>4, <1>5 DEF Stream!Deliver, w, c

\* What e has read, and whether it has read it all, changes only as t1 reads.
LEMMA SourceStill ==
    ASSUME IInv, [Next]_vars, NEW e \in End, ~ReadChunk(e), ~ReadEof(e)
    PROVE  got'[e] = got[e] /\ (t1'[e] = "done" <=> t1[e] = "done")
<1>1. CASE UNCHANGED <<got, t1>>
  BY <1>1
<1> USE DEF IInv
<1>2. ASSUME NEW x \in End, Pump(x)
      PROVE  got'[e] = got[e] /\ (t1'[e] = "done" <=> t1[e] = "done")
  <2>1. CASE SendStart(x)
    BY <2>1 DEF SendStart, Sends, tcpVars, TypeOK
  <2>2. CASE ReadFails(x)
    BY <2>2 DEF ReadFails, tcpVars, TypeOK
  <2>3. CASE x # e /\ ReadChunk(x)
    BY <2>3 DEF ReadChunk, Sends, TypeOK
  <2>4. CASE x # e /\ ReadEof(x)
    BY <2>4 DEF ReadEof, Sends, tcpVars, TypeOK
  <2>5. QED
    BY <1>2, <2>1, <2>2, <2>3, <2>4 DEF Pump
<1>3. CASE \E x \in End : App(x) \/ T2(x) \/ Arrive(x) \/ Lose(x)
  BY <1>1, <1>3
  DEF App, AppClose, AppReset, T2, Register, PollStop, Arrive, Lose, tcpVars, pumpVars
<1>4. CASE ClientReceives \/ ServerDelivers \/ ServerSkips \/ CollectRefused
  BY <1>1, <1>4
  DEF ClientReceives, ServerDelivers, ServerSkips, CollectRefused, tcpVars, pumpVars
<1>5. CASE DispatchNew
  BY <1>5 DEF DispatchNew, PumpInv, tcpVars, TypeOK, End
<1>6. CASE DispatchKnown \/ DispatchRefuse \/ DispatchFails
  BY <1>1, <1>6 DEF DispatchKnown, DispatchRefuse, DispatchFails, tcpVars, pumpVars
<1>7. CASE \/ CloseClientTunnel \/ CloseServerTunnel
           \/ ClientDrops \/ ClientReconnects \/ ServerDrops \/ ServerGivesUp
  BY <1>1, <1>7
  DEF CloseClientTunnel, CloseServerTunnel, ClientDrops, ClientReconnects,
      ServerDrops, ServerGivesUp, tcpVars, pumpVars
<1>8. CASE UNCHANGED vars
  BY <1>1, <1>8 DEF vars
<1>9. QED
  BY <1>2, <1>3, <1>4, <1>5, <1>6, <1>7, <1>8 DEF Next, Dispatch

\* Every step of the tunnel is one of the pipe into e, or none.
LEMMA StreamStep ==
    ASSUME IInv, [Next]_vars, NEW e \in End
    PROVE  [Stream(e)!Next]_(Stream(e)!vars)
<1>1. TypeOK /\ IInv'
  BY IInvStep DEF IInv
<1>2. CASE \/ e = "client" /\ ClientReceives
           \/ e = "server" /\ ServerDelivers
  <2>1. PICK m \in Message : DeliverToChat(e, m) /\ UNCHANGED <<got, t1>>
    BY <1>2, DeliveredFits
  <2>2. CASE WriteChunk(e, m)
    BY <1>1, <2>1, <2>2, WriteDelivers DEF Stream!Next
  <2>3. CASE ShutdownOutput(e)
    <3>1. /\ ~outShut[e] /\ outShut'[e] = TRUE /\ written'[e] = written[e]
      BY <1>1, <2>3 DEF ShutdownOutput, Writable, TypeOK
    <3>2. ReceiverInv(e)'
      BY <1>1 DEF IInv
    <3>3. QED
      BY <2>1, <3>1, <3>2 DEF ReceiverInv, Latest, Stream!Next, Stream!Shut
  <2>4. CASE UNCHANGED <<written, outShut>>
    BY <2>1, <2>4 DEF Stream!vars
  <2>5. QED
    BY <2>1, <2>2, <2>3, <2>4 DEF DeliverToChat, ProcessMessage, StopOnly
<1>3. CASE ~(e = "client" /\ ClientReceives) /\ ~(e = "server" /\ ServerDelivers)
  <2>1. written'[e] = written[e] /\ outShut'[e] = outShut[e]
    BY <1>3, OnlyDeliveryWrites
  <2>2. CASE ReadChunk(Peer(e))
    <3>1. /\ t1[Peer(e)] = "read" /\ got'[Peer(e)] = got[Peer(e)] + 1
          /\ t1'[Peer(e)] \in {"read", "failed"}
      BY <1>1, <2>2, PeerFacts DEF ReadChunk, Sends, TypeOK
    <3>2. QED
      BY <2>1, <3>1 DEF Stream!Next, Stream!Produce
  <2>3. CASE ReadEof(Peer(e))
    <3>1. /\ t1[Peer(e)] = "read" /\ got' = got
          /\ t1'[Peer(e)] \in {"done", "failed"}
      BY <1>1, <2>3, PeerFacts DEF ReadEof, Sends, TypeOK, tcpVars
    <3>2. QED
      BY <2>1, <3>1 DEF Stream!Next, Stream!Finish, Stream!vars
  <2>4. CASE ~ReadChunk(Peer(e)) /\ ~ReadEof(Peer(e))
    <3>1. got'[Peer(e)] = got[Peer(e)]
          /\ (t1'[Peer(e)] = "done" <=> t1[Peer(e)] = "done")
      BY <1>1, <2>4, PeerFacts, SourceStill
    <3>2. QED
      BY <2>1, <3>1 DEF Stream!vars
  <2>5. QED
    BY <2>2, <2>3, <2>4
<1>4. QED
  BY <1>2, <1>3

\* The client's socket is the far end of a pipe from the server's.
THEOREM DownstreamImplementsPipe == Spec => DownstreamIsPipe
<1>1. "client" \in End /\ Peer("client") = "server"
  BY DEF End, Peer
<1>2. Init => Downstream!Init
  BY DEF Init, Downstream!Init, End
<1>3. IInv /\ [Next]_vars => [Downstream!Next]_(Downstream!vars)
  BY <1>1, StreamStep
  DEF Stream!Next, Stream!Produce, Stream!Finish, Stream!Deliver, Stream!Shut,
      Stream!vars, Downstream!Next, Downstream!Produce, Downstream!Finish,
      Downstream!Deliver, Downstream!Shut, Downstream!vars
<1>4. QED
  BY <1>2, <1>3, InductiveInvariant, PTL DEF Spec, DownstreamIsPipe, Downstream!Spec

\* The server's socket is the far end of a pipe from the client's.
THEOREM UpstreamImplementsPipe == Spec => UpstreamIsPipe
<1>1. "server" \in End /\ Peer("server") = "client"
  BY DEF End, Peer
<1>2. Init => Upstream!Init
  BY DEF Init, Upstream!Init, End
<1>3. IInv /\ [Next]_vars => [Upstream!Next]_(Upstream!vars)
  BY <1>1, StreamStep
  DEF Stream!Next, Stream!Produce, Stream!Finish, Stream!Deliver, Stream!Shut,
      Stream!vars, Upstream!Next, Upstream!Produce, Upstream!Finish,
      Upstream!Deliver, Upstream!Shut, Upstream!vars
<1>4. QED
  BY <1>2, <1>3, InductiveInvariant, PTL DEF Spec, UpstreamIsPipe, Upstream!Spec

-----------------------------------------------------------------------------
(* A stream loses its head only with a message that is lost. *)

Silent == {"none", "start", "failed"}

\* What is added to a queue is its first message only if it was empty.
LEMMA FirstOfAppend ==
    ASSUME NEW q \in Seq(Message), NEW m \in Message
    PROVE  /\ Append(q, m) # <<>>
           /\ q # <<>> => Append(q, m)[1] = q[1]
           /\ q = <<>> => Append(q, m)[1] = m
<1>1. Len(Append(q, m)) = Len(q) + 1 /\ Len(q) \in Nat
  BY AppendFacts
<1>2. Append(q, m) # <<>>
  BY <1>1
<1>3. ASSUME q # <<>> PROVE Append(q, m)[1] = q[1]
  <2>1. 1 \in 1..Len(q)
    BY <1>3, <1>1
  <2>2. QED
    BY <2>1, AppendFacts
<1>4. ASSUME q = <<>> PROVE Append(q, m)[1] = m
  <2>1. Len(q) = 0
    BY <1>4
  <2>2. QED
    BY <2>1, AppendFacts
<1>5. QED
  BY <1>2, <1>3, <1>4

\* Nothing on the path to x moves.
LEMMA FirstStays ==
    ASSUME NEW x \in End, StartFirst(x), lost[x] => lost'[x], last'[x] = last[x],
           Hand(x)' = Hand(x), inbox'[x] = inbox[x], chan'[Peer(x)] = chan[Peer(x)],
           t1[Peer(x)] \in Silent => t1'[Peer(x)] \in Silent
    PROVE  StartFirst(x)'
  BY DEF StartFirst, Silent

\* A message is sent to x, numbered 0 if none was before.
LEMMA FirstSent ==
    ASSUME NEW x \in End, StartFirst(x), lost[x] => lost'[x], last'[x] = last[x],
           Hand(x)' = Hand(x), inbox'[x] = inbox[x],
           NEW m \in Message, chan[Peer(x)] \in Seq(Message),
           chan'[Peer(x)] = Append(chan[Peer(x)], m),
           chan[Peer(x)] = <<>> /\ t1[Peer(x)] \in Silent => m.seq = 0
    PROVE  StartFirst(x)'
<1>1. /\ chan'[Peer(x)] # <<>>
      /\ chan[Peer(x)] # <<>> => chan'[Peer(x)][1] = chan[Peer(x)][1]
      /\ chan[Peer(x)] = <<>> => chan'[Peer(x)][1] = m
  BY FirstOfAppend
<1>2. QED
  BY <1>1 DEF StartFirst, Silent

\* The first message on the way to x joins its queue.
LEMMA FirstArrives ==
    ASSUME NEW x \in End, StartFirst(x), lost[x] => lost'[x], last'[x] = last[x],
           Hand(x)' = Hand(x), inbox[x] \in Seq(Message),
           chan[Peer(x)] \in Seq(Message), chan[Peer(x)] # <<>>,
           inbox'[x] = Append(inbox[x], Head(chan[Peer(x)]))
    PROVE  StartFirst(x)'
<1> DEFINE m == Head(chan[Peer(x)])
<1>1. m = chan[Peer(x)][1] /\ m \in Message
  BY TailFacts
<1> HIDE DEF m
<1>2. /\ inbox'[x] # <<>>
      /\ inbox[x] # <<>> => inbox'[x][1] = inbox[x][1]
      /\ inbox[x] = <<>> => inbox'[x][1] = m
  BY <1>1, FirstOfAppend DEF m
<1>3. QED
  BY <1>1, <1>2 DEF StartFirst

\* The server's callback thread takes the first message in hand.
LEMMA FirstTaken ==
    ASSUME TypeOK, StartFirst("server"), Take, UNCHANGED <<last, lost>>
    PROVE  StartFirst("server")'
<1>1. /\ Hand("server") = <<>> /\ Hand("server")' = <<Head(inbox["server"])>>
      /\ inbox["server"] # <<>> /\ inbox["server"] \in Seq(Message)
  BY DEF Take, Hand, TypeOK, End
<1>2. Head(inbox["server"]) = inbox["server"][1]
  BY <1>1, TailFacts
<1>3. QED
  BY <1>1, <1>2 DEF StartFirst

\* A message is lost, or one is accepted: no first message is awaited.
LEMMA FirstGone ==
    ASSUME NEW x \in End, lost'[x] \/ last'[x] # NoSequence
    PROVE  StartFirst(x)'
  BY DEF StartFirst

\* A connection goes down with its last messages.
LEMMA FirstKept ==
    ASSUME TypeOK, NEW x \in End, StartFirst(x), UNCHANGED <<inbox, cur, last, t1>>,
           NEW e \in End, NEW k \in 0..Len(chan[e]), KeepSent(e, k)
    PROVE  StartFirst(x)'
<1>1. /\ Hand(x)' = Hand(x) /\ chan[e] \in Seq(Message) /\ chan \in [End -> Seq(Message)]
      /\ lost \in [End -> BOOLEAN]
  BY DEF Hand, TypeOK
<1>2. CASE k < Len(chan[e])
  <2>1. lost'[Peer(e)] = TRUE /\ \A y \in End : lost[y] => lost'[y]
    BY <1>1, <1>2, PeerFacts DEF KeepSent
  <2>2. CASE x = Peer(e)
    BY <2>1, <2>2, FirstGone
  <2>3. CASE x # Peer(e)
    <3>1. chan'[Peer(x)] = chan[Peer(x)]
      BY <1>1, <2>3, PeerFacts DEF KeepSent
    <3>2. QED
      BY <1>1, <2>1, <3>1, FirstStays
  <2>4. QED
    BY <2>2, <2>3
<1>3. CASE ~(k < Len(chan[e]))
  <2>1. k = Len(chan[e])
    BY <1>1, <1>3
  <2>2. SubSeq(chan[e], 1, k) = chan[e]
    BY <1>1, <2>1
  <2>3. chan' = chan /\ lost' = lost
    BY <1>1, <1>3, <2>2 DEF KeepSent
  <2>4. QED
    BY <1>1, <2>3, FirstStays
<1>4. QED
  BY <1>2, <1>3

\* t1 begins with number 0; it goes on only when that was sent.
LEMMA FirstPumped ==
    ASSUME IInv, NEW x \in End, StartFirst(x), NEW e \in End, Pump(e)
    PROVE  StartFirst(x)'
<1>1. /\ TypeOK /\ PumpInv(e) /\ chan \in [End -> Seq(Message)]
      /\ t1 \in [End -> {"none", "start", "read", "done", "failed"}]
      /\ sequence[e] \in Nat /\ got[e] \in Nat
  BY DEF IInv, TypeOK
<1>2. UNCHANGED <<inbox, cur, last, lost>> /\ Hand(x)' = Hand(x)
  BY DEF Pump, SendStart, ReadChunk, ReadEof, ReadFails, tcpVars, xmppVars, Hand
<1>3. CASE e # Peer(x)
  <2>1. chan'[Peer(x)] = chan[Peer(x)] /\ t1'[Peer(x)] = t1[Peer(x)]
    BY <1>1, <1>3, PeerFacts
    DEF Pump, SendStart, ReadChunk, ReadEof, ReadFails, Sends, tcpVars, xmppVars
  <2>2. QED
    BY <1>2, <2>1, FirstStays
<1>4. CASE e = Peer(x) /\ ReadFails(e)
  <2>1. chan' = chan /\ t1'[e] = "failed"
    BY <1>1, <1>4 DEF ReadFails, xmppVars
  <2>2. QED
    BY <1>2, <1>4, <2>1, FirstStays DEF Silent
<1>5. ASSUME NEW m \in Message, NEW next \in {"read", "done"}, e = Peer(x), Sends(e, m, next),
             t1[e] \in Silent => m.seq = 0
      PROVE  StartFirst(x)'
  <2>1. CASE up[e]
    <3>1. chan'[e] = Append(chan[e], m) /\ chan[e] \in Seq(Message)
      BY <1>1, <1>5, <2>1 DEF Sends
    <3>2. QED
      BY <1>2, <1>5, <3>1, FirstSent
  <2>2. CASE ~up[e]
    <3>1. chan' = chan /\ t1'[e] = "failed"
      BY <1>1, <1>5, <2>2 DEF Sends
    <3>2. QED
      BY <1>2, <1>5, <3>1, FirstStays DEF Silent
  <2>3. QED
    BY <2>1, <2>2
<1>6. CASE e = Peer(x) /\ SendStart(e)
  <2>1. StartMsg(sequence[e]) \in Message /\ StartMsg(sequence[e]).seq = 0
    BY <1>1, <1>6 DEF SendStart, PumpInv, StartMsg, Message
  <2>2. QED
    BY <1>5, <1>6, <2>1 DEF SendStart
<1>7. CASE e = Peer(x) /\ ReadChunk(e)
  <2>1. DataMsg(sequence[e], got[e] + 1) \in Message /\ t1[e] \notin Silent
    BY <1>1, <1>7 DEF ReadChunk, DataMsg, Message, Silent
  <2>2. QED
    BY <1>5, <1>7, <2>1 DEF ReadChunk
<1>8. CASE e = Peer(x) /\ ReadEof(e)
  <2>1. EndMsg(sequence[e]) \in Message /\ t1[e] \notin Silent
    BY <1>1, <1>8 DEF ReadEof, EndMsg, Message, Silent
  <2>2. QED
    BY <1>5, <1>8, <2>1 DEF ReadEof
<1>9. QED
  BY <1>3, <1>4, <1>6, <1>7, <1>8 DEF Pump

\* The server's packet listener: it may send a refusal, numbered 0.
LEMMA FirstDispatched ==
    ASSUME IInv, NEW x \in End, StartFirst(x), Dispatch
    PROVE  StartFirst(x)'
<1>1. /\ TypeOK /\ chan \in [End -> Seq(Message)] /\ inbox \in [End -> Seq(Message)]
      /\ "client" \in End /\ "server" \in End
      /\ Peer("client") = "server" /\ Peer("server") = "client"
      /\ t1 \in [End -> {"none", "start", "read", "done", "failed"}]
  BY DEF IInv, TypeOK, End, Peer
<1>2. Take /\ UNCHANGED <<last, lost>>
  BY DEF Dispatch, DispatchKnown, DispatchNew, DispatchRefuse, DispatchFails, pumpVars
<1>3. CASE x = "server"
  BY <1>1, <1>2, <1>3, FirstTaken
<1>4. CASE x = "client"
  <2>1. Hand(x)' = Hand(x) /\ inbox'[x] = inbox[x]
    BY <1>1, <1>2, <1>4 DEF Hand, Take
  <2>2. CASE DispatchKnown \/ DispatchFails
    BY <1>2, <2>1, <2>2, FirstStays DEF DispatchKnown, DispatchFails, pumpVars
  <2>3. CASE DispatchNew
    BY <1>1, <1>2, <1>4, <2>1, <2>3, FirstStays DEF DispatchNew, Silent
  <2>4. CASE DispatchRefuse
    <3>1. EndMsg(0) \in Message /\ EndMsg(0).seq = 0 /\ t1' = t1
      BY <2>4 DEF EndMsg, Message, DispatchRefuse, pumpVars
    <3>2. CASE up["server"]
      <4>1. chan'["server"] = Append(chan["server"], EndMsg(0))
        BY <1>1, <2>4, <3>2 DEF DispatchRefuse
      <4>2. QED
        BY <1>1, <1>2, <1>4, <2>1, <3>1, <4>1, FirstSent
    <3>3. CASE ~up["server"]
      BY <1>2, <2>1, <2>4, <3>1, <3>3, FirstStays DEF DispatchRefuse
    <3>4. QED
      BY <3>2, <3>3
  <2>5. QED
    BY <2>2, <2>3, <2>4 DEF Dispatch
<1>5. QED
  BY <1>3, <1>4 DEF End

\* Steps that give x nothing to process.
LEMMA FirstElsewhere ==
    ASSUME IInv, [Next]_vars, NEW x \in End, StartFirst(x),
           ~(x = "client" /\ ClientReceives), ~(x = "server" /\ ServerDelivers)
    PROVE  StartFirst(x)'
<1>1. /\ TypeOK /\ chan \in [End -> Seq(Message)] /\ inbox \in [End -> Seq(Message)]
      /\ lost \in [End -> BOOLEAN] /\ last \in [End -> Nat \cup {NoSequence}]
      /\ "client" \in End /\ "server" \in End
  BY DEF IInv, TypeOK, End
<1>2. CASE UNCHANGED <<chan, inbox, cur, t1, last, lost>>
  BY <1>2, FirstStays DEF Hand
<1>3. CASE ClientReceives \/ ServerDelivers
  <2>1. PICK y \in End : /\ y # x
                         /\ \/ y = "client" /\ ClientReceives
                            \/ y = "server" /\ ServerDelivers
    BY <1>3 DEF End
  <2>2. PICK m \in Message : DeliverToChat(y, m)
    BY <2>1, DeliveredFits
  <2>3. last'[x] = last[x] /\ lost'[x] = lost[x]
    <3>1. CASE Registered(y)
      BY <1>1, <2>1, <2>2, <3>1 DEF DeliverToChat, ProcessMessage
    <3>2. CASE ~Registered(y)
      BY <1>1, <2>1, <2>2, <3>2 DEF DeliverToChat
    <3>3. QED
      BY <3>1, <3>2
  <2>4. /\ Hand(x)' = Hand(x) /\ inbox'[x] = inbox[x]
        /\ UNCHANGED <<chan, t1>>
    BY <1>1, <2>1 DEF ClientReceives, ServerDelivers, Hand
  <2>5. QED
    BY <2>3, <2>4, FirstStays
<1>4. ASSUME NEW e \in End, App(e) \/ T2(e)
      PROVE  StartFirst(x)'
  BY <1>2, <1>4 DEF App, AppClose, AppReset, T2, Register, PollStop, pumpVars, xmppVars
<1>5. ASSUME NEW e \in End, Arrive(e)
      PROVE  StartFirst(x)'
  <2>1. UNCHANGED <<last, lost, t1>> /\ Hand(x)' = Hand(x)
    BY <1>5 DEF Arrive, pumpVars, Hand
  <2>2. CASE x = e
    <3>1. /\ inbox'[x] = Append(inbox[x], Head(chan[Peer(x)])) /\ chan[Peer(x)] # <<>>
          /\ inbox[x] \in Seq(Message) /\ chan[Peer(x)] \in Seq(Message)
      BY <1>1, <1>5, <2>2, PeerFacts DEF Arrive
    <3>2. QED
      BY <2>1, <3>1, FirstArrives
  <2>3. CASE x # e
    <3>1. chan'[Peer(x)] = chan[Peer(x)] /\ inbox'[x] = inbox[x]
      BY <1>1, <1>5, <2>3, PeerFacts DEF Arrive
    <3>2. QED
      BY <2>1, <3>1, FirstStays
  <2>4. QED
    BY <2>2, <2>3
<1>6. ASSUME NEW e \in End, Lose(e)
      PROVE  StartFirst(x)'
  <2>1. UNCHANGED <<last, t1, inbox>> /\ Hand(x)' = Hand(x)
    BY <1>6 DEF Lose, pumpVars, Hand
  <2>2. CASE x = Peer(e)
    <3>1. lost'[x]
      BY <1>1, <1>6, <2>2 DEF Lose
    <3>2. QED
      BY <3>1, FirstGone
  <2>3. CASE x # Peer(e)
    <3>1. chan'[Peer(x)] = chan[Peer(x)] /\ lost'[x] = lost[x]
      BY <1>1, <1>6, <2>3, PeerFacts DEF Lose
    <3>2. QED
      BY <2>1, <3>1, FirstStays
  <2>4. QED
    BY <2>2, <2>3
<1>7. CASE ServerSkips
  <2>1. CASE x = "server"
    <3>1. lost'[x]
      BY <1>1, <1>7, <2>1 DEF ServerSkips
    <3>2. QED
      BY <3>1, FirstGone
  <2>2. CASE x # "server"
    <3>1. /\ lost'[x] = lost[x] /\ Hand(x)' = Hand(x)
          /\ UNCHANGED <<chan, inbox, t1, last>>
      BY <1>1, <1>7, <2>2 DEF ServerSkips, Hand, pumpVars
    <3>2. QED
      BY <3>1, FirstStays
  <2>3. QED
    BY <2>1, <2>2
<1>8. CASE CollectRefused \/ ClientReconnects \/ CloseServerTunnel \/ UNCHANGED vars
  BY <1>2, <1>8
  DEF CollectRefused, ClientReconnects, CloseServerTunnel, pumpVars, xmppVars, vars
<1>9. CASE CloseClientTunnel
  BY <1>1, <1>9, FirstKept DEF CloseClientTunnel
<1>10. CASE ClientDrops
  BY <1>1, <1>10, FirstKept DEF ClientDrops, pumpVars
<1>11. CASE ServerDrops
  BY <1>1, <1>11, FirstKept DEF ServerDrops, pumpVars
<1>12. CASE ServerGivesUp
  BY <1>1, <1>12, FirstKept DEF ServerGivesUp, pumpVars
<1>13. QED
  BY <1>3, <1>4, <1>5, <1>6, <1>7, <1>8, <1>9, <1>10, <1>11, <1>12,
     FirstPumped, FirstDispatched DEF Next

\* Nor is anything written there, or made writable that had accepted a message.
LEMMA HeadElsewhere ==
    ASSUME IInv, [Next]_vars, NEW x \in End, HeadToCome(x), HeadWritten(x),
           ~(x = "client" /\ ClientReceives), ~(x = "server" /\ ServerDelivers)
    PROVE  HeadToCome(x)' /\ HeadWritten(x)'
<1>1. /\ TypeOK /\ tun \in [End -> {"absent", "running", "closed"}]
      /\ lost \in [End -> BOOLEAN] /\ last \in [End -> Nat \cup {NoSequence}]
      /\ app \in [End -> {"open", "closed", "reset"}]
      /\ "client" \in End /\ "server" \in End
  BY DEF IInv, TypeOK, End
<1>2. written'[x] = written[x] /\ outShut'[x] = outShut[x]
  BY OnlyDeliveryWrites
<1>3. ASSUME last'[x] = last[x], lost[x] => lost'[x],
             app[x] = "reset" => app'[x] = "reset",
             tun'[x] = "running" => tun[x] = "running" \/ last[x] = NoSequence
      PROVE  HeadToCome(x)' /\ HeadWritten(x)'
  BY <1>2, <1>3 DEF HeadToCome, HeadWritten, Writable
<1>4. CASE UNCHANGED <<last, app, tun, lost>>
  BY <1>3, <1>4
<1>5. CASE ClientReceives \/ ServerDelivers
  <2>1. PICK y \in End : /\ y # x
                         /\ \/ y = "client" /\ ClientReceives
                            \/ y = "server" /\ ServerDelivers
    BY <1>5 DEF End
  <2>2. PICK m \in Message : DeliverToChat(y, m)
    BY <2>1, DeliveredFits
  <2>3. last'[x] = last[x] /\ lost'[x] = lost[x] /\ app'[x] = app[x]
    <3>1. CASE Registered(y)
      BY <1>1, <2>1, <2>2, <3>1
      DEF DeliverToChat, ProcessMessage, WriteChunk, ShutdownOutput, StopOnly
    <3>2. CASE ~Registered(y)
      BY <1>1, <2>1, <2>2, <3>2 DEF DeliverToChat
    <3>3. QED
      BY <3>1, <3>2
  <2>4. tun' = tun
    BY <1>5 DEF ClientReceives, ServerDelivers
  <2>5. QED
    BY <1>3, <2>3, <2>4
<1>6. ASSUME NEW e \in End, App(e)
      PROVE  HeadToCome(x)' /\ HeadWritten(x)'
  <2>1. UNCHANGED <<last, lost, tun>> /\ (app[x] = "reset" => app'[x] = "reset")
    BY <1>1, <1>6 DEF App, AppClose, AppReset, pumpVars, xmppVars
  <2>2. QED
    BY <1>3, <2>1
<1>7. ASSUME NEW e \in End, Pump(e) \/ T2(e) \/ Arrive(e)
      PROVE  HeadToCome(x)' /\ HeadWritten(x)'
  BY <1>4, <1>7
  DEF Pump, SendStart, ReadChunk, ReadEof, ReadFails, T2, Register, PollStop, Arrive,
      tcpVars, pumpVars, xmppVars
<1>8. ASSUME NEW e \in End, Lose(e)
      PROVE  HeadToCome(x)' /\ HeadWritten(x)'
  <2>1. UNCHANGED <<last, app, tun>> /\ (lost[x] => lost'[x])
    BY <1>1, <1>8, PeerFacts DEF Lose, tcpVars, pumpVars
  <2>2. QED
    BY <1>3, <2>1
<1>9. CASE DispatchNew
  <2>1. UNCHANGED <<last, lost, app>> /\ tun' = [tun EXCEPT !["server"] = "running"]
    BY <1>9 DEF DispatchNew, tcpVars
  <2>2. x = "server" => last[x] = NoSequence
    <3>1. t2["server"] = "none"
      BY <1>1, <1>9 DEF DispatchNew, IInv, PumpInv
    <3>2. QED
      BY <1>1, <3>1 DEF IInv, ReceiverInv, Registered
  <2>3. QED
    BY <1>1, <1>3, <2>1, <2>2
<1>10. CASE DispatchKnown \/ DispatchRefuse \/ DispatchFails \/ CollectRefused
  BY <1>4, <1>10
  DEF DispatchKnown, DispatchRefuse, DispatchFails, CollectRefused, tcpVars, pumpVars
<1>11. CASE ServerSkips
  <2>1. UNCHANGED <<last, app, tun>> /\ (lost[x] => lost'[x])
    BY <1>1, <1>11 DEF ServerSkips, tcpVars, pumpVars
  <2>2. QED
    BY <1>3, <2>1
<1>12. CASE CloseServerTunnel
  <2>1. UNCHANGED <<last, lost, app>> /\ tun' = [tun EXCEPT !["server"] = "closed"]
    BY <1>12 DEF CloseServerTunnel, tcpVars, xmppVars
  <2>2. QED
    BY <1>1, <1>3, <2>1
<1>13. ASSUME NEW e \in End, NEW k \in 0..Len(chan[e]), KeepSent(e, k)
       PROVE  lost[x] => lost'[x]
  BY <1>1, <1>13, PeerFacts DEF KeepSent
<1>14. CASE CloseClientTunnel
  <2>1. UNCHANGED <<last, app>> /\ tun' = [tun EXCEPT !["client"] = "closed"]
    BY <1>14 DEF CloseClientTunnel, tcpVars
  <2>2. lost[x] => lost'[x]
    BY <1>1, <1>13, <1>14 DEF CloseClientTunnel
  <2>3. QED
    BY <1>1, <1>3, <2>1, <2>2
<1>15. CASE ClientDrops \/ ServerDrops \/ ServerGivesUp
  <2>1. UNCHANGED <<last, app, tun>>
    BY <1>15 DEF ClientDrops, ServerDrops, ServerGivesUp, tcpVars, pumpVars
  <2>2. lost[x] => lost'[x]
    BY <1>1, <1>13, <1>15 DEF ClientDrops, ServerDrops, ServerGivesUp
  <2>3. QED
    BY <1>3, <2>1, <2>2
<1>16. CASE ClientReconnects \/ UNCHANGED vars
  BY <1>4, <1>16 DEF ClientReconnects, tcpVars, pumpVars, vars
<1>17. QED
  BY <1>5, <1>6, <1>7, <1>8, <1>9, <1>10, <1>11, <1>12, <1>14, <1>15, <1>16
  DEF Next, Dispatch

\* The first message to be accepted is number 0, and so the first chunk to be
\* written is number 1, or one was not written and the socket takes no more.
LEMMA HeadDelivered ==
    ASSUME IInv, NEW x \in End, HeadInv(x), NEW m \in Message, DeliverToChat(x, m),
           Fits(got[Peer(x)], Top(Peer(x)), last[x], Floor(x), m),
           ~lost[x] /\ last[x] = NoSequence => m.seq = 0,
           UNCHANGED <<t2, tun>>
    PROVE  HeadInv(x)'
<1>1. /\ lost \in [End -> BOOLEAN] /\ last \in [End -> Nat \cup {NoSequence}]
      /\ app \in [End -> {"open", "closed", "reset"}] /\ outShut \in [End -> BOOLEAN]
      /\ written \in [End -> Seq(Nat)] /\ m.seq \in Nat /\ m.chunk \in Nat
  BY DEF IInv, TypeOK, Message
<1>2. /\ m.kind = "_start" => m.seq = 0
      /\ m.kind = "data" => m.seq = m.chunk /\ m.seq # 0
      /\ Before(last[x], m.seq)
  BY <1>1 DEF Fits
<1>3. CASE ~Registered(x)
  <2>1. lost'[x]
    BY <1>1, <1>3 DEF DeliverToChat
  <2>2. QED
    BY <2>1 DEF HeadInv, StartFirst, HeadToCome, HeadWritten
<1>4. CASE Registered(x) /\ ~Accepts(last[x], m.seq)
  <2>1. last' = last /\ last[x] # NoSequence /\ UNCHANGED <<written, outShut, app, lost>>
    BY <1>1, <1>4 DEF DeliverToChat, ProcessMessage, CheckSequence, StopOnly, Accepts
  <2>2. QED
    BY <2>1 DEF HeadInv, StartFirst, HeadToCome, HeadWritten, Writable
<1>5. CASE Registered(x) /\ Accepts(last[x], m.seq)
  <2>1. ProcessMessage(x, m) /\ lost' = lost
    BY <1>5 DEF DeliverToChat
  <2>2. last'[x] = m.seq
    BY <1>1, <1>5, <2>1 DEF ProcessMessage, CheckSequence
  <2>3. StartFirst(x)'
    BY <1>1, <2>2, FirstGone DEF NoSequence
  <2>4. CASE m.kind = "_start" /\ UNCHANGED <<written, outShut, app, stop>>
    BY <1>2, <2>1, <2>2, <2>3, <2>4 DEF HeadInv, HeadToCome, HeadWritten
  <2>5. CASE ShutdownOutput(x)
    <3>1. written' = written /\ outShut'[x]
      BY <1>1, <2>5 DEF ShutdownOutput
    <3>2. QED
      BY <2>1, <2>3, <3>1 DEF HeadInv, HeadToCome, HeadWritten, Writable
  <2>6. CASE ~Writable(x) /\ StopOnly(x)
    <3>1. UNCHANGED <<written, outShut, app, tun>> /\ ~Writable(x)
      BY <2>6 DEF StopOnly
    <3>2. ~Writable(x)'
      BY <3>1 DEF Writable
    <3>3. QED
      BY <2>1, <2>3, <3>1, <3>2 DEF HeadInv, HeadToCome, HeadWritten
  <2>7. CASE m.kind = "data" /\ WriteChunk(x, m)
    <3>1. /\ written'[x] = Append(written[x], m.chunk) /\ Writable(x)
          /\ written[x] \in Seq(Nat)
      BY <1>1, <2>7 DEF WriteChunk
    <3>2. /\ written'[x] # <<>>
          /\ written[x] = <<>> => written'[x][1] = m.chunk
          /\ written[x] # <<>> => written'[x][1] = written[x][1]
      <4>1. \A w \in Seq(Nat), c \in Nat :
              /\ Append(w, c) # <<>>
              /\ w = <<>> => Append(w, c)[1] = c
              /\ w # <<>> => Append(w, c)[1] = w[1]
        OBVIOUS
      <4>2. QED
        BY <1>1, <3>1, <4>1
    <3>3. ASSUME ~lost[x], written[x] = <<>>
          PROVE  m.chunk = 1
      <4>1. last[x] \in {NoSequence, 0}
        BY <3>1, <3>3 DEF HeadInv, HeadToCome
      <4>2. m.seq # 0 /\ m.seq = m.chunk /\ last[x] = 0
        BY <1>2, <2>7, <3>3, <4>1
      <4>3. QED
        BY <1>1, <1>5, <4>2 DEF Accepts, NoSequence
    <3>4. QED
      BY <2>1, <2>3, <3>2, <3>3 DEF HeadInv, HeadToCome, HeadWritten
  <2>8. QED
    BY <1>5, <2>1, <2>4, <2>5, <2>6, <2>7 DEF ProcessMessage
<1>6. QED
  BY <1>3, <1>4, <1>5

LEMMA HeadStep ==
    ASSUME IInv, [Next]_vars, NEW x \in End, HeadInv(x)
    PROVE  HeadInv(x)'
<1>1. CASE x = "client" /\ ClientReceives
  <2>1. /\ Hand(x) = <<>> /\ inbox[x] # <<>> /\ inbox[x] \in Seq(Message)
        /\ Head(inbox[x]) = inbox[x][1] /\ Head(inbox[x]) \in Message
    BY <1>1, PathNow, TailFacts DEF ClientReceives, Hand
  <2>2. Fits(got[Peer(x)], Top(Peer(x)), last[x], Floor(x), Head(inbox[x]))
    BY <2>1, PathNow, FitQueue DEF Path
  <2>3. ~lost[x] /\ last[x] = NoSequence => Head(inbox[x]).seq = 0
    BY <2>1 DEF HeadInv, StartFirst
  <2>4. DeliverToChat(x, Head(inbox[x])) /\ UNCHANGED <<t2, tun>>
    BY <1>1 DEF ClientReceives
  <2>5. QED
    BY <2>1, <2>2, <2>3, <2>4, HeadDelivered
<1>2. CASE x = "server" /\ ServerDelivers
  <2>1. /\ Hand(x) = cur /\ cur # <<>> /\ cur \in Seq(Message)
        /\ Head(cur) = cur[1] /\ Head(cur) \in Message
    BY <1>2, PathNow, TailFacts DEF ServerDelivers, Hand
  <2>2. Fits(got[Peer(x)], Top(Peer(x)), last[x], Floor(x), Head(cur))
    BY <2>1, PathNow, FitQueue DEF Path
  <2>3. ~lost[x] /\ last[x] = NoSequence => Head(cur).seq = 0
    BY <2>1 DEF HeadInv, StartFirst
  <2>4. DeliverToChat(x, Head(cur)) /\ UNCHANGED <<t2, tun>>
    BY <1>2 DEF ServerDelivers
  <2>5. QED
    BY <2>1, <2>2, <2>3, <2>4, HeadDelivered
<1>3. CASE ~(x = "client" /\ ClientReceives) /\ ~(x = "server" /\ ServerDelivers)
  BY <1>3, FirstElsewhere, HeadElsewhere DEF HeadInv
<1>4. QED
  BY <1>1, <1>2, <1>3

\* A socket is given the stream from its first chunk, whatever fails, unless a
\* message never reached the pump's listener.
THEOREM HeadCorrect == Spec => []CompleteUnlessLost
<1> DEFINE Heads == \A x \in End : HeadInv(x)
<1>1. Init => Heads
  <2> SUFFICES ASSUME Init, NEW x \in End PROVE HeadInv(x)
    OBVIOUS
  <2>1. /\ last[x] = NoSequence /\ written[x] = <<>> /\ Hand(x) = <<>>
        /\ inbox[x] = <<>> /\ chan[Peer(x)] = <<>>
        /\ t1[Peer(x)] \in {"none", "start", "failed"}
    BY PeerFacts DEF Init, Hand
  <2>2. QED
    BY <2>1 DEF HeadInv, StartFirst, HeadToCome, HeadWritten
<1>2. IInv /\ Heads /\ [Next]_vars => Heads'
  BY HeadStep
<1>3. Heads => CompleteUnlessLost
  BY DEF HeadInv, HeadWritten, CompleteUnlessLost
<1> HIDE DEF Heads
<1>4. QED
  BY <1>1, <1>2, <1>3, InductiveInvariant, PTL DEF Spec
=============================================================================
