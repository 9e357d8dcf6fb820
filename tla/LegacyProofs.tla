---------------------------- MODULE LegacyProofs ----------------------------
(***************************************************************************)
(* Proofs that IInv is an invariant of LegacyTunnel, for both programs,    *)
(* any number of chunks and any faults, and of the properties that follow  *)
(* from it.                                                                *)
(***************************************************************************)
EXTENDS LegacyInv, SequenceTheorems, TLAPS

-----------------------------------------------------------------------------
(* The two ends, and sequences *)

LEMMA Ends ==
    /\ "client" \in End /\ "server" \in End
    /\ Peer("client") = "server" /\ Peer("server") = "client"
    /\ \A e, f \in End : /\ Peer(e) \in End /\ Peer(e) # e /\ Peer(Peer(e)) = e
                         /\ f = e \/ f = Peer(e)
  BY DEF End, Peer

\* The front of a queue and what is left of it.
LEMMA TailFacts ==
    ASSUME NEW S, NEW q \in Seq(S), q # <<>>
    PROVE  /\ Tail(q) \in Seq(S) /\ Len(q) \in Nat /\ Len(q) >= 1
           /\ Len(Tail(q)) = Len(q) - 1
           /\ Head(q) = q[1] /\ Head(q) \in S
           /\ \A i \in 1..Len(Tail(q)) : Tail(q)[i] = q[i + 1]
  OBVIOUS

\* A message joins the end of a queue.
LEMMA AppendFacts ==
    ASSUME NEW S, NEW q \in Seq(S), NEW m \in S
    PROVE  /\ Append(q, m) \in Seq(S) /\ Len(q) \in Nat
           /\ Append(q, m) # <<>>
           /\ Len(Append(q, m)) = Len(q) + 1
           /\ \A i \in 1..Len(q) : Append(q, m)[i] = q[i]
           /\ Append(q, m)[Len(q) + 1] = m
  OBVIOUS

\* A queue loses its end.
LEMMA KeepFacts ==
    ASSUME NEW S, NEW q \in Seq(S), NEW n \in 0..Len(q)
    PROVE  /\ SubSeq(q, 1, n) \in Seq(S) /\ Len(q) \in Nat
           /\ Len(SubSeq(q, 1, n)) = n
           /\ \A i \in 1..n : SubSeq(q, 1, n)[i] = q[i]
  OBVIOUS

LEMMA EmptyFacts ==
    ASSUME NEW S, NEW q \in Seq(S)
    PROVE  /\ Len(q) \in Nat
           /\ q = <<>> <=> Len(q) = 0
           /\ q # <<>> => q[1] \in S /\ q[Len(q)] \in S
  BY EmptySeq

\* A sequence over a set is one over a larger set.
LEMMA SeqGrows ==
    ASSUME NEW S, NEW T, S \subseteq T
    PROVE  Seq(S) \subseteq Seq(T)
  OBVIOUS

-----------------------------------------------------------------------------
(* Runs of consecutive numbers *)

\* What follows the first of a run has the next number.
LEMMA RunTail ==
    ASSUME NEW q \in Runs, q # <<>>
    PROVE  /\ Tail(q) \in Runs /\ Head(q) = q[1] /\ q[1] \in Message
           /\ Tail(q) # <<>> => /\ Tail(q)[1].seq = q[1].seq + 1
                                /\ Tail(q)[Len(Tail(q))] = q[Len(q)]
           /\ Tail(q) = <<>> => q[Len(q)] = q[1]
<1>1. q \in Seq(Message) /\ \A i \in 1..(Len(q) - 1) : q[i + 1].seq = q[i].seq + 1
  BY DEF Runs
<1>2. /\ Tail(q) \in Seq(Message) /\ Len(q) \in Nat /\ Len(q) >= 1
      /\ Len(Tail(q)) = Len(q) - 1
      /\ Head(q) = q[1] /\ Head(q) \in Message
      /\ \A i \in 1..Len(Tail(q)) : Tail(q)[i] = q[i + 1]
  BY <1>1, TailFacts
<1>3. Tail(q) = <<>> <=> Len(Tail(q)) = 0
  BY <1>2, EmptyFacts
<1>4. Tail(q) \in Runs
  <2>1. ASSUME NEW i \in 1..(Len(Tail(q)) - 1)
        PROVE  Tail(q)[i + 1].seq = Tail(q)[i].seq + 1
    <3>1. /\ i \in 1..Len(Tail(q)) /\ i + 1 \in 1..Len(Tail(q))
          /\ i + 1 \in 1..(Len(q) - 1)
      BY <1>2
    <3>2. Tail(q)[i + 1] = q[(i + 1) + 1] /\ Tail(q)[i] = q[i + 1]
      BY <1>2, <3>1
    <3>3. QED
      BY <1>1, <3>1, <3>2
  <2>2. QED
    BY <1>2, <2>1 DEF Runs
<1>5. ASSUME Tail(q) # <<>>
      PROVE  Tail(q)[1].seq = q[1].seq + 1 /\ Tail(q)[Len(Tail(q))] = q[Len(q)]
  <2>1. /\ 1 \in 1..(Len(q) - 1)
        /\ 1 \in 1..Len(Tail(q)) /\ Len(Tail(q)) \in 1..Len(Tail(q))
        /\ Len(Tail(q)) + 1 = Len(q)
    BY <1>2, <1>3, <1>5
  <2>2. Tail(q)[1] = q[1 + 1] /\ Tail(q)[Len(Tail(q))] = q[Len(q)]
    BY <1>2, <2>1
  <2>3. QED
    BY <1>1, <2>1, <2>2
<1>6. Tail(q) = <<>> => q[Len(q)] = q[1]
  BY <1>2, <1>3
<1>7. QED
  BY <1>2, <1>4, <1>5, <1>6

\* The next number goes on with a run.
LEMMA RunAppend ==
    ASSUME NEW q \in Runs, NEW m \in Message, q # <<>> => m.seq = q[Len(q)].seq + 1
    PROVE  /\ Append(q, m) \in Runs /\ Append(q, m) # <<>>
           /\ Append(q, m)[Len(Append(q, m))] = m
           /\ q # <<>> => Append(q, m)[1] = q[1]
           /\ q = <<>> => Append(q, m)[1] = m
<1>1. q \in Seq(Message) /\ \A i \in 1..(Len(q) - 1) : q[i + 1].seq = q[i].seq + 1
  BY DEF Runs
<1>2. /\ Append(q, m) \in Seq(Message) /\ Len(q) \in Nat
      /\ Append(q, m) # <<>>
      /\ Len(Append(q, m)) = Len(q) + 1
      /\ \A i \in 1..Len(q) : Append(q, m)[i] = q[i]
      /\ Append(q, m)[Len(q) + 1] = m
      /\ q = <<>> <=> Len(q) = 0
  BY <1>1, AppendFacts, EmptyFacts
<1>3. ASSUME NEW i \in 1..(Len(Append(q, m)) - 1)
      PROVE  Append(q, m)[i + 1].seq = Append(q, m)[i].seq + 1
  <2>1. i \in 1..Len(q)
    BY <1>2
  <2>2. CASE i = Len(q)
    BY <1>2, <2>1, <2>2
  <2>3. CASE i # Len(q)
    <3>1. i \in 1..(Len(q) - 1) /\ i + 1 \in 1..Len(q)
      BY <1>2, <2>1, <2>3
    <3>2. QED
      BY <1>1, <1>2, <2>1, <3>1
  <2>4. QED
    BY <2>2, <2>3
<1>4. Append(q, m) \in Runs
  BY <1>2, <1>3 DEF Runs
<1>5. q # <<>> => Append(q, m)[1] = q[1]
  BY <1>2
<1>6. QED
  BY <1>2, <1>4, <1>5

\* What is left of a run that is cut off begins as it began.
LEMMA RunKeep ==
    ASSUME NEW q \in Runs, NEW n \in 0..Len(q)
    PROVE  /\ SubSeq(q, 1, n) \in Runs
           /\ SubSeq(q, 1, n) # <<>> => q # <<>> /\ SubSeq(q, 1, n)[1] = q[1]
<1>1. q \in Seq(Message) /\ \A i \in 1..(Len(q) - 1) : q[i + 1].seq = q[i].seq + 1
  BY DEF Runs
<1>2. /\ SubSeq(q, 1, n) \in Seq(Message) /\ Len(q) \in Nat
      /\ Len(SubSeq(q, 1, n)) = n
      /\ \A i \in 1..n : SubSeq(q, 1, n)[i] = q[i]
      /\ q = <<>> <=> Len(q) = 0
  BY <1>1, KeepFacts, EmptyFacts
<1>3. SubSeq(q, 1, n) = <<>> <=> n = 0
  BY <1>2, EmptyFacts
<1>4. ASSUME NEW i \in 1..(Len(SubSeq(q, 1, n)) - 1)
      PROVE  SubSeq(q, 1, n)[i + 1].seq = SubSeq(q, 1, n)[i].seq + 1
  <2>1. i \in 1..n /\ i + 1 \in 1..n /\ i \in 1..(Len(q) - 1)
    BY <1>2
  <2>2. QED
    BY <1>1, <1>2, <2>1
<1>5. SubSeq(q, 1, n) \in Runs
  BY <1>2, <1>4 DEF Runs
<1>6. QED
  BY <1>2, <1>3, <1>5

-----------------------------------------------------------------------------
(* The path of a direction *)

\* What IInv says of the two queues of a direction.
LEMMA Known ==
    ASSUME IInv, NEW e \in End
    PROVE  /\ chan[e] \in Runs /\ inbox[e] \in Runs
           /\ chan[e] \in Seq(Message) /\ inbox[e] \in Seq(Message)
           /\ chan[e] \in Seq(Fit(e)) /\ inbox[e] \in Seq(Fit(Peer(e)))
           /\ up[e] /\ t1[e] # "none" /\ chan[e] # <<>>
                => sequence[e] = chan[e][Len(chan[e])].seq + 1
           /\ Live(Peer(e)) /\ inbox[e] # <<>>
                => Coming(Peer(e)) = inbox[e][Len(inbox[e])].seq + 1
  BY DEF IInv, TypeOK, PathInOrder, MessagesFit, Joins

\* Nothing changes for the receivers when what is to come stays the same.
LEMMA SameToCome ==
    ASSUME IInv, UNCHANGED <<inbox, last, t2, program>>,
           \A f \in End : Live(f)' => Live(f) /\ Coming(f)' = Coming(f),
           \A f \in End : /\ chan'[f] \in Runs
                          /\ up'[f] /\ t1'[f] # "none" /\ chan'[f] # <<>>
                               => sequence'[f] = chan'[f][Len(chan'[f])].seq + 1
    PROVE  PathInOrder' /\ NextIsNext'
<1>1. \A f \in End : Peer(f) \in End
  BY Ends
<1>2. PathInOrder'
  BY <1>1 DEF IInv, PathInOrder, Joins
<1>3. NextIsNext'
  BY <1>1 DEF IInv, NextIsNext, Pumps, Listens
<1>4. QED
  BY <1>2, <1>3

\* A pump sends the number it has reached.
LEMMA SentInOrder ==
    ASSUME IInv, NEW e \in End, NEW m \in Message, m.seq = sequence[e],
           t1[e] # "none", t1'[e] # "none", \A f \in End : f # e => t1'[f] = t1[f],
           sequence' = [sequence EXCEPT ![e] = @ + 1],
           chan' = IF up[e] THEN [chan EXCEPT ![e] = Append(@, m)] ELSE chan,
           UNCHANGED <<inbox, up, t2, last, program>>
    PROVE  PathInOrder' /\ NextIsNext'
<1>1. /\ chan \in [End -> Seq(Message)] /\ sequence \in [End -> Nat]
      /\ up \in [End -> BOOLEAN]
  BY DEF IInv, TypeOK
<1>2. /\ sequence'[e] = sequence[e] + 1
      /\ \A f \in End : f # e => sequence'[f] = sequence[f] /\ chan'[f] = chan[f]
      /\ up[e] => chan'[e] = Append(chan[e], m)
      /\ ~up[e] => chan'[e] = chan[e]
  BY <1>1
<1>3. ASSUME up[e]
      PROVE  /\ chan'[e] \in Runs /\ chan'[e] # <<>>
             /\ chan'[e][Len(chan'[e])] = m
             /\ chan[e] # <<>> => chan'[e][1] = chan[e][1]
             /\ chan[e] = <<>> => chan'[e][1] = m
  <2>1. chan[e] # <<>> => m.seq = chan[e][Len(chan[e])].seq + 1
    BY <1>3, Known
  <2>2. QED
    BY <1>2, <1>3, <2>1, Known, RunAppend
<1>4. ASSUME NEW f \in End, Live(f)'
      PROVE  Live(f) /\ Coming(f)' = Coming(f)
  <2>1. CASE f # e
    BY <1>2, <1>4, <2>1 DEF Live, Coming
  <2>2. CASE f = e /\ up[e]
    BY <1>2, <1>3, <1>4, <2>2 DEF Live, Coming
  <2>3. CASE f = e /\ ~up[e]
    BY <1>2, <1>4, <2>3 DEF Live, Coming
  <2>4. QED
    BY <2>1, <2>2, <2>3
<1>5. ASSUME NEW f \in End
      PROVE  /\ chan'[f] \in Runs
             /\ up'[f] /\ t1'[f] # "none" /\ chan'[f] # <<>>
                  => sequence'[f] = chan'[f][Len(chan'[f])].seq + 1
  <2>1. CASE f # e
    BY <1>2, <2>1, Known
  <2>2. CASE f = e /\ up[e]
    BY <1>2, <1>3, <2>2
  <2>3. CASE f = e /\ ~up[e]
    BY <1>2, <2>3, Known
  <2>4. QED
    BY <2>1, <2>2, <2>3
<1>6. QED
  BY <1>4, <1>5, SameToCome

\* A connection ends and keeps the first of what it was to send.
LEMMA CutInOrder ==
    ASSUME IInv, NEW e \in End, NEW n \in 0..Len(chan[e]),
           chan' = chan \/ chan' = [chan EXCEPT ![e] = SubSeq(@, 1, n)],
           up' = [up EXCEPT ![e] = FALSE],
           UNCHANGED <<inbox, t1, sequence, t2, last, program>>
    PROVE  PathInOrder' /\ NextIsNext'
<1>1. /\ up'[e] = FALSE
      /\ chan'[e] = chan[e] \/ chan'[e] = SubSeq(chan[e], 1, n)
      /\ \A f \in End : f # e => up'[f] = up[f] /\ chan'[f] = chan[f]
  BY DEF IInv, TypeOK
<1>2. /\ chan'[e] \in Runs
      /\ chan'[e] # <<>> => chan[e] # <<>> /\ chan'[e][1] = chan[e][1]
  <2>1. CASE chan'[e] = chan[e]
    BY <2>1, Known
  <2>2. CASE chan'[e] = SubSeq(chan[e], 1, n)
    BY <2>2, Known, RunKeep
  <2>3. QED
    BY <1>1, <2>1, <2>2
<1>3. ASSUME NEW f \in End, Live(f)'
      PROVE  Live(f) /\ Coming(f)' = Coming(f)
  <2>1. CASE f = e
    BY <1>1, <1>2, <1>3, <2>1 DEF Live, Coming
  <2>2. CASE f # e
    BY <1>1, <1>3, <2>2 DEF Live, Coming
  <2>3. QED
    BY <2>1, <2>2
<1>4. ASSUME NEW f \in End
      PROVE  /\ chan'[f] \in Runs
             /\ up'[f] /\ t1'[f] # "none" /\ chan'[f] # <<>>
                  => sequence'[f] = chan'[f][Len(chan'[f])].seq + 1
  <2>1. CASE f = e
    BY <1>1, <1>2, <2>1
  <2>2. CASE f # e
    BY <1>1, <2>2, Known
  <2>3. QED
    BY <2>1, <2>2
<1>5. QED
  BY <1>3, <1>4, SameToCome

\* The first message of a queue is taken from it.
LEMMA TakenInOrder ==
    ASSUME IInv, NEW e \in End, inbox[e] # <<>>,
           inbox' = [inbox EXCEPT ![e] = Tail(@)],
           UNCHANGED <<chan, up, t1, sequence>>
    PROVE  PathInOrder'
<1>1. /\ inbox'[e] = Tail(inbox[e])
      /\ \A f \in End : f # e => inbox'[f] = inbox[f]
  BY DEF IInv, TypeOK
<1>2. /\ inbox'[e] \in Runs
      /\ inbox'[e] # <<>> => inbox'[e][Len(inbox'[e])] = inbox[e][Len(inbox[e])]
  BY <1>1, Known, RunTail
<1>3. ASSUME NEW f \in End
      PROVE  /\ chan'[f] \in Runs /\ inbox'[f] \in Runs
             /\ up'[f] /\ t1'[f] # "none" => Joins(chan[f], sequence[f])
             /\ Live(Peer(f)) /\ inbox'[f] # <<>>
                  => Coming(Peer(f)) = inbox'[f][Len(inbox'[f])].seq + 1
  BY <1>1, <1>2, Known DEF Joins
<1>4. QED
  BY <1>3 DEF PathInOrder, Joins, Live, Coming

\* The first message on the way joins the queue of the receiver.
LEMMA ArrivedInOrder ==
    ASSUME IInv, NEW e \in End, NEW p \in End, p = Peer(e), chan[p] # <<>>,
           chan' = [chan EXCEPT ![p] = Tail(@)],
           inbox' = [inbox EXCEPT ![e] = Append(@, Head(chan[p]))],
           UNCHANGED <<up, t1, sequence, t2, last, program>>
    PROVE  PathInOrder' /\ NextIsNext'
<1> DEFINE m == chan[p][1]
<1>1. /\ p # e /\ Peer(p) = e
      /\ \A f \in End : f = e \/ f = p
  BY Ends
<1>2. /\ chan'[p] = Tail(chan[p]) /\ chan'[e] = chan[e]
      /\ inbox'[e] = Append(inbox[e], m) /\ inbox'[p] = inbox[p]
      /\ m \in Message
  BY <1>1, Known, RunTail DEF IInv, TypeOK
<1>3. /\ chan'[p] \in Runs
      /\ chan'[p] # <<>> => /\ chan'[p][1].seq = m.seq + 1
                            /\ chan'[p][Len(chan'[p])] = chan[p][Len(chan[p])]
      /\ chan'[p] = <<>> => chan[p][Len(chan[p])] = m
  BY ZenonT(40), <1>2, Known, RunTail
<1>4. Live(p) /\ Coming(p) = m.seq
  BY DEF Live, Coming
<1> HIDE DEF m
<1>5. inbox[e] # <<>> => m.seq = inbox[e][Len(inbox[e])].seq + 1
  BY <1>4, Known
<1>6. /\ inbox'[e] \in Runs /\ inbox'[e] # <<>>
      /\ inbox'[e][Len(inbox'[e])] = m
      /\ inbox[e] # <<>> => inbox'[e][1] = inbox[e][1]
      /\ inbox[e] = <<>> => inbox'[e][1] = m
  BY <1>2, <1>5, Known, RunAppend
<1>7. up[p] /\ t1[p] # "none" => sequence[p] = chan[p][Len(chan[p])].seq + 1
  BY Known
<1>8. Live(p)' => Coming(p)' = m.seq + 1
  BY <1>3, <1>7 DEF Live, Coming
<1>9. (Live(e)' => Live(e)) /\ Coming(e)' = Coming(e)
  BY <1>1, <1>2 DEF Live, Coming
<1>10. ASSUME NEW f \in End
       PROVE  /\ chan'[f] \in Runs /\ inbox'[f] \in Runs
              /\ up'[f] /\ t1'[f] # "none" /\ chan'[f] # <<>>
                   => sequence'[f] = chan'[f][Len(chan'[f])].seq + 1
              /\ Live(Peer(f))' /\ inbox'[f] # <<>>
                   => Coming(Peer(f))' = inbox'[f][Len(inbox'[f])].seq + 1
  <2>1. CASE f = e
    BY <1>2, <1>6, <1>8, <2>1, Known
  <2>2. CASE f = p
    BY <1>1, <1>2, <1>3, <1>7, <1>9, <2>2, Known
  <2>3. QED
    BY <1>1, <2>1, <2>2
<1>11. PathInOrder'
  BY <1>10 DEF PathInOrder, Joins
<1>12. ASSUME NEW f \in End, Pumps(f), last[f] # NoSequence
       PROVE  /\ inbox'[f] # <<>> => inbox'[f][1].seq = last[f] + 1
              /\ inbox'[f] = <<>> /\ Live(Peer(f))' => Coming(Peer(f))' = last[f] + 1
  <2>1. /\ inbox[f] # <<>> => inbox[f][1].seq = last[f] + 1
        /\ inbox[f] = <<>> /\ Live(Peer(f)) => Coming(Peer(f)) = last[f] + 1
    BY <1>12 DEF IInv, NextIsNext
  <2>2. CASE f = e
    BY <1>4, <1>6, <2>1, <2>2
  <2>3. CASE f = p
    BY <1>1, <1>2, <1>9, <2>1, <2>3
  <2>4. QED
    BY <1>1, <2>2, <2>3
<1>13. NextIsNext'
  BY <1>12 DEF NextIsNext, Pumps, Listens
<1>14. QED
  BY <1>11, <1>13

\* A message for which the server has no queue yet is missed.
LEMMA MissedInOrder ==
    ASSUME IInv, chan["client"] # <<>>, ~Listens, dispatch # "tunnel",
           chan' = [chan EXCEPT !["client"] = Tail(@)],
           UNCHANGED <<inbox, up, t1, sequence, t2, last, program>>
    PROVE  PathInOrder' /\ NextIsNext'
<1>1. /\ chan'["client"] = Tail(chan["client"]) /\ chan'["server"] = chan["server"]
      /\ inbox["server"] = <<>> /\ t2["server"] = "none"
  BY Ends DEF IInv, TypeOK, ServerBegins
<1>2. /\ chan'["client"] \in Runs
      /\ chan'["client"] # <<>>
           => chan'["client"][Len(chan'["client"])] = chan["client"][Len(chan["client"])]
  BY <1>1, Ends, Known, RunTail
<1>3. (Live("server")' <=> Live("server")) /\ Coming("server")' = Coming("server")
  BY <1>1 DEF Live, Coming
<1>4. ASSUME NEW f \in End
      PROVE  /\ chan'[f] \in Runs /\ inbox'[f] \in Runs
             /\ up'[f] /\ t1'[f] # "none" /\ chan'[f] # <<>>
                  => sequence'[f] = chan'[f][Len(chan'[f])].seq + 1
             /\ Live(Peer(f))' /\ inbox'[f] # <<>>
                  => Coming(Peer(f))' = inbox'[f][Len(inbox'[f])].seq + 1
  <2>1. CASE f = "client"
    BY <1>1, <1>2, <1>3, <2>1, Ends, Known
  <2>2. CASE f = "server"
    BY <1>1, <2>2, Ends, Known
  <2>3. QED
    BY <2>1, <2>2 DEF End
<1>5. PathInOrder'
  BY <1>4 DEF PathInOrder, Joins
<1>6. NextIsNext'
  <2>1. ASSUME NEW f \in End, Pumps(f), last[f] # NoSequence
        PROVE  /\ inbox[f] # <<>> => inbox[f][1].seq = last[f] + 1
               /\ inbox[f] = <<>> /\ Live(Peer(f))' => Coming(Peer(f))' = last[f] + 1
    <3>1. f = "client"
      BY <1>1, <2>1 DEF End, Pumps
    <3>2. QED
      BY <1>3, <2>1, <3>1, Ends DEF IInv, NextIsNext
  <2>2. QED
    BY <2>1 DEF NextIsNext, Pumps, Listens
<1>7. QED
  BY <1>5, <1>6

-----------------------------------------------------------------------------
(* What messages can be *)

\* What was sent stays true of the sender as it goes on.
LEMMA FitGrows ==
    ASSUME NEW p \in End, got[p] \in Nat, got'[p] \in Nat, got'[p] >= got[p],
           Finished(p) => Finished(p)' /\ got'[p] = got[p],
           p = "server" /\ dispatch = "refused" => dispatch' = "refused"
    PROVE  Fit(p) \subseteq Fit(p)'
  BY DEF Fit

\* A message that fits is sent.
LEMMA SentFits ==
    ASSUME IInv, NEW e \in End, NEW m \in Fit(e)',
           \A f \in End : Fit(f) \subseteq Fit(f)',
           chan' = IF up[e] THEN [chan EXCEPT ![e] = Append(@, m)] ELSE chan,
           inbox' = inbox
    PROVE  MessagesFit'
<1>1. ASSUME NEW f \in End
      PROVE  chan[f] \in Seq(Fit(f)') /\ inbox[f] \in Seq(Fit(Peer(f))')
  BY Known, Ends, SeqGrows
<1>2. ASSUME NEW f \in End
      PROVE  chan'[f] \in Seq(Fit(f)')
  <2>1. CASE f = e /\ up[e]
    <3>1. chan'[e] = Append(chan[e], m)
      BY <2>1 DEF IInv, TypeOK
    <3>2. QED
      BY <1>1, <2>1, <3>1
  <2>2. CASE ~(f = e /\ up[e])
    <3>1. chan'[f] = chan[f]
      BY <2>2 DEF IInv, TypeOK
    <3>2. QED
      BY <1>1, <3>1
  <2>3. QED
    BY <2>1, <2>2
<1>3. QED
  BY <1>1, <1>2 DEF MessagesFit

\* Queues that lose messages, or pass them on, hold what they held.
LEMMA MovedFits ==
    ASSUME IInv, \A f \in End : Fit(f) \subseteq Fit(f)',
           \A f \in End : chan'[f] \in Seq(Fit(f)) /\ inbox'[f] \in Seq(Fit(Peer(f)))
    PROVE  MessagesFit'
<1>1. \A f \in End : chan'[f] \in Seq(Fit(f)') /\ inbox'[f] \in Seq(Fit(Peer(f))')
  BY Ends, SeqGrows
<1>2. QED
  BY <1>1 DEF MessagesFit

-----------------------------------------------------------------------------
(* The applications and t1 *)

\* Only the application and what follows of it for the output change.
LEMMA AppCloseStep ==
    ASSUME IInv, NEW e \in End, AppClose(e), UNCHANGED <<program, viewer>>
    PROVE  IInv'
<1>1. TypeOK' /\ Counts' /\ ServerBegins'
  BY DEF IInv, TypeOK, Counts, ServerBegins, Listens, AppClose
<1>2. MessagesFit'
  BY DEF IInv, MessagesFit, Fit, Finished, AppClose
<1>3. PathInOrder' /\ NextIsNext' /\ WrittenIsTaken'
  BY DEF IInv, PathInOrder, NextIsNext, WrittenIsTaken, Joins, Live, Coming, Pumps, Listens,
     AppClose
<1>4. ListenerShuts'
  BY DEF IInv, TypeOK, ListenerShuts, Listens, AppClose
<1>5. WaitsForTunnel' /\ NoDataIsMissed'
  BY DEF IInv, WaitsForTunnel, NoDataIsMissed, Waits, AppClose
<1>6. QED
  BY <1>1, <1>2, <1>3, <1>4, <1>5 DEF IInv

LEMMA AppResetStep ==
    ASSUME IInv, NEW e \in End, AppReset(e), UNCHANGED <<program, viewer>>
    PROVE  IInv'
<1>1. TypeOK' /\ Counts' /\ ServerBegins'
  BY DEF IInv, TypeOK, Counts, ServerBegins, Listens, AppReset
<1>2. MessagesFit'
  BY DEF IInv, MessagesFit, Fit, Finished, AppReset
<1>3. PathInOrder' /\ NextIsNext' /\ WrittenIsTaken'
  BY DEF IInv, PathInOrder, NextIsNext, WrittenIsTaken, Joins, Live, Coming, Pumps, Listens,
     AppReset
<1>4. ListenerShuts'
  BY DEF IInv, TypeOK, ListenerShuts, Listens, AppReset
<1>5. WaitsForTunnel' /\ NoDataIsMissed'
  BY DEF IInv, WaitsForTunnel, NoDataIsMissed, Waits, AppReset
<1>6. QED
  BY <1>1, <1>2, <1>3, <1>4, <1>5 DEF IInv

\* t1 sends a message that fits, and goes on or gives up.
LEMMA SendsStep ==
    ASSUME IInv, NEW e \in End, UNCHANGED <<program, viewer>>,
           NEW kind \in {"_start", "data", "_end"}, NEW chunk \in Nat,
           NEW next \in {"read", "done"}, NEW thrown \in {"ending", "failed"},
           Sends(e, kind, chunk, next, thrown),
           t1[e] \in {"start", "read", "ending"},
           got' \in [End -> Nat], \A f \in End : f # e => got'[f] = got[f],
           got'[e] >= got[e],
           t1'[e] \in {"read", "ending"} => sequence[e] = got'[e],
           Msg(sequence[e], kind, chunk) \in Fit(e)',
           Waits /\ got'["client"] > 0 => dispatch = "tunnel"
    PROVE  IInv'
<1> DEFINE m == Msg(sequence[e], kind, chunk)
<1>1. /\ got \in [End -> Nat] /\ sequence \in [End -> Nat] /\ up \in [End -> BOOLEAN]
      /\ chan \in [End -> Seq(Message)]
      /\ t1 \in [End -> {"none", "start", "read", "ending", "done", "failed"}]
  BY DEF IInv, TypeOK
<1>2. m \in Message /\ m.seq = sequence[e] /\ m \in Fit(e)'
  BY <1>1 DEF Msg, Message
<1>3. /\ sequence' = [sequence EXCEPT ![e] = @ + 1]
      /\ chan' = IF up[e] THEN [chan EXCEPT ![e] = Append(@, m)] ELSE chan
      /\ t1' = [t1 EXCEPT ![e] = IF up[e] THEN next ELSE thrown]
      /\ UNCHANGED <<app, t2, last, written, outShut, tun, up, inbox, dispatch, missed>>
  BY DEF Sends
<1> HIDE DEF m
<1>4. /\ t1'[e] = next \/ t1'[e] = thrown
      /\ t1'[e] # "none" /\ t1[e] # "none" /\ t1'[e] # "start" /\ ~Finished(e)
      /\ \A f \in End : f # e => t1'[f] = t1[f]
      /\ sequence'[e] = sequence[e] + 1
      /\ \A f \in End : f # e => sequence'[f] = sequence[f]
  BY <1>1, <1>3 DEF Finished
<1>5. TypeOK'
  <2>1. Append(chan[e], m) \in Seq(Message)
    BY <1>1, <1>2, AppendFacts
  <2>2. chan' \in [End -> Seq(Message)]
    BY <1>1, <1>3, <2>1
  <2>3. sequence' \in [End -> Nat]
    BY <1>1, <1>3
  <2>4. t1' \in [End -> {"none", "start", "read", "ending", "done", "failed"}]
    BY <1>1, <1>3
  <2>5. QED
    BY <1>3, <2>2, <2>3, <2>4 DEF IInv, TypeOK
<1>6. Counts'
  BY <1>1, <1>4 DEF IInv, Counts
<1>7. ServerBegins'
  <2>1. t1'["server"] = "none" <=> t1["server"] = "none"
    BY <1>4, Ends
  <2>2. t1'["client"] # "none"
    BY <1>4, Ends DEF IInv, ServerBegins
  <2>3. dispatch \in {"new", "opening"} => chan'["server"] = chan["server"]
    BY <1>1, <1>3, <1>4, Ends DEF IInv, ServerBegins
  <2>4. QED
    BY <1>3, <2>1, <2>2, <2>3 DEF IInv, ServerBegins, Listens
<1>8. MessagesFit'
  <2>1. ASSUME NEW f \in End
        PROVE  Fit(f) \subseteq Fit(f)'
    <3>1. Finished(f) => Finished(f)' /\ got'[f] = got[f]
      BY <1>4 DEF Finished
    <3>2. QED
      BY SMTT(30), <1>1, <1>3, <3>1, FitGrows
  <2>2. QED
    BY <1>2, <1>3, <2>1, SentFits
<1>9. PathInOrder' /\ NextIsNext'
  BY <1>2, <1>3, <1>4, SentInOrder
<1>10. WrittenIsTaken'
  <2>1. ASSUME NEW f \in End
        PROVE  got[f] \in Nat /\ got'[f] \in Nat /\ got'[f] >= got[f]
    <3>1. got[f] \in Nat /\ got'[f] \in Nat
      BY <1>1
    <3>2. QED
      BY <3>1
  <2>2. QED
    BY <1>3, <2>1, Ends DEF IInv, WrittenIsTaken, Pumps, Listens
<1>11. ListenerShuts' /\ WaitsForTunnel' /\ NoDataIsMissed'
  BY <1>3 DEF IInv, ListenerShuts, WaitsForTunnel, NoDataIsMissed, Listens, Waits
<1>12. QED
  BY <1>5, <1>6, <1>7, <1>8, <1>9, <1>10, <1>11 DEF IInv

\* "_start" is number 0.
LEMMA SendStartStep ==
    ASSUME IInv, NEW e \in End, SendStart(e), UNCHANGED <<program, viewer>>
    PROVE  IInv'
<1>1. /\ t1[e] = "start" /\ got' = got /\ Sends(e, "_start", 0, "read", "failed")
      /\ got \in [End -> Nat] /\ sequence[e] = 0 /\ got[e] = 0
  BY DEF SendStart, IInv, TypeOK, Counts
<1>2. Msg(sequence[e], "_start", 0) \in Fit(e)'
  BY <1>1 DEF Fit, Msg, Message
<1>3. QED
  BY <1>1, <1>2, SendsStep DEF IInv, WaitsForTunnel

\* Chunk n is number n.  A viewer that waits was given a chunk of the server.
LEMMA ReadChunkStep ==
    ASSUME IInv, NEW e \in End, ReadChunk(e), UNCHANGED <<program, viewer>>
    PROVE  IInv'
<1>1. /\ t1[e] = "read" /\ got \in [End -> Nat] /\ got[e] \in Nat
      /\ sequence[e] = got[e] + 1
      /\ got' = [got EXCEPT ![e] = @ + 1] /\ got' \in [End -> Nat]
      /\ got'[e] = got[e] + 1 /\ \A f \in End : f # e => got'[f] = got[f]
      /\ Sends(e, "data", got[e] + 1, "read", "ending")
  BY DEF ReadChunk, IInv, TypeOK, Counts
<1>2. Msg(sequence[e], "data", got[e] + 1) \in Fit(e)'
  BY <1>1 DEF Fit, Msg, Message
<1>3. ASSUME Waits, got'["client"] > 0
      PROVE  dispatch = "tunnel"
  <2>1. CASE e = "client"
    <3>1. written["client"] # <<>>
      BY <1>3, <2>1 DEF ReadChunk
    <3>2. got["server"] # 0 /\ got["server"] \in Nat
      BY <1>1, <3>1, Ends DEF IInv, WrittenIsTaken
    <3>3. t1["server"] # "none"
      BY <3>2, Ends DEF IInv, Counts
    <3>4. QED
      BY <3>3 DEF IInv, ServerBegins
  <2>2. CASE e # "client"
    BY <1>1, <1>3, <2>2, Ends DEF IInv, WaitsForTunnel
  <2>3. QED
    BY <2>1, <2>2
<1>4. QED
  BY <1>1, <1>2, <1>3, SendsStep

\* "_end" comes after the last chunk, and t1 has finished then.
LEMMA SendEndStep ==
    ASSUME IInv, NEW e \in End, SendEnd(e), UNCHANGED <<program, viewer>>
    PROVE  IInv'
<1>1. /\ t1[e] = "ending" /\ got' = got /\ Sends(e, "_end", 0, "done", "failed")
      /\ got \in [End -> Nat] /\ sequence[e] = got[e] + 1 /\ got[e] \in Nat
  BY DEF SendEnd, IInv, TypeOK, Counts
<1>2. t1'[e] \in {"done", "failed"}
  BY <1>1 DEF Sends, IInv, TypeOK
<1>3. Msg(sequence[e], "_end", 0) \in Fit(e)'
  BY <1>1, <1>2 DEF Fit, Msg, Message, Finished
<1>4. QED
  BY <1>1, <1>2, <1>3, SendsStep DEF IInv, WaitsForTunnel

LEMMA ReadEndsStep ==
    ASSUME IInv, NEW e \in End, ReadEnds(e), UNCHANGED <<program, viewer>>
    PROVE  IInv'
<1>1. /\ t1 \in [End -> {"none", "start", "read", "ending", "done", "failed"}]
      /\ t1[e] = "read" /\ t1' = [t1 EXCEPT ![e] = "ending"]
      /\ UNCHANGED <<app, got, sequence, t2, last, written, outShut, tun, up, chan, inbox,
                     dispatch, missed>>
  BY DEF ReadEnds, IInv, TypeOK
<1>2. /\ \A f \in End : (t1'[f] = "none" <=> t1[f] = "none") /\ (Finished(f)' <=> Finished(f))
      /\ t1'[e] = "ending"
      /\ \A f \in End : f # e => t1'[f] = t1[f]
  BY <1>1 DEF Finished
<1>3. TypeOK'
  BY <1>1 DEF IInv, TypeOK
<1>4. Counts'
  BY <1>1, <1>2 DEF IInv, Counts
<1>5. ServerBegins'
  BY <1>1, <1>2, Ends DEF IInv, ServerBegins, Listens
<1>6. MessagesFit'
  <2>1. ASSUME NEW f \in End
        PROVE  Fit(f) \subseteq Fit(f)'
    <3>1. got[f] \in Nat /\ got' = got
      BY <1>1 DEF IInv, TypeOK
    <3>2. QED
      BY <1>1, <1>2, <3>1, FitGrows
  <2>2. QED
    BY <1>1, <2>1, Known, MovedFits
<1>7. PathInOrder' /\ NextIsNext'
  <2>1. \A f \in End : Live(f)' => Live(f) /\ Coming(f)' = Coming(f)
    BY <1>1, <1>2 DEF Live, Coming
  <2>2. QED
    BY <1>1, <1>2, <2>1, Known, SameToCome
<1>8. WrittenIsTaken' /\ ListenerShuts'
  BY <1>1 DEF IInv, WrittenIsTaken, ListenerShuts, Pumps, Listens
<1>9. WaitsForTunnel' /\ NoDataIsMissed'
  BY <1>1 DEF IInv, WaitsForTunnel, NoDataIsMissed, Waits
<1>10. QED
  BY <1>3, <1>4, <1>5, <1>6, <1>7, <1>8, <1>9 DEF IInv

-----------------------------------------------------------------------------
(* What receives *)

\* What the first message of a queue is, and that t2 accepts its number.
LEMMA FrontFacts ==
    ASSUME IInv, NEW e \in End, inbox[e] # <<>>
    PROVE  LET m == inbox[e][1]
           IN /\ Head(inbox[e]) = m /\ m \in Message /\ m.seq \in Nat /\ m.seq # NoSequence
              /\ m.kind \in {"_start", "data", "_end"}
              /\ m.kind = "_start" => m.seq = 0
              /\ m.kind = "data" => m.chunk = m.seq /\ m.seq \in 1..got[Peer(e)]
              /\ m.kind = "_end" => \/ Finished(Peer(e)) /\ m.seq = got[Peer(e)] + 1
                                    \/ e = "client" /\ m.seq = 0 /\ dispatch = "refused"
              /\ Pumps(e) /\ last[e] # NoSequence => m.seq = last[e] + 1
              /\ Tail(inbox[e]) \in Seq(Fit(Peer(e))) /\ Tail(inbox[e]) \in Seq(Message)
              /\ Tail(inbox[e]) # <<>> => Tail(inbox[e])[1].seq = m.seq + 1
              /\ Tail(inbox[e]) = <<>> /\ Live(Peer(e)) => Coming(Peer(e)) = m.seq + 1
<1>1. /\ Head(inbox[e]) = inbox[e][1]
      /\ inbox[e][1] \in Message /\ inbox[e][1] \in Fit(Peer(e))
      /\ Tail(inbox[e]) \in Seq(Fit(Peer(e))) /\ Tail(inbox[e]) \in Seq(Message)
  BY Known, TailFacts
<1>2. /\ Tail(inbox[e]) # <<>> => Tail(inbox[e])[1].seq = inbox[e][1].seq + 1
      /\ Tail(inbox[e]) = <<>> => inbox[e][Len(inbox[e])] = inbox[e][1]
  BY Known, RunTail
<1>3. Tail(inbox[e]) = <<>> /\ Live(Peer(e)) => Coming(Peer(e)) = inbox[e][1].seq + 1
  BY <1>2, Known
<1>4. Pumps(e) /\ last[e] # NoSequence => inbox[e][1].seq = last[e] + 1
  BY DEF IInv, NextIsNext
<1>5. \A m \in Fit(Peer(e)) :
        /\ m.seq \in Nat /\ m.seq # NoSequence /\ m.kind \in {"_start", "data", "_end"}
        /\ m.kind = "_start" => m.seq = 0
        /\ m.kind = "data" => m.chunk = m.seq /\ m.seq \in 1..got[Peer(e)]
        /\ m.kind = "_end" => \/ Finished(Peer(e)) /\ m.seq = got[Peer(e)] + 1
                              \/ Peer(e) = "server" /\ m.seq = 0 /\ dispatch = "refused"
  BY DEF Fit, Message, Msg, NoSequence
<1>6. Peer(e) = "server" => e = "client"
  BY Ends
<1>7. QED
  BY <1>1, <1>2, <1>3, <1>4, <1>5, <1>6

\* Every number is accepted, so t2 stops at "_end" or at a broken socket.
LEMMA ReceiveStep ==
    ASSUME IInv, NEW e \in End, Receive(e), UNCHANGED <<program, viewer>>
    PROVE  IInv'
<1> DEFINE m == inbox[e][1]
<1> DEFINE goesOn == m.kind = "_start" \/ (m.kind = "data" /\ Writable(e))
<1>1. inbox[e] # <<>> /\ Pumps(e)
  BY DEF Receive, Pumps
<1>2. /\ Head(inbox[e]) = m /\ m \in Message /\ m.seq \in Nat /\ m.seq # NoSequence
      /\ m.kind \in {"_start", "data", "_end"}
      /\ m.kind = "_start" => m.seq = 0
      /\ m.kind = "data" => m.chunk = m.seq /\ m.seq \in 1..got[Peer(e)]
      /\ last[e] # NoSequence => m.seq = last[e] + 1
      /\ Tail(inbox[e]) \in Seq(Fit(Peer(e))) /\ Tail(inbox[e]) \in Seq(Message)
      /\ Tail(inbox[e]) # <<>> => Tail(inbox[e])[1].seq = m.seq + 1
      /\ Tail(inbox[e]) = <<>> /\ Live(Peer(e)) => Coming(Peer(e)) = m.seq + 1
  BY <1>1, FrontFacts
<1>3. Accepts(last[e], m.seq)
  BY <1>2 DEF Accepts
<1>4. /\ last' = [last EXCEPT ![e] = m.seq]
      /\ inbox' = [inbox EXCEPT ![e] = Tail(@)]
      /\ goesOn /\ m.kind = "data"
           => /\ written' = [written EXCEPT ![e] = Append(@, m.chunk)]
              /\ app' = [app EXCEPT ![e] = IF @ = "closed" THEN "reset" ELSE @]
      /\ ~(goesOn /\ m.kind = "data") => written' = written /\ app' = app
      /\ goesOn => outShut' = outShut /\ t2' = t2
      /\ ~goesOn => /\ outShut' = [outShut EXCEPT ![e] = @ \/ Writable(e)]
                    /\ t2' = [t2 EXCEPT ![e] = "done"]
      /\ UNCHANGED <<got, t1, sequence, tun, up, chan, dispatch, missed>>
  BY <1>2, <1>3 DEF Receive, Write, ShutdownOutput
<1> HIDE DEF m, goesOn
<1>5. /\ app \in [End -> {"open", "closed", "reset"}]
      /\ t2 \in [End -> {"none", "waiting", "done"}]
      /\ last \in [End -> Nat \cup {NoSequence}] /\ written \in [End -> Seq(Nat)]
      /\ outShut \in [End -> BOOLEAN] /\ inbox \in [End -> Seq(Message)]
      /\ got \in [End -> Nat]
  BY DEF IInv, TypeOK
<1>6. /\ last'[e] = m.seq /\ inbox'[e] = Tail(inbox[e])
      /\ ~goesOn => t2'[e] = "done"
      /\ \A f \in End : f # e => /\ last'[f] = last[f] /\ inbox'[f] = inbox[f]
                                 /\ written'[f] = written[f] /\ t2'[f] = t2[f]
  BY <1>4, <1>5
<1>7. TypeOK'
  <2>1. m.chunk \in Nat
    BY <1>2 DEF Message
  <2>2. written' \in [End -> Seq(Nat)]
    <3>1. Append(written[e], m.chunk) \in Seq(Nat)
      BY <1>5, <2>1, AppendFacts
    <3>2. CASE goesOn /\ m.kind = "data"
      BY <1>4, <1>5, <3>1, <3>2
    <3>3. CASE ~(goesOn /\ m.kind = "data")
      BY <1>4, <1>5, <3>3
    <3>4. QED
      BY <3>2, <3>3
  <2>3. app' \in [End -> {"open", "closed", "reset"}]
    BY <1>4, <1>5
  <2>4. t2' \in [End -> {"none", "waiting", "done"}]
    BY <1>4, <1>5
  <2>5. outShut' \in [End -> BOOLEAN]
    BY <1>4, <1>5 DEF Writable
  <2>6. last' \in [End -> Nat \cup {NoSequence}]
    BY <1>2, <1>4, <1>5
  <2>7. inbox' \in [End -> Seq(Message)]
    BY <1>2, <1>4, <1>5
  <2>8. QED
    BY <1>4, <2>2, <2>3, <2>4, <2>5, <2>6, <2>7 DEF IInv, TypeOK
<1>8. Counts' /\ WaitsForTunnel' /\ NoDataIsMissed'
  BY <1>4 DEF IInv, Counts, WaitsForTunnel, NoDataIsMissed, Waits
<1>9. ServerBegins'
  <2>1. dispatch # "tunnel" => e # "server"
    BY <1>1 DEF IInv, ServerBegins, Pumps
  <2>2. dispatch \in {"new", "opening"} => e # "client"
    BY <1>1 DEF IInv, ServerBegins
  <2>3. QED
    BY <1>4, <1>6, <2>1, <2>2, Ends DEF IInv, ServerBegins, Listens
<1>10. MessagesFit'
  <2>1. ASSUME NEW f \in End
        PROVE  Fit(f) \subseteq Fit(f)'
    BY <1>4 DEF Fit, Finished
  <2>2. ASSUME NEW f \in End
        PROVE  chan'[f] \in Seq(Fit(f)) /\ inbox'[f] \in Seq(Fit(Peer(f)))
    BY <1>2, <1>4, <1>6, Known
  <2>3. QED
    BY <2>1, <2>2, MovedFits
<1>11. PathInOrder'
  BY <1>1, <1>4, TakenInOrder
<1>12. NextIsNext'
  <2>1. \A f \in End : Live(f)' = Live(f) /\ Coming(f)' = Coming(f)
    BY <1>4 DEF Live, Coming
  <2>2. ASSUME NEW f \in End, Pumps(f)', last'[f] # NoSequence
        PROVE  /\ inbox'[f] # <<>> => inbox'[f][1].seq = last'[f] + 1
               /\ inbox'[f] = <<>> /\ Live(Peer(f))' => Coming(Peer(f))' = last'[f] + 1
    <3>1. CASE f = e
      BY <1>2, <1>6, <2>1, <3>1, Ends
    <3>2. CASE f # e
      <4>1. Pumps(f)
        BY <1>6, <2>2, <3>2 DEF Pumps, Listens
      <4>2. QED
        BY <1>6, <2>1, <2>2, <3>2, <4>1, Ends DEF IInv, NextIsNext
    <3>3. QED
      BY <3>1, <3>2
  <2>3. QED
    BY <2>2 DEF NextIsNext
<1>13. WrittenIsTaken'
  <2>1. ASSUME NEW f \in End
        PROVE  /\ last'[f] = NoSequence => written'[f] = <<>>
               /\ written'[f] # <<>> => written'[f][Len(written'[f])] \in 1..got[Peer(f)]
               /\ written'[f] # <<>> /\ Pumps(f)' => written'[f][Len(written'[f])] = last'[f]
    <3>1. /\ last[f] = NoSequence => written[f] = <<>>
          /\ written[f] # <<>> => written[f][Len(written[f])] \in 1..got[Peer(f)]
          /\ written[f] # <<>> /\ Pumps(f) => written[f][Len(written[f])] = last[f]
      BY DEF IInv, WrittenIsTaken
    <3>2. CASE f # e
      <4>1. Pumps(f)' => Pumps(f)
        BY <1>6, <3>2 DEF Pumps, Listens
      <4>2. QED
        BY <1>6, <3>1, <3>2, <4>1
    <3>3. CASE f = e /\ goesOn /\ m.kind = "data"
      <4>1. written'[e] = Append(written[e], m.chunk)
        BY <1>4, <1>5, <3>3
      <4>2. written'[e][Len(written'[e])] = m.chunk
        BY <1>2, <1>5, <4>1, AppendFacts DEF Message
      <4>3. QED
        BY <1>2, <1>6, <3>3, <4>2
    <3>4. CASE f = e /\ ~(goesOn /\ m.kind = "data")
      <4>1. written'[e] = written[e]
        BY <1>4, <3>4
      <4>2. goesOn => m.kind = "_start" /\ m.seq = 0
        BY <1>2, <3>4 DEF goesOn
      <4>3. goesOn => last[e] = NoSequence
        BY <1>2, <1>5, <4>2 DEF NoSequence
      <4>4. ~goesOn => ~Pumps(e)'
        BY <1>6 DEF Pumps
      <4>5. QED
        BY <1>2, <1>6, <3>1, <3>4, <4>1, <4>3, <4>4
    <3>5. QED
      BY <3>2, <3>3, <3>4
  <2>2. QED
    BY <1>4, <2>1 DEF WrittenIsTaken
<1>14. ListenerShuts'
  BY <1>1 DEF ListenerShuts, Pumps, Listens
<1>15. QED
  BY <1>7, <1>8, <1>9, <1>10, <1>11, <1>12, <1>13, <1>14 DEF IInv

\* The listener of vnc2xmpp3 takes a message and shuts the output, if the
\* socket still takes any.
LEMMA CallbackStep ==
    ASSUME IInv, NEW e \in End, Callback(e), UNCHANGED <<program, viewer>>
    PROVE  IInv'
<1> DEFINE m == inbox[e][1]
<1> DEFINE takes == ~(e = "server" /\ dispatch = "refused") /\ Takes(e, m)
<1> DEFINE writes == takes /\ m.kind = "data" /\ Writable(e)
<1>1. Listens /\ inbox[e] # <<>> /\ (e = "server" => dispatch # "new")
  BY DEF Callback
<1>2. /\ Head(inbox[e]) = m /\ m \in Message /\ m.seq \in Nat /\ m.seq # NoSequence
      /\ m.kind = "data" => m.chunk = m.seq /\ m.seq \in 1..got[Peer(e)]
      /\ Tail(inbox[e]) \in Seq(Fit(Peer(e))) /\ Tail(inbox[e]) \in Seq(Message)
  BY <1>1, FrontFacts
<1>3. /\ inbox' = [inbox EXCEPT ![e] = Tail(@)]
      /\ last' = [last EXCEPT ![e] = IF takes THEN m.seq ELSE @]
      /\ writes => /\ written' = [written EXCEPT ![e] = Append(@, m.chunk)]
                   /\ app' = [app EXCEPT ![e] = IF @ = "closed" THEN "reset" ELSE @]
      /\ ~writes => written' = written /\ app' = app
      /\ outShut' = outShut \/ outShut' = [outShut EXCEPT ![e] = @ \/ Writable(e)]
      /\ takes => outShut' = [outShut EXCEPT ![e] = @ \/ Writable(e)]
      /\ UNCHANGED <<got, t1, sequence, t2, tun, up, chan, dispatch, missed>>
  <2>1. CASE e = "server" /\ dispatch = "refused"
    <3>1. last' = last /\ [last EXCEPT ![e] = IF takes THEN m.seq ELSE @] = last
      BY <2>1 DEF Callback, IInv, TypeOK
    <3>2. QED
      BY <2>1, <3>1 DEF Callback
  <2>2. CASE ~(e = "server" /\ dispatch = "refused")
    BY <1>2, <2>2 DEF Callback, ProcessMessage, Write, ShutdownOutput
  <2>3. QED
    BY <2>1, <2>2
<1>4. takes => (app[e] # "reset" <=> Writable(e))
  BY DEF Takes, Writable
<1> HIDE DEF m, takes
<1>6. /\ app \in [End -> {"open", "closed", "reset"}]
      /\ last \in [End -> Nat \cup {NoSequence}] /\ written \in [End -> Seq(Nat)]
      /\ outShut \in [End -> BOOLEAN] /\ inbox \in [End -> Seq(Message)]
      /\ got \in [End -> Nat]
  BY DEF IInv, TypeOK
<1>7. /\ inbox'[e] = Tail(inbox[e])
      /\ last'[e] = IF takes THEN m.seq ELSE last[e]
      /\ \A f \in End : f # e => /\ last'[f] = last[f] /\ inbox'[f] = inbox[f]
                                 /\ written'[f] = written[f] /\ app'[f] = app[f]
                                 /\ outShut'[f] = outShut[f]
  BY <1>3, <1>6
<1>8. TypeOK'
  <2>1. m.chunk \in Nat
    BY <1>2 DEF Message
  <2>2. written' \in [End -> Seq(Nat)]
    <3>1. Append(written[e], m.chunk) \in Seq(Nat)
      BY <1>6, <2>1, AppendFacts
    <3>2. CASE writes
      BY <1>3, <1>6, <3>1, <3>2
    <3>3. CASE ~writes
      BY <1>3, <1>6, <3>3
    <3>4. QED
      BY <3>2, <3>3
  <2>3. app' \in [End -> {"open", "closed", "reset"}]
    BY <1>3, <1>6
  <2>4. outShut' \in [End -> BOOLEAN]
    BY <1>3, <1>6 DEF Writable
  <2>5. last' \in [End -> Nat \cup {NoSequence}]
    BY <1>2, <1>3, <1>6
  <2>6. inbox' \in [End -> Seq(Message)]
    BY <1>2, <1>3, <1>6
  <2>7. QED
    BY <1>3, <2>2, <2>3, <2>4, <2>5, <2>6 DEF IInv, TypeOK
<1>9. Counts' /\ WaitsForTunnel' /\ NoDataIsMissed'
  BY <1>3 DEF IInv, Counts, WaitsForTunnel, NoDataIsMissed, Waits
<1>10. ServerBegins'
  <2>1. dispatch \in {"new", "opening"} => e # "client"
    BY <1>1 DEF IInv, ServerBegins
  <2>2. e = "server" /\ dispatch # "tunnel" => ~takes
    BY <1>1 DEF IInv, TypeOK, ServerBegins, takes
  <2>3. QED
    BY <1>1, <1>3, <1>7, <2>1, <2>2, Ends DEF IInv, ServerBegins, Listens
<1>11. MessagesFit'
  <2>1. ASSUME NEW f \in End
        PROVE  Fit(f) \subseteq Fit(f)'
    BY <1>3 DEF Fit, Finished
  <2>2. ASSUME NEW f \in End
        PROVE  chan'[f] \in Seq(Fit(f)) /\ inbox'[f] \in Seq(Fit(Peer(f)))
    BY <1>2, <1>3, <1>7, Known
  <2>3. QED
    BY <2>1, <2>2, MovedFits
<1>12. PathInOrder'
  BY <1>1, <1>3, TakenInOrder
<1>13. NextIsNext'
  BY <1>1 DEF NextIsNext, Pumps, Listens
<1>14. WrittenIsTaken'
  <2>1. ASSUME NEW f \in End
        PROVE  /\ last'[f] = NoSequence => written'[f] = <<>>
               /\ written'[f] # <<>> => written'[f][Len(written'[f])] \in 1..got[Peer(f)]
    <3>1. /\ last[f] = NoSequence => written[f] = <<>>
          /\ written[f] # <<>> => written[f][Len(written[f])] \in 1..got[Peer(f)]
      BY DEF IInv, WrittenIsTaken
    <3>2. CASE f # e
      BY <1>7, <3>1, <3>2
    <3>3. CASE f = e /\ writes
      <4>1. written'[e] = Append(written[e], m.chunk)
        BY <1>3, <1>6, <3>3
      <4>2. written'[e][Len(written'[e])] = m.chunk
        BY <1>2, <1>6, <4>1, AppendFacts DEF Message
      <4>3. QED
        BY <1>2, <1>7, <3>3, <4>2
    <3>4. CASE f = e /\ ~writes
      BY <1>2, <1>3, <1>7, <3>1, <3>4
    <3>5. QED
      BY <3>2, <3>3, <3>4
  <2>2. QED
    BY <1>1, <1>3, <2>1 DEF WrittenIsTaken, Pumps, Listens
<1>15. ListenerShuts'
  <2>1. ASSUME NEW f \in End, last'[f] # NoSequence
        PROVE  outShut'[f] \/ app'[f] = "reset"
    <3>1. last[f] # NoSequence => outShut[f] \/ app[f] = "reset"
      BY <1>1 DEF IInv, ListenerShuts
    <3>2. CASE f # e
      BY <1>7, <2>1, <3>1, <3>2
    <3>3. CASE f = e /\ takes
      <4>1. CASE Writable(e)
        BY <1>3, <1>6, <3>3, <4>1
      <4>2. CASE ~Writable(e)
        BY <1>3, <1>4, <3>3, <4>2
      <4>3. QED
        BY <4>1, <4>2
    <3>4. CASE f = e /\ ~takes
      <4>1. outShut[e] => outShut'[e]
        BY <1>3, <1>6
      <4>2. QED
        BY <1>3, <1>7, <2>1, <3>1, <3>4, <4>1
    <3>5. QED
      BY <3>2, <3>3, <3>4
  <2>2. QED
    BY <2>1 DEF ListenerShuts
<1>16. QED
  BY <1>8, <1>9, <1>10, <1>11, <1>12, <1>13, <1>14, <1>15 DEF IInv

-----------------------------------------------------------------------------
(* The packet reader and the packet listener *)

\* A message joins a queue, or is missed: before there is a tunnel, and then
\* it is no data of a viewer that waits.
LEMMA ArriveStep ==
    ASSUME IInv, NEW e \in End, Arrive(e), UNCHANGED <<program, viewer>>
    PROVE  IInv'
<1> DEFINE p == Peer(e)
<1> DEFINE m == Head(chan[p])
<1>1. /\ p \in End /\ p # e /\ Peer(p) = e /\ \A f \in End : f = e \/ f = p
      /\ e = "client" => p = "server"
      /\ e = "server" => p = "client"
  BY Ends
<1>2. /\ chan[p] # <<>>
      /\ chan' = [chan EXCEPT ![p] = Tail(@)]
      /\ HasQueue(e) => /\ inbox' = [inbox EXCEPT ![e] = Append(@, m)]
                        /\ UNCHANGED <<dispatch, missed>>
      /\ ~HasQueue(e) => /\ dispatch' = IF dispatch = "new" THEN "opening" ELSE dispatch
                         /\ missed' = missed \cup {m.kind}
                         /\ inbox' = inbox
      /\ UNCHANGED <<app, got, t1, sequence, t2, last, written, outShut, tun, up>>
  BY DEF Arrive
<1>3. /\ chan \in [End -> Seq(Message)] /\ inbox \in [End -> Seq(Message)]
      /\ chan[p] \in Seq(Fit(p)) /\ chan[p] \in Seq(Message)
  BY <1>1, Known DEF IInv, TypeOK
<1>4. /\ m \in Message /\ m \in Fit(p)
      /\ Tail(chan[p]) \in Seq(Fit(p)) /\ Tail(chan[p]) \in Seq(Message)
  BY <1>2, <1>3, TailFacts
<1>5. ~HasQueue(e) => e = "server" /\ p = "client" /\ ~Listens /\ dispatch # "tunnel"
  BY <1>1 DEF HasQueue, End
<1>6. e = "client" => dispatch \notin {"new", "opening"}
  BY <1>1, <1>2 DEF IInv, ServerBegins
<1> HIDE DEF p, m
<1>7. TypeOK'
  <2>1. chan' \in [End -> Seq(Message)]
    BY <1>2, <1>3, <1>4
  <2>2. inbox' \in [End -> Seq(Message)]
    <3>1. Append(inbox[e], m) \in Seq(Message)
      BY <1>3, <1>4, AppendFacts
    <3>2. QED
      BY <1>2, <1>3, <3>1
  <2>3. /\ dispatch' \in {"new", "opening", "tunnel", "refused"}
        /\ missed' \subseteq {"_start", "data", "_end", "sent"}
    BY <1>2, <1>4 DEF IInv, TypeOK, Message
  <2>4. QED
    BY <1>2, <2>1, <2>2, <2>3 DEF IInv, TypeOK
<1>8. Counts' /\ WrittenIsTaken' /\ ListenerShuts'
  BY <1>2 DEF IInv, Counts, WrittenIsTaken, ListenerShuts, Pumps, Listens
<1>9. WaitsForTunnel'
  BY <1>2, <1>5 DEF IInv, WaitsForTunnel, Waits
<1>10. ServerBegins'
  <2>1. CASE HasQueue(e)
    <3>1. CASE e = "client"
      <4>1. inbox'["server"] = inbox["server"]
        BY <1>2, <1>3, <2>1, <3>1, Ends
      <4>2. QED
        BY <1>2, <1>6, <2>1, <3>1, <4>1 DEF IInv, ServerBegins, Listens
    <3>2. CASE e = "server"
      <4>1. inbox'["client"] = inbox["client"] /\ chan'["server"] = chan["server"]
        BY <1>1, <1>2, <1>3, <2>1, <3>2, Ends
      <4>2. Listens \/ dispatch = "tunnel"
        BY <2>1, <3>2 DEF HasQueue
      <4>3. QED
        BY <1>2, <2>1, <3>2, <4>1, <4>2 DEF IInv, ServerBegins, Listens
    <3>3. QED
      BY <3>1, <3>2 DEF End
  <2>2. CASE ~HasQueue(e)
    <3>1. chan'["server"] = chan["server"]
      BY <1>2, <1>3, <1>5, <2>2, Ends
    <3>2. QED
      BY <1>2, <1>5, <2>2, <3>1 DEF IInv, ServerBegins, Listens
  <2>3. QED
    BY <2>1, <2>2
<1>11. MessagesFit'
  <2>1. ASSUME NEW f \in End
        PROVE  Fit(f) \subseteq Fit(f)'
    <3>1. dispatch = "refused" => dispatch' = "refused"
      BY <1>2
    <3>2. QED
      BY <1>2, <3>1 DEF Fit, Finished
  <2>2. ASSUME NEW f \in End
        PROVE  chan'[f] \in Seq(Fit(f))
    BY <1>2, <1>3, <1>4, Known
  <2>3. ASSUME NEW f \in End
        PROVE  inbox'[f] \in Seq(Fit(Peer(f)))
    <3>1. CASE f = e /\ HasQueue(e)
      <4>1. inbox'[e] = Append(inbox[e], m)
        BY <1>2, <1>3, <3>1
      <4>2. inbox[e] \in Seq(Fit(p)) /\ p = Peer(e)
        BY Known DEF p
      <4>3. QED
        BY <1>4, <3>1, <4>1, <4>2, AppendFacts
    <3>2. CASE ~(f = e /\ HasQueue(e))
      <4>1. inbox'[f] = inbox[f]
        BY <1>2, <1>3, <3>2
      <4>2. QED
        BY <4>1, Known
    <3>3. QED
      BY <3>1, <3>2
  <2>4. QED
    BY <2>1, <2>2, <2>3, MovedFits
<1>12. PathInOrder' /\ NextIsNext'
  <2>1. CASE HasQueue(e)
    BY <1>1, <1>2, <2>1, ArrivedInOrder DEF p, m
  <2>2. CASE ~HasQueue(e)
    BY <1>2, <1>5, <2>2, MissedInOrder
  <2>3. QED
    BY <2>1, <2>2
<1>13. NoDataIsMissed'
  <2>1. CASE HasQueue(e)
    BY <1>2, <2>1 DEF IInv, NoDataIsMissed, Waits
  <2>2. CASE ~HasQueue(e)
    <3>1. m.kind = "data" => m.seq \in 1..got["client"]
      BY <1>4, <1>5, <2>2 DEF Fit, Msg
    <3>2. Waits => m.kind # "data"
      BY <1>5, <2>2, <3>1, Ends DEF IInv, TypeOK, WaitsForTunnel
    <3>3. QED
      BY <1>2, <2>2, <3>2 DEF IInv, NoDataIsMissed, Waits
  <2>3. QED
    BY <2>1, <2>2
<1>14. QED
  BY <1>7, <1>8, <1>9, <1>10, <1>11, <1>12, <1>13 DEF IInv

\* Nothing was taken or written when the server decides about the thread id.
LEMMA NothingYet ==
    ASSUME IInv, NewThread
    PROVE  /\ dispatch \in {"new", "opening"}
           /\ t1["server"] = "none" /\ sequence["server"] = 0 /\ got["server"] = 0
           /\ chan["server"] = <<>> /\ inbox["client"] = <<>>
           /\ \A e \in End : last[e] = NoSequence /\ written[e] = <<>>
<1>1. dispatch \in {"new", "opening"}
  BY DEF NewThread
<1>2. /\ t1["server"] = "none" /\ chan["server"] = <<>> /\ inbox["client"] = <<>>
      /\ last["client"] = NoSequence /\ last["server"] = NoSequence
  BY <1>1 DEF IInv, ServerBegins
<1>3. \A e \in End : last[e] = NoSequence
  BY <1>2 DEF End
<1>4. QED
  BY <1>1, <1>2, <1>3, Ends DEF IInv, Counts, WrittenIsTaken

\* The tunnel of the server begins with number 0.
LEMMA OpenStep ==
    ASSUME IInv, Open, UNCHANGED <<program, viewer>>
    PROVE  IInv'
<1>1. NewThread
  BY DEF Open
<1>2. /\ dispatch' = "tunnel"
      /\ tun' = [tun EXCEPT !["server"] = "running"]
      /\ t1' = [t1 EXCEPT !["server"] = "start"]
      /\ t2' = [t2 EXCEPT !["server"] = IF Listens THEN "done" ELSE "waiting"]
      /\ UNCHANGED <<app, got, sequence, last, written, outShut, up, chan, missed>>
  BY DEF Open, StartTunnel
<1>3. /\ inbox' = inbox \/ inbox' = [inbox EXCEPT !["server"] = Tail(@)]
      /\ inbox' # inbox => inbox["server"] # <<>>
  BY DEF Open, NewThread
<1>4. /\ t1 \in [End -> {"none", "start", "read", "ending", "done", "failed"}]
      /\ t2 \in [End -> {"none", "waiting", "done"}]
      /\ tun \in [End -> {"absent", "running", "closed"}]
      /\ inbox \in [End -> Seq(Message)]
  BY DEF IInv, TypeOK
<1>5. /\ t1'["server"] = "start" /\ t1'["client"] = t1["client"]
      /\ t2'["client"] = t2["client"] /\ inbox'["client"] = inbox["client"]
      /\ inbox'["server"] = inbox["server"] \/
           (inbox["server"] # <<>> /\ inbox'["server"] = Tail(inbox["server"]))
  BY <1>2, <1>3, <1>4, Ends
<1>6. /\ inbox["server"] \in Runs /\ inbox["server"] \in Seq(Message)
      /\ inbox["server"] \in Seq(Fit("client"))
  BY Ends, Known
<1>7. /\ inbox'["server"] \in Runs /\ inbox'["server"] \in Seq(Message)
      /\ inbox'["server"] \in Seq(Fit("client"))
      /\ inbox'["server"] # <<>> => /\ inbox["server"] # <<>>
                                    /\ inbox'["server"][Len(inbox'["server"])]
                                         = inbox["server"][Len(inbox["server"])]
  <2>1. CASE inbox'["server"] = inbox["server"]
    BY <1>6, <2>1
  <2>2. CASE inbox["server"] # <<>> /\ inbox'["server"] = Tail(inbox["server"])
    BY <1>6, <2>2, RunTail, TailFacts
  <2>3. QED
    BY <1>5, <2>1, <2>2
<1>8. TypeOK'
  <2>1. inbox' \in [End -> Seq(Message)]
    <3>1. CASE inbox' = inbox
      BY <1>4, <3>1
    <3>2. CASE inbox["server"] # <<>> /\ inbox' = [inbox EXCEPT !["server"] = Tail(@)]
      BY <1>4, <1>6, <3>2, TailFacts
    <3>3. QED
      BY <1>3, <3>1, <3>2
  <2>2. /\ t1' \in [End -> {"none", "start", "read", "ending", "done", "failed"}]
        /\ t2' \in [End -> {"none", "waiting", "done"}]
        /\ tun' \in [End -> {"absent", "running", "closed"}]
    BY <1>2, <1>4
  <2>3. QED
    BY <1>2, <2>1, <2>2 DEF IInv, TypeOK
<1>9. Counts'
  <2>1. sequence["server"] = 0 /\ got["server"] = 0
    BY <1>1, NothingYet
  <2>2. QED
    BY <1>2, <1>5, <2>1, Ends DEF IInv, Counts, End
<1>10. ServerBegins'
  BY <1>2, <1>5 DEF IInv, ServerBegins, Listens
<1>11. MessagesFit'
  <2>1. ASSUME NEW f \in End
        PROVE  Fit(f) \subseteq Fit(f)'
    <3>1. Finished(f) => Finished(f)' /\ got'[f] = got[f]
      BY <1>1, <1>2, <1>4, NothingYet DEF Finished
    <3>2. got[f] \in Nat /\ got' = got
      BY <1>2 DEF IInv, TypeOK
    <3>3. dispatch # "refused"
      BY <1>1, NothingYet
    <3>4. QED
      BY <3>1, <3>2, <3>3, FitGrows
  <2>2. ASSUME NEW f \in End
        PROVE  chan'[f] \in Seq(Fit(f)) /\ inbox'[f] \in Seq(Fit(Peer(f)))
    BY <1>2, <1>5, <1>7, Known, Ends DEF End
  <2>3. QED
    BY <2>1, <2>2, MovedFits
<1>12. PathInOrder'
  <2>1. (Live("client")' => Live("client")) /\ Coming("client")' = Coming("client")
    BY <1>2, <1>5 DEF Live, Coming
  <2>2. chan["server"] = <<>> /\ inbox["client"] = <<>>
    BY <1>1, NothingYet
  <2>3. ASSUME NEW f \in End
        PROVE  /\ chan'[f] \in Runs /\ inbox'[f] \in Runs
               /\ up'[f] /\ t1'[f] # "none" /\ chan'[f] # <<>>
                    => sequence'[f] = chan'[f][Len(chan'[f])].seq + 1
               /\ Live(Peer(f))' /\ inbox'[f] # <<>>
                    => Coming(Peer(f))' = inbox'[f][Len(inbox'[f])].seq + 1
    <3>1. CASE f = "client"
      BY <1>2, <1>5, <2>2, <3>1, Ends, Known
    <3>2. CASE f = "server"
      BY <1>2, <1>7, <2>1, <2>2, <3>2, Ends, Known
    <3>3. QED
      BY <3>1, <3>2 DEF End
  <2>4. QED
    BY <2>3 DEF PathInOrder, Joins
<1>13. NextIsNext' /\ WrittenIsTaken' /\ ListenerShuts'
  <2>1. ASSUME NEW f \in End
        PROVE  last'[f] = NoSequence /\ written'[f] = <<>>
    BY <1>1, <1>2, NothingYet
  <2>2. QED
    BY <2>1 DEF NextIsNext, WrittenIsTaken, ListenerShuts
<1>14. WaitsForTunnel' /\ NoDataIsMissed'
  BY <1>2 DEF IInv, WaitsForTunnel, NoDataIsMissed, Waits
<1>15. QED
  BY <1>8, <1>9, <1>10, <1>11, <1>12, <1>13, <1>14 DEF IInv

\* The server refuses the thread id, and tells the client outside the numbering.
LEMMA RefuseStep ==
    ASSUME IInv, Refuse, UNCHANGED <<program, viewer>>
    PROVE  IInv'
<1> DEFINE m == Msg(0, "_end", 0)
<1>1. NewThread
  BY DEF Refuse
<1>2. /\ dispatch' = "refused"
      /\ chan' = IF up["server"] THEN [chan EXCEPT !["server"] = Append(@, m)] ELSE chan
      /\ UNCHANGED <<app, got, t1, sequence, t2, last, written, outShut, tun, up, inbox,
                     missed>>
  BY DEF Refuse
<1>3. m \in Message /\ m \in Fit("server")'
  BY <1>2 DEF Msg, Message, Fit
<1>4. /\ chan["server"] = <<>> /\ inbox["client"] = <<>> /\ t1["server"] = "none"
      /\ dispatch \in {"new", "opening"}
      /\ \A f \in End : last[f] = NoSequence
  BY <1>1, NothingYet
<1>5. chan \in [End -> Seq(Message)]
  BY DEF IInv, TypeOK
<1> HIDE DEF m
<1>6. /\ chan'["client"] = chan["client"]
      /\ chan'["server"] = <<m>> \/ chan'["server"] = <<>>
  <2>1. CASE up["server"]
    BY <1>2, <1>4, <1>5, <2>1, Ends
  <2>2. CASE ~up["server"]
    BY <1>2, <1>4, <2>2
  <2>3. QED
    BY <2>1, <2>2
<1>7. TypeOK'
  <2>1. Append(chan["server"], m) \in Seq(Message)
    BY <1>3, <1>5, Ends, AppendFacts
  <2>2. chan' \in [End -> Seq(Message)]
    BY <1>2, <1>5, <2>1
  <2>3. QED
    BY <1>2, <2>2 DEF IInv, TypeOK
<1>8. Counts' /\ WrittenIsTaken' /\ ListenerShuts' /\ NoDataIsMissed'
  BY <1>2 DEF IInv, Counts, WrittenIsTaken, ListenerShuts, NoDataIsMissed, Pumps,
     Listens, Waits
<1>9. ServerBegins'
  BY <1>2, <1>4 DEF IInv, ServerBegins, Listens
<1>10. MessagesFit'
  <2>1. ASSUME NEW f \in End
        PROVE  Fit(f) \subseteq Fit(f)'
    <3>1. Finished(f) => Finished(f)' /\ got'[f] = got[f]
      BY <1>2 DEF Finished
    <3>2. got[f] \in Nat /\ got' = got
      BY <1>2 DEF IInv, TypeOK
    <3>3. QED
      BY <1>2, <3>1, <3>2, FitGrows
  <2>2. QED
    BY <1>2, <1>3, <2>1, Ends, SentFits
<1>11. PathInOrder'
  <2>1. <<m>> \in Runs /\ <<>> \in Runs
    BY <1>3 DEF Runs
  <2>2. (Live("client")' <=> Live("client")) /\ Coming("client")' = Coming("client")
    BY <1>2, <1>6 DEF Live, Coming
  <2>3. ASSUME NEW f \in End
        PROVE  /\ chan'[f] \in Runs /\ inbox'[f] \in Runs
               /\ up'[f] /\ t1'[f] # "none" /\ chan'[f] # <<>>
                    => sequence'[f] = chan'[f][Len(chan'[f])].seq + 1
               /\ Live(Peer(f))' /\ inbox'[f] # <<>>
                    => Coming(Peer(f))' = inbox'[f][Len(inbox'[f])].seq + 1
    <3>1. CASE f = "client"
      BY <1>2, <1>4, <1>6, <3>1, Ends, Known
    <3>2. CASE f = "server"
      BY <1>2, <1>4, <1>6, <2>1, <2>2, <3>2, Ends, Known
    <3>3. QED
      BY <3>1, <3>2 DEF End
  <2>4. QED
    BY <2>3 DEF PathInOrder, Joins
<1>12. NextIsNext'
  BY <1>2, <1>4 DEF NextIsNext
<1>13. WaitsForTunnel'
  BY <1>2, <1>4 DEF IInv, WaitsForTunnel, Waits
<1>14. QED
  BY <1>7, <1>8, <1>9, <1>10, <1>11, <1>12, <1>13 DEF IInv

-----------------------------------------------------------------------------
(* Tunnel threads and connections *)

\* A connection ends, and keeps the first of what it was to send.
LEMMA CutStep ==
    ASSUME IInv, NEW e \in End, NEW n \in 0..Len(chan[e]),
           chan' = chan \/ chan' = [chan EXCEPT ![e] = SubSeq(@, 1, n)],
           up' = [up EXCEPT ![e] = FALSE],
           tun' \in [End -> {"absent", "running", "closed"}],
           missed' \subseteq missed \cup {"sent"},
           UNCHANGED <<app, got, t1, sequence, t2, last, written, outShut, inbox, dispatch,
                       program, viewer>>
    PROVE  IInv'
<1>1. chan \in [End -> Seq(Message)] /\ chan[e] \in Seq(Message) /\ up \in [End -> BOOLEAN]
  BY DEF IInv, TypeOK
<1>2. /\ SubSeq(chan[e], 1, n) \in Seq(Message)
      /\ SubSeq(chan[e], 1, n) \in Seq(Fit(e))
      /\ Len(SubSeq(chan[e], 1, n)) = n /\ Len(chan[e]) \in Nat
  BY <1>1, Known, KeepFacts
<1>3. /\ \A f \in End : f # e => chan'[f] = chan[f]
      /\ chan'[e] = chan[e] \/ chan'[e] = SubSeq(chan[e], 1, n)
  <2>1. CASE chan' = chan
    BY <2>1
  <2>2. CASE chan' = [chan EXCEPT ![e] = SubSeq(@, 1, n)]
    BY <1>1, <2>2
  <2>3. QED
    BY <2>1, <2>2
<1>4. TypeOK'
  <2>1. chan' \in [End -> Seq(Message)]
    <3>1. CASE chan' = chan
      BY <1>1, <3>1
    <3>2. CASE chan' = [chan EXCEPT ![e] = SubSeq(@, 1, n)]
      BY <1>1, <1>2, <3>2
    <3>3. QED
      BY <3>1, <3>2
  <2>2. up' \in [End -> BOOLEAN]
    BY <1>1
  <2>3. missed' \subseteq {"_start", "data", "_end", "sent"}
    BY DEF IInv, TypeOK
  <2>4. QED
    BY <2>1, <2>2, <2>3 DEF IInv, TypeOK
<1>5. Counts' /\ WrittenIsTaken' /\ ListenerShuts' /\ WaitsForTunnel'
  BY DEF IInv, Counts, WrittenIsTaken, ListenerShuts, WaitsForTunnel, Pumps, Listens, Waits
<1>6. ServerBegins'
  <2>1. chan["server"] = <<>> => chan'["server"] = <<>>
    <3>1. CASE e = "server"
      <4>1. chan[e] = <<>> => SubSeq(chan[e], 1, n) = <<>>
        BY <1>1, <1>2, EmptyFacts
      <4>2. QED
        BY <1>3, <3>1, <4>1
    <3>2. CASE e # "server"
      BY <1>3, <3>2, Ends
    <3>3. QED
      BY <3>1, <3>2
  <2>2. QED
    BY <2>1 DEF IInv, ServerBegins, Listens
<1>7. MessagesFit'
  <2>1. ASSUME NEW f \in End
        PROVE  Fit(f) \subseteq Fit(f)'
    BY DEF Fit, Finished
  <2>2. ASSUME NEW f \in End
        PROVE  chan'[f] \in Seq(Fit(f)) /\ inbox'[f] \in Seq(Fit(Peer(f)))
    BY <1>2, <1>3, Known
  <2>3. QED
    BY <2>1, <2>2, MovedFits
<1>8. PathInOrder' /\ NextIsNext'
  BY CutInOrder
<1>9. NoDataIsMissed'
  BY DEF IInv, NoDataIsMissed, Waits
<1>10. QED
  BY <1>4, <1>5, <1>6, <1>7, <1>8, <1>9 DEF IInv

LEMMA DropStep ==
    ASSUME IInv, NEW e \in End, Drop(e), UNCHANGED <<program, viewer>>
    PROVE  IInv'
<1>1. PICK n \in 0..Len(chan[e]) : chan' = [chan EXCEPT ![e] = SubSeq(@, 1, n)]
  BY DEF Drop
<1>2. /\ up' = [up EXCEPT ![e] = FALSE] /\ missed' \subseteq missed \cup {"sent"}
      /\ UNCHANGED <<app, got, t1, sequence, t2, last, written, outShut, tun, inbox,
                     dispatch>>
  BY DEF Drop
<1>3. tun' \in [End -> {"absent", "running", "closed"}]
  BY <1>2 DEF IInv, TypeOK
<1>4. QED
  BY <1>1, <1>2, <1>3, CutStep

\* Only the client of vnc2xmpp closes its connection with its tunnel.
LEMMA CloseStep ==
    ASSUME IInv, NEW e \in End, Close(e), UNCHANGED <<program, viewer>>
    PROVE  IInv'
<1>1. /\ tun' \in [End -> {"absent", "running", "closed"}]
      /\ UNCHANGED <<app, got, t1, sequence, t2, last, written, outShut, inbox, dispatch>>
  BY DEF Close, IInv, TypeOK
<1>2. CASE e = "client" /\ ~Listens
  <2>1. up' = [up EXCEPT ![e] = FALSE]
    BY <1>2 DEF Close
  <2>2. \/ KeepsSome(e)
        \/ UNCHANGED <<chan, missed>>
    BY <1>2 DEF Close
  <2>3. CASE KeepsSome(e)
    <3>1. PICK n \in 0..Len(chan[e]) :
            /\ chan' = [chan EXCEPT ![e] = SubSeq(@, 1, n)]
            /\ missed' \subseteq missed \cup {"sent"}
      BY <2>3 DEF KeepsSome
    <3>2. QED
      BY <1>1, <2>1, <3>1, CutStep
  <2>4. CASE UNCHANGED <<chan, missed>>
    <3>1. 0 \in 0..Len(chan[e])
      BY EmptyFacts DEF IInv, TypeOK
    <3>2. QED
      BY <1>1, <2>1, <2>4, <3>1, CutStep
  <2>5. QED
    BY <2>2, <2>3, <2>4
<1>3. CASE ~(e = "client" /\ ~Listens)
  <2>1. UNCHANGED <<up, chan, missed>>
    BY <1>3 DEF Close
  <2>2. TypeOK'
    BY <1>1, <2>1 DEF IInv, TypeOK
  <2>3. Counts' /\ ServerBegins'
    BY <1>1, <2>1 DEF IInv, Counts, ServerBegins, Listens
  <2>4. MessagesFit'
    BY <1>1, <2>1 DEF IInv, MessagesFit, Fit, Finished
  <2>5. PathInOrder' /\ NextIsNext' /\ WrittenIsTaken'
    BY <1>1, <2>1 DEF IInv, PathInOrder, NextIsNext, WrittenIsTaken, Joins, Live, Coming,
       Pumps, Listens
  <2>6. ListenerShuts' /\ WaitsForTunnel' /\ NoDataIsMissed'
    BY <1>1, <2>1 DEF IInv, ListenerShuts, WaitsForTunnel, NoDataIsMissed, Listens, Waits
  <2>7. QED
    BY <2>2, <2>3, <2>4, <2>5, <2>6 DEF IInv
<1>4. QED
  BY <1>2, <1>3

-----------------------------------------------------------------------------
(* The invariant *)

LEMMA IInvInit == Init => IInv
<1> SUFFICES ASSUME Init PROVE IInv
  OBVIOUS
<1>1. <<>> \in Seq(Message) /\ <<>> \in Seq(Nat) /\ <<>> \in Runs
      /\ \A e \in End : <<>> \in Seq(Fit(e)) /\ <<>> \in Seq(Fit(Peer(e)))
  BY DEF Runs
<1>2. TypeOK
  BY <1>1 DEF Init, TypeOK
<1>3. Counts /\ ServerBegins
  BY DEF Init, Counts, ServerBegins, End
<1>4. MessagesFit /\ PathInOrder
  BY <1>1, Ends DEF Init, MessagesFit, PathInOrder, Joins
<1>5. NextIsNext /\ WrittenIsTaken /\ ListenerShuts
  BY DEF Init, NextIsNext, WrittenIsTaken, ListenerShuts
<1>6. WaitsForTunnel /\ NoDataIsMissed
  BY DEF Init, WaitsForTunnel, NoDataIsMissed, End
<1>7. QED
  BY <1>2, <1>3, <1>4, <1>5, <1>6 DEF IInv

LEMMA StutterStep ==
    ASSUME IInv, UNCHANGED <<vars, program, viewer>>
    PROVE  IInv'
<1>1. TypeOK' /\ Counts' /\ ServerBegins'
  BY DEF IInv, TypeOK, Counts, ServerBegins, Listens, vars
<1>2. MessagesFit'
  BY DEF IInv, MessagesFit, Fit, Finished, vars
<1>3. PathInOrder' /\ NextIsNext' /\ WrittenIsTaken'
  BY DEF IInv, PathInOrder, NextIsNext, WrittenIsTaken, Joins, Live, Coming, Pumps, Listens,
     vars
<1>4. ListenerShuts' /\ WaitsForTunnel' /\ NoDataIsMissed'
  BY DEF IInv, ListenerShuts, WaitsForTunnel, NoDataIsMissed, Listens, Waits, vars
<1>5. QED
  BY <1>1, <1>2, <1>3, <1>4 DEF IInv

LEMMA IInvStep == IInv /\ [Next]_<<vars, program, viewer>> => IInv'
<1> SUFFICES ASSUME IInv, [Next]_<<vars, program, viewer>> PROVE IInv'
  OBVIOUS
<1>1. CASE UNCHANGED <<vars, program, viewer>>
  BY <1>1, StutterStep
<1>2. CASE Next
  <2>1. UNCHANGED <<program, viewer>>
    BY <1>2 DEF Next
  <2>2. ASSUME NEW e \in End,
               \/ Program(e) \/ ReadChunk(e)
               \/ AppClose(e) \/ AppReset(e) \/ Drop(e)
        PROVE  IInv'
    BY <2>1, <2>2, SendStartStep, ReadEndsStep, SendEndStep, ReceiveStep, CallbackStep,
       ArriveStep, CloseStep, ReadChunkStep, AppCloseStep, AppResetStep, DropStep DEF Program
  <2>3. CASE Open
    BY <2>1, <2>3, OpenStep
  <2>4. CASE Refuse
    BY <2>1, <2>4, RefuseStep
  <2>5. QED
    BY <1>2, <2>2, <2>3, <2>4 DEF Next, Step
<1>3. QED
  BY <1>1, <1>2

\* Numbers rise by one along each direction, in both older programs, and a
\* pump writes what was read, in its order.
THEOREM LegacyInvariant == Spec => []IInv
<1>1. QED
  BY IInvInit, IInvStep, PTL DEF Spec

\* No data of a viewer that waits is missed while the server opens its socket.
THEOREM NoDataIsMissedHolds == Spec => []NoDataIsMissed
<1>1. IInv => NoDataIsMissed
  BY DEF IInv
<1>2. QED
  BY <1>1, LegacyInvariant, PTL

-----------------------------------------------------------------------------
(* What is written *)

\* Only what receives at e writes to its socket, or shuts it.
LEMMA OnlyReceiversWrite ==
    ASSUME IInv, [Next]_<<vars, program, viewer>>, NEW e \in End,
           ~Receive(e), ~Callback(e)
    PROVE  written'[e] = written[e] /\ outShut'[e] = outShut[e]
<1>1. CASE UNCHANGED <<written, outShut>>
  BY <1>1
<1> USE DEF IInv, TypeOK
<1>2. ASSUME NEW f \in End, f # e, Receive(f)
      PROVE  written'[e] = written[e] /\ outShut'[e] = outShut[e]
  BY <1>2 DEF Receive, Write, ShutdownOutput
<1>3. ASSUME NEW f \in End, f # e, Callback(f)
      PROVE  written'[e] = written[e] /\ outShut'[e] = outShut[e]
  BY <1>3 DEF Callback, ProcessMessage, Write, ShutdownOutput
<1>4. ASSUME NEW f \in End, SendStart(f) \/ ReadEnds(f) \/ SendEnd(f) \/ Arrive(f) \/ Close(f)
                              \/ ReadChunk(f) \/ AppClose(f) \/ AppReset(f) \/ Drop(f)
      PROVE  UNCHANGED <<written, outShut>>
  BY <1>4
  DEF SendStart, ReadEnds, SendEnd, Sends, Arrive, Close, ReadChunk, AppClose, AppReset, Drop
<1>5. CASE Open \/ Refuse \/ UNCHANGED <<vars, program, viewer>>
  BY <1>1, <1>5 DEF Open, Refuse, vars
<1>6. QED
  BY <1>1, <1>2, <1>3, <1>4, <1>5 DEF Next, Step, Program

\* A chunk is written by the first call of a listener, or follows what the
\* pump has written, and it was read at the far end.
LEMMA WritesInOrder ==
    ASSUME IInv, NEW e \in End, Receive(e) \/ Callback(e), written'[e] # written[e]
    PROVE  /\ outShut'[e] = outShut[e] \/ Listens
           /\ ~outShut[e]
           /\ Listens => last[e] = NoSequence
           /\ \E c \in 1..got[Peer(e)] :
                /\ written[e] # <<>> => c = written[e][Len(written[e])] + 1
                /\ written'[e] = Append(written[e], c)
<1> DEFINE m == inbox[e][1]
<1>1. inbox[e] # <<>>
  BY DEF Receive, Callback
<1>2. /\ Head(inbox[e]) = m /\ m.seq # NoSequence
      /\ m.kind = "data" => m.chunk = m.seq /\ m.seq \in 1..got[Peer(e)]
      /\ Pumps(e) /\ last[e] # NoSequence => m.seq = last[e] + 1
  BY <1>1, FrontFacts
<1>3. /\ m.kind = "data" /\ Writable(e)
      /\ written'[e] = Append(written[e], m.chunk)
      /\ \/ Pumps(e) /\ outShut' = outShut
         \/ Listens
  <2>1. CASE Receive(e)
    <3>1. \/ written' = written
          \/ /\ m.kind = "data" /\ Writable(e) /\ outShut' = outShut
             /\ written' = [written EXCEPT ![e] = Append(@, m.chunk)]
      BY <1>2, <2>1 DEF Receive, Write
    <3>2. Pumps(e)
      BY <2>1 DEF Receive, Pumps
    <3>3. written \in [End -> Seq(Nat)] /\ written' # written
      BY DEF IInv, TypeOK
    <3>4. /\ m.kind = "data" /\ Writable(e) /\ outShut' = outShut
          /\ written' = [written EXCEPT ![e] = Append(@, m.chunk)]
      BY <3>1, <3>3
    <3>5. written'[e] = Append(written[e], m.chunk)
      BY <3>3, <3>4
    <3>6. QED
      BY <3>2, <3>4, <3>5
  <2>2. CASE Callback(e)
    BY SMTT(30), <1>2, <2>2 DEF Callback, ProcessMessage, Write, IInv, TypeOK
  <2>3. QED
    BY <2>1, <2>2
<1> HIDE DEF m
<1>4. ~outShut[e] /\ app[e] # "reset"
  BY <1>3 DEF Writable
<1>5. Listens => last[e] = NoSequence
  BY <1>4 DEF IInv, ListenerShuts
<1>6. /\ last[e] = NoSequence => written[e] = <<>>
      /\ written[e] # <<>> /\ Pumps(e) => written[e][Len(written[e])] = last[e]
  BY DEF IInv, WrittenIsTaken
<1>7. written[e] # <<>> => m.chunk = written[e][Len(written[e])] + 1
  BY <1>2, <1>3, <1>5, <1>6
<1>8. m.chunk \in 1..got[Peer(e)]
  BY <1>2, <1>3
<1>9. QED
  BY <1>3, <1>4, <1>5, <1>7, <1>8

\* The pump shuts the output of a socket it has written to at the end of what
\* was read: it takes every number, so no other message stops it.
LEMMA ShutsAtEnd ==
    ASSUME IInv, NEW e \in End, Receive(e), outShut'[e] # outShut[e]
    PROVE  /\ ~outShut[e] /\ outShut'[e] = TRUE /\ written'[e] = written[e]
           /\ written[e] # <<>> => /\ Finished(Peer(e))
                                   /\ written[e][Len(written[e])] = got[Peer(e)]
<1> DEFINE m == inbox[e][1]
<1>1. inbox[e] # <<>> /\ Pumps(e)
  BY DEF Receive, Pumps
<1>2. /\ Head(inbox[e]) = m /\ m.seq \in Nat
      /\ m.kind \in {"_start", "data", "_end"}
      /\ m.kind = "_end" => \/ Finished(Peer(e)) /\ m.seq = got[Peer(e)] + 1
                            \/ m.seq = 0
      /\ last[e] # NoSequence => m.seq = last[e] + 1
  BY <1>1, FrontFacts
<1>3. Accepts(last[e], m.seq)
  BY <1>2 DEF Accepts
<1>4. /\ ~outShut[e] /\ outShut'[e] = TRUE /\ written'[e] = written[e]
      /\ m.kind = "_end"
  <2>1. \/ outShut' = outShut
        \/ /\ ~(m.kind = "_start" \/ (m.kind = "data" /\ Writable(e)))
           /\ written' = written
           /\ outShut' = [outShut EXCEPT ![e] = @ \/ Writable(e)]
    BY <1>2, <1>3 DEF Receive, ShutdownOutput
  <2>2. outShut \in [End -> BOOLEAN] /\ outShut' # outShut
    BY DEF IInv, TypeOK
  <2>3. /\ ~(m.kind = "_start" \/ (m.kind = "data" /\ Writable(e)))
        /\ written' = written
        /\ outShut' = [outShut EXCEPT ![e] = @ \/ Writable(e)]
    BY <2>1, <2>2
  <2>4. outShut'[e] = (outShut[e] \/ Writable(e))
    BY <2>2, <2>3
  <2>5. ~outShut[e] /\ Writable(e)
    BY <2>2, <2>4
  <2>6. QED
    BY <1>2, <2>3, <2>4, <2>5
<1> HIDE DEF m
<1>5. ASSUME written[e] # <<>>
      PROVE  Finished(Peer(e)) /\ written[e][Len(written[e])] = got[Peer(e)]
  <2>1. /\ last[e] # NoSequence /\ last[e] \in Nat /\ got[Peer(e)] \in Nat
        /\ written[e][Len(written[e])] = last[e]
    BY <1>1, <1>5, Ends DEF IInv, TypeOK, WrittenIsTaken
  <2>2. QED
    BY <1>2, <1>4, <2>1
<1>6. QED
  BY <1>4, <1>5

\* The listener of vnc2xmpp3 writes one chunk at most, and its first call is
\* the one that does.
THEOREM OneMessageOnlyHolds == Spec => OneMessageOnly
<1>1. IInv /\ [Next]_<<vars, program, viewer>>
        => [\A e \in End : Listens /\ written'[e] # written[e] => last[e] = NoSequence]_vars
  BY OnlyReceiversWrite, WritesInOrder
<1>2. QED
  BY <1>1, LegacyInvariant, PTL DEF Spec, OneMessageOnly

-----------------------------------------------------------------------------
(* Each direction implements Pipe. *)

Stream(e) == INSTANCE Pipe WITH
    produced <- got[Peer(e)], finished <- t1[Peer(e)] \in {"done", "failed"},
    delivered <- written[e], ended <- outShut[e] /\ ~Listens

\* What was read at e, and whether t1 has finished, changes only as t1 sends.
LEMMA SourceStill ==
    ASSUME IInv, [Next]_<<vars, program, viewer>>, NEW e \in End,
           ~ReadChunk(e), ~SendStart(e), ~SendEnd(e)
    PROVE  got'[e] = got[e] /\ (Finished(e)' <=> Finished(e))
<1>1. CASE UNCHANGED <<got, t1>>
  BY <1>1 DEF Finished
<1> USE DEF IInv, TypeOK, Finished
<1>2. ASSUME NEW f \in End, f # e, ReadChunk(f) \/ SendStart(f) \/ SendEnd(f)
      PROVE  got'[e] = got[e] /\ t1'[e] = t1[e]
  BY <1>2 DEF ReadChunk, SendStart, SendEnd, Sends
<1>3. ASSUME NEW f \in End, ReadEnds(f)
      PROVE  got'[e] = got[e] /\ (Finished(e)' <=> Finished(e))
  BY <1>3 DEF ReadEnds
<1>4. ASSUME NEW f \in End, Receive(f) \/ Callback(f) \/ Arrive(f) \/ Close(f)
                              \/ AppClose(f) \/ AppReset(f) \/ Drop(f)
      PROVE  UNCHANGED <<got, t1>>
  BY <1>4 DEF Receive, Callback, Arrive, Close, AppClose, AppReset, Drop
<1>5. CASE Open
  <2>1. t1["server"] = "none"
    BY <1>5, NothingYet DEF Open
  <2>2. QED
    BY <1>5, <2>1 DEF Open, StartTunnel
<1>6. CASE Refuse \/ UNCHANGED <<vars, program, viewer>>
  BY <1>1, <1>6 DEF Refuse, vars
<1>7. QED
  BY <1>1, <1>2, <1>3, <1>4, <1>5, <1>6 DEF Next, Step, Program

\* Every step is one of the pipe into e, or none.
LEMMA StreamStep ==
    ASSUME IInv, [Next]_<<vars, program, viewer>>, NEW e \in End
    PROVE  [Stream(e)!Next]_(Stream(e)!vars)
<1>1. /\ Peer(e) \in End
      /\ got \in [End -> Nat]
      /\ t1 \in [End -> {"none", "start", "read", "ending", "done", "failed"}]
      /\ Listens' <=> Listens
  BY Ends DEF IInv, TypeOK, Next, Listens
<1>2. CASE Receive(e) \/ Callback(e)
  <2>1. UNCHANGED <<got, t1>>
    BY <1>2 DEF Receive, Callback
  <2>2. CASE written'[e] # written[e]
    BY <1>1, <1>2, <2>1, <2>2, WritesInOrder DEF Stream!Next, Stream!Deliver
  <2>3. CASE written'[e] = written[e] /\ outShut'[e] # outShut[e] /\ ~Listens
    <3>1. Receive(e)
      BY <1>2, <2>3 DEF Callback
    <3>2. QED
      BY <1>1, <2>1, <2>3, <3>1, ShutsAtEnd DEF Stream!Next, Stream!Shut, Finished
  <2>4. CASE written'[e] = written[e] /\ (outShut'[e] = outShut[e] \/ Listens)
    BY <1>1, <2>1, <2>4 DEF Stream!vars
  <2>5. QED
    BY <2>2, <2>3, <2>4
<1>3. CASE ~Receive(e) /\ ~Callback(e)
  <2>1. written'[e] = written[e] /\ outShut'[e] = outShut[e]
    BY <1>3, OnlyReceiversWrite
  <2>2. CASE ReadChunk(Peer(e))
    <3>1. /\ t1[Peer(e)] = "read" /\ got'[Peer(e)] = got[Peer(e)] + 1
          /\ t1'[Peer(e)] \in {"read", "ending"}
      BY <1>1, <2>2 DEF ReadChunk, Sends
    <3>2. QED
      BY <1>1, <2>1, <3>1 DEF Stream!Next, Stream!Produce
  <2>3. CASE SendStart(Peer(e)) \/ SendEnd(Peer(e))
    <3>1. /\ t1[Peer(e)] \in {"start", "ending"} /\ got' = got
          /\ t1'[Peer(e)] \in {"read", "done", "failed"}
      BY <1>1, <2>3 DEF SendStart, SendEnd, Sends
    <3>2. QED
      BY <1>1, <2>1, <3>1 DEF Stream!Next, Stream!Finish, Stream!vars
  <2>4. CASE ~ReadChunk(Peer(e)) /\ ~SendStart(Peer(e)) /\ ~SendEnd(Peer(e))
    BY <1>1, <2>1, <2>4, SourceStill DEF Stream!vars, Finished
  <2>5. QED
    BY <2>2, <2>3, <2>4
<1>4. QED
  BY <1>2, <1>3

\* In both older programs each socket is the far end of a pipe from the other.
THEOREM LegacyStreamsArePipes == Spec => StreamsArePipes
<1>1. /\ "client" \in End /\ Peer("client") = "server"
      /\ "server" \in End /\ Peer("server") = "client"
  BY Ends
<1>2. Init => Downstream!Init /\ Upstream!Init
  BY <1>1 DEF Init, Downstream!Init, Upstream!Init
<1>3. IInv /\ [Next]_<<vars, program, viewer>> => [Downstream!Next]_(Downstream!vars)
  BY <1>1, StreamStep
  DEF Stream!Next, Stream!Produce, Stream!Finish, Stream!Deliver, Stream!Shut,
      Stream!vars, Downstream!Next, Downstream!Produce, Downstream!Finish,
      Downstream!Deliver, Downstream!Shut, Downstream!vars
<1>4. IInv /\ [Next]_<<vars, program, viewer>> => [Upstream!Next]_(Upstream!vars)
  BY <1>1, StreamStep
  DEF Stream!Next, Stream!Produce, Stream!Finish, Stream!Deliver, Stream!Shut,
      Stream!vars, Upstream!Next, Upstream!Produce, Upstream!Finish,
      Upstream!Deliver, Upstream!Shut, Upstream!vars
<1>5. QED
  BY <1>2, <1>3, <1>4, LegacyInvariant, PTL
  DEF Spec, StreamsArePipes, Downstream!Spec, Upstream!Spec

=============================================================================
