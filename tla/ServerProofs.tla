---------------------------- MODULE ServerProofs ----------------------------
(***************************************************************************)
(* Proofs that IInv is an invariant of Server, for any set of viewers and  *)
(* any setup, and of the properties that follow from it.                   *)
(***************************************************************************)
EXTENDS ServerInv, SequenceTheorems, TLAPS

-----------------------------------------------------------------------------
(* Queues *)

\* The front of a queue of packets and what is left of it.
LEMMA TailFacts ==
    ASSUME NEW S, NEW q \in Seq(S), q # <<>>
    PROVE  /\ Tail(q) \in Seq(S)
           /\ Len(q) \in Nat /\ Len(q) >= 1
           /\ Len(Tail(q)) = Len(q) - 1
           /\ Head(q) = q[1] /\ Head(q) \in S
           /\ \A i \in 1..Len(Tail(q)) : i + 1 \in 1..Len(q) /\ Tail(q)[i] = q[i + 1]
    OBVIOUS

\* A packet joins the end of a queue.
LEMMA AppendFacts ==
    ASSUME NEW S, NEW q \in Seq(S), NEW m \in S
    PROVE  /\ Append(q, m) \in Seq(S)
           /\ Len(q) \in Nat
           /\ Len(Append(q, m)) = Len(q) + 1
           /\ \A i \in 1..Len(q) : Append(q, m)[i] = q[i]
           /\ Append(q, m)[Len(q) + 1] = m
    OBVIOUS

-----------------------------------------------------------------------------
(* Types *)

\* The bounds do not change.
LEMMA SameSetup ==
    Next => /\ setup' = setup /\ Last' = Last /\ MaxDrops' = MaxDrops
            /\ Orders' = Orders /\ Faults' = Faults /\ Packet' = Packet
            /\ Task' = Task
    BY DEF Next, Last, MaxDrops, Orders, Faults, Packet, Task

\* The bounds are what SetupsAssumption says.
LEMMA SetupTypes ==
    TypeOK => /\ Last \in Nat /\ MaxDrops \in Nat /\ Faults \subseteq FaultKinds
              /\ Orders \subseteq {PacketFirst, ChatFirst}
    BY SetupsAssumption DEF TypeOK, Last, MaxDrops, Orders, Faults

\* The ways of visiting the listeners.
LEMMA Visits ==
    /\ PacketFirst # <<>> /\ Head(PacketFirst) = "packet" /\ Tail(PacketFirst) = <<"chat">>
    /\ ChatFirst # <<>> /\ Head(ChatFirst) = "chat" /\ Tail(ChatFirst) = <<"packet">>
    /\ <<"packet">> # <<>> /\ Head(<<"packet">>) = "packet" /\ Tail(<<"packet">>) = <<>>
    /\ <<"chat">> # <<>> /\ Head(<<"chat">>) = "chat" /\ Tail(<<"chat">>) = <<>>
    /\ PacketFirst # ChatFirst /\ <<"packet">> # <<"chat">>
    /\ PacketFirst # <<"packet">> /\ PacketFirst # <<"chat">>
    /\ ChatFirst # <<"packet">> /\ ChatFirst # <<"chat">>
<1>1. Len(PacketFirst) = 2 /\ Len(ChatFirst) = 2 /\ PacketFirst[1] # ChatFirst[1]
  BY DEF PacketFirst, ChatFirst
<1>2. Len(<<"packet">>) = 1 /\ Len(<<"chat">>) = 1 /\ Len(<<>>) = 0
  OBVIOUS
<1>3. Tail(PacketFirst) = <<"chat">> /\ Tail(ChatFirst) = <<"packet">>
  BY DEF PacketFirst, ChatFirst
<1>4. Head(PacketFirst) = "packet" /\ Head(ChatFirst) = "chat"
  BY DEF PacketFirst, ChatFirst
<1>5. Head(<<"packet">>) = "packet" /\ Head(<<"chat">>) = "chat"
  OBVIOUS
<1>6. Tail(<<"packet">>) = <<>> /\ Tail(<<"chat">>) = <<>>
  OBVIOUS
<1>7. QED
  BY <1>1, <1>2, <1>3, <1>4, <1>5, <1>6

\* The packet at work and the listeners it is still to visit.
LEMMA TaskTypes ==
    ASSUME TypeOK, Busy
    PROVE  /\ task[1] \in Task
           /\ packet \in Packet /\ packet.viewer \in Viewer /\ packet.seq \in 0..Last
           /\ Todo \in {PacketFirst, ChatFirst, <<"packet">>, <<"chat">>}
<1>1. task \in Seq(Task) /\ task # <<>>
  BY DEF TypeOK, Busy
<1>2. task[1] \in Task
  BY <1>1, TailFacts
<1>3. QED
  BY <1>2 DEF packet, Todo, Task, Packet

\* The callback thread has at most one packet at hand.
LEMMA OneTask ==
    ASSUME NEW t \in Task
    PROVE  <<t>> \in Seq(Task) /\ Len(<<t>>) = 1 /\ <<t>> # <<>> /\ <<t>>[1] = t
    OBVIOUS

\* What it has left to do after one listener.
LEMMA RestTypes ==
    ASSUME TypeOK, Busy,
           NEW todo \in {PacketFirst, ChatFirst, <<"packet">>, <<"chat">>, <<>>}
    PROVE  Rest(todo) \in Seq(Task) /\ Len(Rest(todo)) <= 1
<1> DEFINE r == [packet |-> packet, todo |-> todo]
<1>1. CASE todo # <<>>
  <2>1. r \in Task
    BY <1>1, TaskTypes DEF Task
  <2> HIDE DEF r
  <2>2. <<r>> \in Seq(Task) /\ Len(<<r>>) = 1
    BY <2>1
  <2>3. QED
    BY <1>1, <2>2 DEF Rest, r
<1>2. CASE todo = <<>>
  <2>1. <<>> \in Seq(Task) /\ Len(<<>>) = 0
    OBVIOUS
  <2>2. QED
    BY <1>2, <2>1 DEF Rest
<1>3. QED
  BY <1>1, <1>2

\* So has it once a listener has returned.
LEMMA VisitedTypes ==
    ASSUME TypeOK, task # <<>>, Visited
    PROVE  task' \in Seq(Task) /\ Len(task') <= 1
<1>1. Tail(Todo) \in {<<"chat">>, <<"packet">>, <<>>}
  BY TaskTypes, Visits DEF Busy
<1>2. QED
  BY <1>1, RestTypes DEF Visited, Busy, Todo

\* And a pump that has checked a packet and perhaps written it.
LEMMA ProcessTypes ==
    ASSUME TypeOK, NEW v \in Viewer, NEW p \in Packet, ProcessMessage(v, p)
    PROVE  /\ last' \in [Viewer -> {NoSequence} \cup 0..Last]
           /\ stop' \in [Viewer -> BOOLEAN] /\ shut' \in [Viewer -> BOOLEAN]
           /\ given' \in [Viewer -> Seq(Packet)]
<1>1. CheckSequence(last[v], p.seq) \in {NoSequence} \cup 0..Last
  BY DEF CheckSequence, TypeOK, Packet
<1>2. Append(given[v], p) \in Seq(Packet)
  BY DEF TypeOK
<1>3. last' \in [Viewer -> {NoSequence} \cup 0..Last]
  BY <1>1 DEF ProcessMessage, TypeOK
<1>4. stop' \in [Viewer -> BOOLEAN] /\ shut' \in [Viewer -> BOOLEAN]
  BY DEF ProcessMessage, TypeOK
<1>5. given' \in [Viewer -> Seq(Packet)]
  BY <1>2 DEF ProcessMessage, TypeOK
<1>6. QED
  BY <1>3, <1>4, <1>5

\* The types of the variables, the bounds taken from their names.
LEMMA TypeStep == TypeOK /\ Next => TypeOK'
<1> SUFFICES ASSUME TypeOK, Next PROVE TypeOK'
  OBVIOUS
<1>s. /\ setup' = setup /\ Last' = Last /\ MaxDrops' = MaxDrops
      /\ Orders' = Orders /\ Packet' = Packet /\ Task' = Task
  BY SameSetup
<1>n. Last \in Nat /\ MaxDrops \in Nat
  BY SetupTypes
<1>a. ASSUME NEW v \in Viewer, Send(v) PROVE TypeOK'
  <2>1. sent[v] \in 0..Last /\ [viewer |-> v, seq |-> sent[v]] \in Packet
    BY <1>a, <1>n DEF TypeOK, Send, Packet
  <2>2. Append(wire[v], [viewer |-> v, seq |-> sent[v]]) \in Seq(Packet)
    BY <2>1 DEF TypeOK
  <2>3. wire' \in [Viewer -> Seq(Packet)] /\ sent' \in [Viewer -> 0..(Last + 1)]
    BY <1>a, <1>n, <2>1, <2>2 DEF TypeOK, Send
  <2>4. QED
    BY <1>a, <1>s, <2>3 DEF TypeOK, Send, loopVars, chatVars, pumpVars
<1>b. ASSUME NEW v \in Viewer, Arrive(v) PROVE TypeOK'
  <2>1. wire[v] \in Seq(Packet) /\ wire[v] # <<>>
    BY <1>b DEF TypeOK, Arrive
  <2>2. Tail(wire[v]) \in Seq(Packet) /\ Head(wire[v]) \in Packet
    BY <2>1, TailFacts
  <2>3. wire' \in [Viewer -> Seq(Packet)] /\ queue' \in Seq(Packet)
    BY <1>b, <2>2 DEF TypeOK, Arrive
  <2>4. QED
    BY <1>b, <1>s, <2>3 DEF TypeOK, Arrive, loopVars, chatVars, pumpVars
<1>c. ASSUME NEW v \in Viewer, Lose(v) PROVE TypeOK'
  <2>1. wire[v] \in Seq(Packet) /\ wire[v] # <<>>
    BY <1>c DEF TypeOK, Lose
  <2>2. Tail(wire[v]) \in Seq(Packet)
    BY <2>1, TailFacts
  <2>3. wire' \in [Viewer -> Seq(Packet)] /\ missed' \in [Viewer -> BOOLEAN]
    BY <1>c, <2>2 DEF TypeOK, Lose, Miss
  <2>4. QED
    BY <1>c, <1>s, <2>3 DEF TypeOK, Lose, loopVars, chatVars, pumpVars
<1>d. ASSUME NEW v \in Viewer, RegisterPump(v) PROVE TypeOK'
  BY <1>d, <1>s DEF TypeOK, RegisterPump, loopVars, wireVars, chatVars
<1>e. ASSUME NEW v \in Viewer, TunnelEnds(v) PROVE TypeOK'
  BY <1>e, <1>s DEF TypeOK, TunnelEnds, loopVars, wireVars, chatVars
<1>f. ASSUME NEW v \in Viewer, CollectChat(v) PROVE TypeOK'
  BY <1>f, <1>s DEF TypeOK, CollectChat, loopVars, wireVars, pumpVars
<1>g. ASSUME Take PROVE TypeOK'
  <2>1. queue \in Seq(Packet) /\ queue # <<>>
    BY <1>g DEF TypeOK, Take
  <2>2. Tail(queue) \in Seq(Packet) /\ Head(queue) \in Packet
    BY <2>1, TailFacts
  <2>3. order \in {PacketFirst, ChatFirst}
    BY SetupTypes DEF TypeOK
  <2>4. Registered \in {PacketFirst, ChatFirst, <<"packet">>, <<"chat">>, <<>>}
    BY <2>3 DEF Registered, TypeOK
  <2>5. ASSUME Registered # <<>>
        PROVE  [packet |-> Head(queue), todo |-> Registered] \in Task
    BY <2>2, <2>4, <2>5 DEF Task
  <2>6. ASSUME Registered # <<>> PROVE task' \in Seq(Task) /\ Len(task') <= 1
    <3> DEFINE t == [packet |-> Head(queue), todo |-> Registered]
    <3>1. t \in Task
      BY <2>5, <2>6
    <3>2. task' = <<t>>
      BY <1>g, <2>6 DEF Take
    <3> HIDE DEF t
    <3>3. QED
      BY <3>1, <3>2, OneTask
  <2>7. task' \in Seq(Task) /\ Len(task') <= 1
    BY <1>g, <2>6 DEF TypeOK, Take
  <2>8. missed' \in [Viewer -> BOOLEAN]
    BY <1>g DEF TypeOK, Take, Miss
  <2>9. QED
    BY <1>g, <1>s, <2>2, <2>7, <2>8 DEF TypeOK, Take, loopVars, wireVars, chatVars, pumpVars
<1>h. ASSUME TunnelAlive PROVE TypeOK'
  <2>1. task' \in Seq(Task) /\ Len(task') <= 1
    BY <1>h, VisitedTypes DEF TunnelAlive, Visiting
  <2>2. QED
    BY <1>h, <1>s, <2>1 DEF TypeOK, TunnelAlive, loopVars, wireVars, chatVars, pumpVars
<1>i. ASSUME NewTunnel PROVE TypeOK'
  <2>1. task' \in Seq(Task) /\ Len(task') <= 1
    <3>1. Tail(Todo) \in {<<"chat">>, <<"packet">>, <<>>} /\ Busy
      BY <1>i, TaskTypes, Visits DEF NewTunnel, Visiting, Busy
    <3>2. QED
      BY <1>i, <3>1, RestTypes DEF NewTunnel, Todo
  <2>2. packet.viewer \in Viewer
    BY <1>i, TaskTypes DEF NewTunnel, Visiting, Busy
  <2>3. missed' \in [Viewer -> BOOLEAN]
    BY <1>i DEF TypeOK, NewTunnel, MissUnless, Miss
  <2>4. QED
    BY <1>i, <1>s, <2>1, <2>2, <2>3 DEF TypeOK, NewTunnel, loopVars, wireVars, pumpVars
<1>j. ASSUME RefuseTunnel PROVE TypeOK'
  <2>1. task' \in Seq(Task) /\ Len(task') <= 1
    BY <1>j, VisitedTypes DEF RefuseTunnel, Visiting
  <2>2. packet.viewer \in Viewer
    BY <1>j, TaskTypes DEF RefuseTunnel, Visiting, Busy
  <2>3. missed' \in [Viewer -> BOOLEAN]
    BY <1>j DEF TypeOK, RefuseTunnel, MissUnless, Miss
  <2>4. QED
    BY <1>j, <1>s, <2>1, <2>2, <2>3 DEF TypeOK, RefuseTunnel, wireVars, pumpVars
<1>k. ASSUME TunnelFails PROVE TypeOK'
  <2>1. task' \in Seq(Task) /\ Len(task') <= 1
    BY <1>k, VisitedTypes DEF TunnelFails, Visiting
  <2>2. missed' \in [Viewer -> BOOLEAN]
    BY <1>k DEF TypeOK, TunnelFails, MissUnless, Miss
  <2>3. QED
    BY <1>k, <1>s, <2>1, <2>2 DEF TypeOK, TunnelFails, wireVars, chatVars, pumpVars
<1>l. ASSUME DeliverHeard PROVE TypeOK'
  <2>1. task' \in Seq(Task) /\ Len(task') <= 1
    BY <1>l, VisitedTypes DEF DeliverHeard, Visiting
  <2>2. missed' \in [Viewer -> BOOLEAN]
    BY <1>l DEF TypeOK, DeliverHeard, MissUnless, Miss
  <2>3. packet \in Packet /\ packet.seq \in 0..Last /\ Target(packet.viewer) \in Viewer
    BY <1>l, TaskTypes DEF DeliverHeard, Visiting, Busy, Target, TypeOK
  <2>4. /\ last' \in [Viewer -> {NoSequence} \cup 0..Last]
        /\ stop' \in [Viewer -> BOOLEAN] /\ shut' \in [Viewer -> BOOLEAN]
        /\ given' \in [Viewer -> Seq(Packet)]
    BY <1>l, <2>3, ProcessTypes DEF DeliverHeard
  <2>5. QED
    BY <1>l, <1>s, <2>1, <2>2, <2>4 DEF TypeOK, DeliverHeard, loopVars, wireVars, chatVars
<1>m. ASSUME DeliverUnheard PROVE TypeOK'
  <2>1. task' \in Seq(Task) /\ Len(task') <= 1
    BY <1>m, VisitedTypes DEF DeliverUnheard, Visiting
  <2>2. QED
    BY ZenonT(40), <1>m, <1>s, <2>1 DEF TypeOK, DeliverUnheard, Miss, loopVars, wireVars, pumpVars
<1>o. ASSUME Connect \/ ConnectFails \/ Login \/ SetUp \/ StartOver PROVE TypeOK'
  BY <1>o, <1>s DEF TypeOK, Connect, ConnectFails, Login, SetUp, Listen, Watch,
     SetUpFails, StartOver, setUpVars, wireVars, chatVars, pumpVars
<1>p. ASSUME GiveUp PROVE TypeOK'
  <2>1. <<>> \in Seq(Task) /\ Len(<<>>) = 0 /\ <<>> \in Seq(Packet)
    OBVIOUS
  <2>2. served' \subseteq Viewer /\ missed' \in [Viewer -> BOOLEAN]
    BY <1>p DEF TypeOK, GiveUp
  <2>3. /\ threads' \in [Viewer -> {"none", "alive", "dead"}]
        /\ chat' \in [Viewer -> {"none", "tunnel", "refusal", "found"}]
        /\ listening' \in [Viewer -> BOOLEAN]
        /\ last' \in [Viewer -> {NoSequence} \cup 0..Last]
        /\ stop' \in [Viewer -> BOOLEAN] /\ shut' \in [Viewer -> BOOLEAN]
        /\ given' \in [Viewer -> Seq(Packet)]
    BY <1>p, <2>1 DEF GiveUp, NoSession
  <2>4. QED
    <3>1. /\ phase' = "wait" /\ link' = "none" /\ userChat' = nobody
          /\ listener' = FALSE /\ watcher' = FALSE /\ manager' = FALSE
          /\ queue' = <<>> /\ task' = <<>>
          /\ UNCHANGED <<errors, order, drops, sent, wire>>
      BY <1>p DEF GiveUp, NoSession, wireVars
    <3>2. task' \in Seq(Task) /\ Len(task') <= 1 /\ queue' \in Seq(Packet)
      BY <2>1, <3>1
    <3>3. QED
      BY <1>s, <2>2, <2>3, <3>1, <3>2 DEF TypeOK
<1>q. ASSUME ConnectionLost PROVE TypeOK'
  BY <1>q, <1>s, <1>n DEF TypeOK, ConnectionLost, wireVars, chatVars, pumpVars
<1>z. QED
  BY <1>a, <1>b, <1>c, <1>d, <1>e, <1>f, <1>g, <1>h, <1>i, <1>j, <1>k, <1>l,
     <1>m, <1>o, <1>p, <1>q DEF Next, Step, Callback, PacketListener

-----------------------------------------------------------------------------
(* Which steps move messages *)

\* A listener's visit to the packet at work.
Visit == PacketListener \/ DeliverHeard \/ DeliverUnheard

Quiet == UNCHANGED <<sent, wire, queue, task>>

\* Messages move when a viewer sends, when they leave the wire, and at the
\* callback thread; the end of a session drops those that it has.
LEMMA Movers ==
    ASSUME Next
    PROVE  \/ \E v \in Viewer : Send(v) \/ Arrive(v) \/ Lose(v)
           \/ Take \/ Visit \/ GiveUp \/ Quiet
<1>1. CASE \E v \in Viewer : RegisterPump(v) \/ TunnelEnds(v) \/ CollectChat(v)
  BY <1>1 DEF RegisterPump, TunnelEnds, CollectChat, wireVars, Quiet
<1>2. CASE Connect \/ ConnectFails \/ Login \/ SetUp \/ StartOver \/ ConnectionLost
  BY <1>2 DEF Connect, ConnectFails, Login, SetUp, Listen, Watch, SetUpFails,
     StartOver, ConnectionLost, setUpVars, wireVars, Quiet
<1>3. QED
  BY <1>1, <1>2 DEF Next, Step, Callback, Visit

\* When they do not, nothing is said differently of them.
LEMMA QuietMessages ==
    ASSUME Quiet
    PROVE  /\ UNCHANGED <<sent, wire, queue, task>>
           /\ packet' = packet /\ Todo' = Todo /\ (Busy' <=> Busy)
           /\ \A v : Base(v)' = Base(v)
           /\ \A v, n : Queued(v, n)' <=> Queued(v, n)
           /\ \A v, n : AtWork(v, n)' <=> AtWork(v, n)
    BY DEF Quiet, packet, Todo, Busy, Base, Queued, AtWork

\* A task that goes on is about the same packet.
LEMMA RestFacts ==
    ASSUME NEW todo, task' = Rest(todo)
    PROVE  /\ Busy' <=> todo # <<>>
           /\ Busy' => packet' = packet /\ Todo' = todo
    BY DEF Rest, Busy, packet, Todo

\* A visit leaves the other messages alone, and ends or goes on with its own.
LEMMA VisitFacts ==
    ASSUME TypeOK, Visit
    PROVE  /\ Busy /\ UNCHANGED <<sent, wire, queue>>
           /\ Busy' => packet' = packet
           /\ \A v : Base(v)' = Base(v)
           /\ \A v, n : Queued(v, n)' <=> Queued(v, n)
           /\ \A v, n : AtWork(v, n)' <=> AtWork(v, n) /\ Busy'
           /\ ~NewTunnel => Visited
<1>1. Busy /\ UNCHANGED <<sent, wire, queue>> /\ (~NewTunnel => Visited)
  BY DEF Visit, PacketListener, TunnelAlive, NewTunnel, RefuseTunnel, TunnelFails,
     DeliverHeard, DeliverUnheard, wireVars, Visiting, Busy
<1>2. \E todo : task' = Rest(todo)
  BY <1>1 DEF Visit, NewTunnel, Visited
<1>3. Busy' => packet' = packet
  BY <1>2, RestFacts
<1>4. \A v, n : Queued(v, n)' <=> Queued(v, n)
  BY <1>1 DEF Queued
<1>5. \A v, n : AtWork(v, n)' <=> AtWork(v, n) /\ Busy'
  BY <1>1, <1>3 DEF AtWork
<1>6. QED
  BY <1>1, <1>3, <1>4, <1>5 DEF Base

\* Send, from the side of the wire.
LEMMA SendFacts ==
    ASSUME TypeOK, NEW v \in Viewer, Send(v)
    PROVE  /\ UNCHANGED <<queue, task>>
           /\ wire[v] \in Seq(Packet)
           /\ sent'[v] = sent[v] + 1
           /\ wire'[v] = Append(wire[v], [viewer |-> v, seq |-> sent[v]])
           /\ [viewer |-> v, seq |-> sent[v]] \in Packet
           /\ \A w \in Viewer : w # v => sent'[w] = sent[w] /\ wire'[w] = wire[w]
           /\ \A w \in Viewer : Base(w)' = Base(w)
           /\ \A w, n : (Queued(w, n)' <=> Queued(w, n)) /\ (AtWork(w, n)' <=> AtWork(w, n))
<1>1. /\ UNCHANGED <<queue, task>>
      /\ sent'[v] = sent[v] + 1
      /\ wire'[v] = Append(wire[v], [viewer |-> v, seq |-> sent[v]])
      /\ \A w \in Viewer : w # v => sent'[w] = sent[w] /\ wire'[w] = wire[w]
  BY DEF Send, TypeOK
<1>2. wire[v] \in Seq(Packet) /\ sent[v] \in Nat
  BY SetupTypes DEF TypeOK
<1>3. [viewer |-> v, seq |-> sent[v]] \in Packet
  BY <1>2, SetupTypes DEF Send, Packet
<1>4. Len(wire'[v]) = Len(wire[v]) + 1 /\ Len(wire[v]) \in Nat
  BY <1>1, <1>2, <1>3, AppendFacts
<1>5. ASSUME NEW w \in Viewer PROVE Base(w)' = Base(w)
  <2>1. CASE w = v
    BY SMTT(30), <1>1, <1>2, <1>4, <2>1 DEF Base
  <2>2. CASE w # v
    BY <1>1, <2>2 DEF Base
  <2>3. QED
    BY <2>1, <2>2
<1>6. \A w, n : (Queued(w, n)' <=> Queued(w, n)) /\ (AtWork(w, n)' <=> AtWork(w, n))
  BY <1>1 DEF Queued, AtWork, Busy, packet
<1>7. QED
  BY <1>1, <1>2, <1>3, <1>5, <1>6

\* A message leaves the wire.
LEMMA LeaveFacts ==
    ASSUME TypeOK, WireInOrder, NEW v \in Viewer, wire[v] # <<>>, UNCHANGED sent,
           wire' = [wire EXCEPT ![v] = Tail(@)]
    PROVE  /\ Head(wire[v]) = [viewer |-> v, seq |-> Base(v)]
           /\ Head(wire[v]) \in Packet
           /\ Base(v)' = Base(v) + 1
           /\ \A w \in Viewer : w # v => Base(w)' = Base(w)
           /\ WireInOrder'
<1>1. wire[v] \in Seq(Packet) /\ sent[v] \in Nat /\ wire'[v] = Tail(wire[v])
  BY SetupTypes DEF TypeOK
<1>2. /\ Len(wire[v]) \in Nat /\ Len(wire[v]) >= 1
      /\ Len(wire'[v]) = Len(wire[v]) - 1
      /\ Head(wire[v]) = wire[v][1] /\ Head(wire[v]) \in Packet
      /\ \A i \in 1..Len(wire'[v]) : i + 1 \in 1..Len(wire[v]) /\ wire'[v][i] = wire[v][i + 1]
  BY ZenonT(40), <1>1, TailFacts
<1>3. Base(v) \in Int /\ Base(v)' = Base(v) + 1
  BY <1>1, <1>2 DEF Base
<1>4. Head(wire[v]) = [viewer |-> v, seq |-> Base(v)]
  BY <1>2, <1>3 DEF WireInOrder
<1>5. ASSUME NEW w \in Viewer, w # v PROVE Base(w)' = Base(w) /\ wire'[w] = wire[w]
  BY <1>5 DEF Base, TypeOK
<1>6. ASSUME NEW i \in 1..Len(wire'[v])
      PROVE  wire'[v][i] = [viewer |-> v, seq |-> Base(v)' + i - 1]
  <2>1. i + 1 \in 1..Len(wire[v]) /\ wire'[v][i] = wire[v][i + 1] /\ i \in Int
    BY <1>2
  <2>2. wire[v][i + 1] = [viewer |-> v, seq |-> Base(v) + (i + 1) - 1]
    BY <2>1 DEF WireInOrder
  <2>3. QED
    BY <1>3, <2>1, <2>2
<1>7. WireInOrder'
  <2>1. ASSUME NEW w \in Viewer
        PROVE  /\ Base(w)' >= 0
               /\ \A i \in 1..Len(wire'[w]) :
                    wire'[w][i] = [viewer |-> w, seq |-> Base(w)' + i - 1]
    <3>1. CASE w = v
      BY <1>3, <1>6, <3>1 DEF WireInOrder
    <3>2. CASE w # v
      BY <1>5, <3>2 DEF WireInOrder
    <3>3. QED
      BY <3>1, <3>2
  <2>2. QED
    BY <2>1 DEF WireInOrder
<1>8. QED
  BY <1>2, <1>3, <1>4, <1>5, <1>7

\* The wire holds what was sent last.
LEMMA WireStep == TypeOK /\ WireInOrder /\ Next => WireInOrder'
<1> SUFFICES ASSUME TypeOK, WireInOrder, Next PROVE WireInOrder'
  OBVIOUS
<1>1. ASSUME NEW v \in Viewer, Send(v) PROVE WireInOrder'
  <2> DEFINE m == [viewer |-> v, seq |-> sent[v]]
  <2>1. /\ Len(wire[v]) \in Nat
        /\ Len(wire'[v]) = Len(wire[v]) + 1
        /\ \A i \in 1..Len(wire[v]) : wire'[v][i] = wire[v][i]
        /\ wire'[v][Len(wire[v]) + 1] = m
    <3>1. wire[v] \in Seq(Packet) /\ m \in Packet /\ wire'[v] = Append(wire[v], m)
      BY <1>1, SendFacts
    <3> HIDE DEF m
    <3>2. QED
      BY <3>1, AppendFacts
  <2>2. sent[v] \in Nat /\ Base(v)' = Base(v) /\ Base(v) >= 0
    <3>1. sent[v] \in Nat
      BY SetupTypes DEF TypeOK
    <3>2. Base(v) >= 0
      BY DEF WireInOrder
    <3>3. QED
      BY <1>1, <3>1, <3>2, SendFacts
  <2>3. ASSUME NEW i \in 1..Len(wire'[v])
        PROVE  wire'[v][i] = [viewer |-> v, seq |-> Base(v)' + i - 1]
    <3>1. CASE i \in 1..Len(wire[v])
      BY <2>1, <2>2, <3>1 DEF WireInOrder
    <3>2. CASE i = Len(wire[v]) + 1
      <4>1. Base(v)' + i - 1 = sent[v]
        BY <2>1, <2>2, <3>2 DEF Base
      <4>2. QED
        BY <2>1, <3>2, <4>1
    <3>3. QED
      BY <2>1, <3>1, <3>2
  <2>4. ASSUME NEW w \in Viewer, w # v
        PROVE  Base(w)' = Base(w) /\ wire'[w] = wire[w]
    BY <1>1, <2>4, SendFacts
  <2>5. ASSUME NEW w \in Viewer
        PROVE  /\ Base(w)' >= 0
               /\ \A i \in 1..Len(wire'[w]) :
                    wire'[w][i] = [viewer |-> w, seq |-> Base(w)' + i - 1]
    <3>1. CASE w = v
      BY <2>2, <2>3, <3>1
    <3>2. CASE w # v
      BY <2>4, <3>2 DEF WireInOrder
    <3>3. QED
      BY <3>1, <3>2
  <2>6. QED
    BY <2>5 DEF WireInOrder
<1>2. ASSUME NEW v \in Viewer, Arrive(v) \/ Lose(v) PROVE WireInOrder'
  BY <1>2, LeaveFacts DEF Arrive, Lose
<1>3. CASE UNCHANGED wireVars
  BY <1>3 DEF WireInOrder, Base, wireVars
<1>4. CASE Take \/ Visit \/ GiveUp \/ Quiet
  BY <1>3, <1>4, VisitFacts DEF Take, GiveUp, Quiet, wireVars
<1>5. QED
  BY <1>1, <1>2, <1>4, Movers

-----------------------------------------------------------------------------
(* Order *)

\* The numbers the proofs compare are integers.
LEMMA Numbers ==
    ASSUME TypeOK
    PROVE  /\ Last \in Nat
           /\ \A v \in Viewer : sent[v] \in Nat /\ Len(wire[v]) \in Nat /\ Base(v) \in Int
           /\ \A v \in Viewer : last[v] \in Int /\ last[v] >= -1 /\ last[v] <= Last
           /\ Len(queue) \in Nat
           /\ \A i \in 1..Len(queue) : /\ queue[i] \in Packet /\ queue[i].viewer \in Viewer
                                       /\ queue[i].seq \in 0..Last
           /\ Busy => /\ packet \in Packet /\ packet.viewer \in Viewer
                      /\ packet.seq \in 0..Last
<1>1. Last \in Nat
  BY SetupTypes
<1>2. \A v \in Viewer : sent[v] \in Nat /\ Len(wire[v]) \in Nat
  BY <1>1 DEF TypeOK
<1>3. \A v \in Viewer : Base(v) \in Int
  BY <1>2 DEF Base
<1>4. \A v \in Viewer : last[v] \in Int /\ last[v] >= -1 /\ last[v] <= Last
  BY <1>1 DEF TypeOK, NoSequence
<1>5. Len(queue) \in Nat /\ \A i \in 1..Len(queue) : queue[i] \in Packet
  BY DEF TypeOK
<1>6. \A p \in Packet : p.viewer \in Viewer /\ p.seq \in 0..Last
  BY DEF Packet
<1>7. Busy => packet \in Packet
  BY TaskTypes
<1>8. QED
  BY <1>1, <1>2, <1>3, <1>4, <1>5, <1>6, <1>7

\* What is queued or at work is a message of a viewer.
LEMMA PacketFacts ==
    ASSUME TypeOK
    PROVE  /\ \A i \in 1..Len(queue) : Queued(queue[i].viewer, queue[i].seq)
           /\ Busy => AtWork(packet.viewer, packet.seq)
           /\ \A v, n : Queued(v, n) \/ AtWork(v, n) => v \in Viewer /\ n \in 0..Last
<1>1. \A p \in Packet : p = [viewer |-> p.viewer, seq |-> p.seq]
  BY DEF Packet
<1>2. \A v, n : [viewer |-> v, seq |-> n] \in Packet => v \in Viewer /\ n \in 0..Last
  BY DEF Packet
<1>3. QED
  BY <1>1, <1>2, Numbers DEF Queued, AtWork

\* The packet at the head of the queue comes to the callback thread, or finds
\* no listener.
LEMMA TakeFacts ==
    ASSUME TypeOK, QueueInOrder, Take
    PROVE  /\ ~Busy /\ UNCHANGED <<sent, wire>>
           /\ queue[1] \in Packet
           /\ \A v : Base(v)' = Base(v)
           /\ \A v, n : Queued(v, n) <=> Queued(v, n)' \/ queue[1] = [viewer |-> v, seq |-> n]
           /\ \A v, n, m : Queued(v, n)' /\ queue[1] = [viewer |-> v, seq |-> m] => m < n
           /\ \A v, n : AtWork(v, n)' <=>
                          Registered # <<>> /\ queue[1] = [viewer |-> v, seq |-> n]
           /\ Registered = <<>> => ~Busy' /\ missed' = [missed EXCEPT ![queue[1].viewer] = TRUE]
           /\ Registered # <<>> => /\ Busy' /\ packet' = queue[1] /\ Todo' = Registered
                                   /\ missed' = missed
<1>1. queue \in Seq(Packet) /\ queue # <<>> /\ queue' = Tail(queue) /\ ~Busy
      /\ UNCHANGED <<sent, wire>>
  BY DEF TypeOK, Take, wireVars, Busy
<1>2. /\ Len(queue) \in Nat /\ Len(queue) >= 1 /\ Len(queue') = Len(queue) - 1
      /\ Head(queue) = queue[1] /\ Head(queue) \in Packet
      /\ \A i \in 1..Len(queue') : i + 1 \in 1..Len(queue) /\ queue'[i] = queue[i + 1]
  BY <1>1, TailFacts
<1>3. ASSUME NEW i \in 1..Len(queue), i # 1
      PROVE  i - 1 \in 1..Len(queue') /\ queue'[i - 1] = queue[i]
  <2>1. i - 1 \in 1..Len(queue') /\ (i - 1) + 1 = i
    BY <1>2, <1>3
  <2>2. QED
    BY <1>2, <2>1
<1>4. \A v, n : Queued(v, n) <=> Queued(v, n)' \/ queue[1] = [viewer |-> v, seq |-> n]
  <2> SUFFICES ASSUME NEW v, NEW n
               PROVE  Queued(v, n) <=> Queued(v, n)' \/ queue[1] = [viewer |-> v, seq |-> n]
    OBVIOUS
  <2>1. Queued(v, n) => Queued(v, n)' \/ queue[1] = [viewer |-> v, seq |-> n]
    BY <1>3 DEF Queued
  <2>2. Queued(v, n)' => Queued(v, n)
    BY <1>2 DEF Queued
  <2>3. queue[1] = [viewer |-> v, seq |-> n] => Queued(v, n)
    BY <1>2 DEF Queued
  <2>4. QED
    BY <2>1, <2>2, <2>3
<1>5. \A v, n, m : Queued(v, n)' /\ queue[1] = [viewer |-> v, seq |-> m] => m < n
  <2> SUFFICES ASSUME NEW v, NEW n, NEW m, Queued(v, n)', queue[1] = [viewer |-> v, seq |-> m]
               PROVE  m < n
    OBVIOUS
  <2>1. PICK i \in 1..Len(queue') : queue'[i] = [viewer |-> v, seq |-> n]
    BY DEF Queued
  <2>2. i + 1 \in 1..Len(queue) /\ queue[i + 1] = [viewer |-> v, seq |-> n] /\ 1 < i + 1
        /\ 1 \in 1..Len(queue)
    BY <1>2, <2>1
  <2>3. queue[1].viewer = v /\ queue[i + 1].viewer = v
        /\ queue[1].seq = m /\ queue[i + 1].seq = n
    BY <2>2
  <2>4. QED
    BY <2>2, <2>3 DEF QueueInOrder
<1>6. Registered = <<>> => ~Busy' /\ missed' = [missed EXCEPT ![queue[1].viewer] = TRUE]
  BY <1>1, <1>2 DEF Take, Miss, Busy
<1>7. ASSUME Registered # <<>>
      PROVE  Busy' /\ packet' = queue[1] /\ Todo' = Registered /\ missed' = missed
  <2> DEFINE t == [packet |-> queue[1], todo |-> Registered]
  <2>1. task' = <<t>> /\ missed' = missed
    BY <1>2, <1>7 DEF Take
  <2>2. t.packet = queue[1] /\ t.todo = Registered
    OBVIOUS
  <2> HIDE DEF t
  <2>3. <<t>> # <<>> /\ <<t>>[1] = t
    OBVIOUS
  <2>4. QED
    BY <2>1, <2>2, <2>3 DEF Busy, packet, Todo
<1>8. \A v, n : AtWork(v, n)' <=> Registered # <<>> /\ queue[1] = [viewer |-> v, seq |-> n]
  BY <1>6, <1>7 DEF AtWork
<1>9. QED
  BY <1>1, <1>2, <1>4, <1>5, <1>6, <1>7, <1>8 DEF Base

\* A packet joins the queue.
LEMMA ArriveFacts ==
    ASSUME TypeOK, WireInOrder, NEW v \in Viewer, Arrive(v)
    PROVE  /\ Len(queue) \in Nat /\ Len(queue') = Len(queue) + 1
           /\ \A i \in 1..Len(queue) : queue'[i] = queue[i]
           /\ queue'[Len(queue) + 1] = [viewer |-> v, seq |-> Base(v)]
           /\ Base(v)' = Base(v) + 1
           /\ \A w \in Viewer : w # v => Base(w)' = Base(w)
           /\ \A w, n : Queued(w, n)' <=> Queued(w, n) \/ (w = v /\ n = Base(v))
           /\ \A w, n : AtWork(w, n)' <=> AtWork(w, n)
           /\ UNCHANGED task
<1>1. wire[v] # <<>> /\ wire' = [wire EXCEPT ![v] = Tail(@)] /\ UNCHANGED <<sent, task>>
      /\ queue' = Append(queue, Head(wire[v])) /\ queue \in Seq(Packet)
  BY DEF Arrive, TypeOK
<1>2. /\ Head(wire[v]) = [viewer |-> v, seq |-> Base(v)] /\ Head(wire[v]) \in Packet
      /\ Base(v)' = Base(v) + 1
      /\ \A w \in Viewer : w # v => Base(w)' = Base(w)
  BY <1>1, LeaveFacts
<1>3. /\ Len(queue) \in Nat /\ Len(queue') = Len(queue) + 1
      /\ \A i \in 1..Len(queue) : queue'[i] = queue[i]
      /\ queue'[Len(queue) + 1] = [viewer |-> v, seq |-> Base(v)]
  BY <1>1, <1>2, AppendFacts
<1>4. \A w, n : [viewer |-> v, seq |-> Base(v)] = [viewer |-> w, seq |-> n]
                  <=> w = v /\ n = Base(v)
  OBVIOUS
<1>5. \A i : i \in 1..(Len(queue) + 1) <=> i \in 1..Len(queue) \/ i = Len(queue) + 1
  BY <1>3
<1>6. \A w, n : Queued(w, n)' <=> Queued(w, n) \/ (w = v /\ n = Base(v))
  BY <1>3, <1>4, <1>5 DEF Queued
<1>7. \A w, n : AtWork(w, n)' <=> AtWork(w, n)
  BY <1>1 DEF AtWork, Busy, packet
<1>8. QED
  BY <1>1, <1>2, <1>3, <1>6, <1>7

\* A message is lost on the way.
LEMMA LoseFacts ==
    ASSUME TypeOK, WireInOrder, NEW v \in Viewer, Lose(v)
    PROVE  /\ Base(v)' = Base(v) + 1 /\ missed'[v]
           /\ \A w \in Viewer : w # v => Base(w)' = Base(w)
           /\ \A w, n : (Queued(w, n)' <=> Queued(w, n)) /\ (AtWork(w, n)' <=> AtWork(w, n))
           /\ UNCHANGED <<queue, task>>
<1>1. wire[v] # <<>> /\ wire' = [wire EXCEPT ![v] = Tail(@)] /\ UNCHANGED <<sent, queue, task>>
      /\ missed'[v]
  BY DEF Lose, Miss, TypeOK
<1>2. Base(v)' = Base(v) + 1 /\ \A w \in Viewer : w # v => Base(w)' = Base(w)
  BY <1>1, LeaveFacts
<1>3. QED
  BY <1>1, <1>2 DEF Queued, AtWork, Busy, packet

\* The end of a session.
LEMMA GiveUpFacts ==
    ASSUME GiveUp
    PROVE  /\ Fresh' /\ \A v : Base(v)' = Base(v)
           /\ \A v, n : ~Queued(v, n)' /\ ~AtWork(v, n)'
<1>1. Fresh' /\ queue' = <<>> /\ ~Busy'
  BY DEF GiveUp, NoSession, Fresh, Busy
<1>2. Len(<<>>) = 0 /\ 1..0 = {}
  OBVIOUS
<1>3. QED
  BY <1>1, <1>2 DEF GiveUp, wireVars, Base, Queued, AtWork

\* Packets are read, queued and taken in the order they were sent.
LEMMA QueueStep == TypeOK /\ WireInOrder /\ QueueInOrder /\ Next => QueueInOrder'
<1> SUFFICES ASSUME TypeOK, WireInOrder, QueueInOrder, Next PROVE QueueInOrder'
  OBVIOUS
<1>n. Last' = Last /\ Last \in Nat /\ \A v \in Viewer : Base(v) \in Int
  BY SameSetup, Numbers
<1>1. ASSUME UNCHANGED queue, \A v \in Viewer : Base(v) <= Base(v)' /\ Base(v)' \in Int,
             \A v, n : Queued(v, n)' <=> Queued(v, n), \A v, n : AtWork(v, n)' => AtWork(v, n)
      PROVE  QueueInOrder'
  <2>1. ASSUME NEW v \in Viewer, NEW n \in 0..Last
        PROVE  /\ Queued(v, n)' \/ AtWork(v, n)' => n < Base(v)'
               /\ AtWork(v, n)' => \A m \in 0..n : ~Queued(v, m)'
    <3>1. Queued(v, n)' \/ AtWork(v, n)' => n < Base(v)
      BY <1>1 DEF QueueInOrder
    <3>2. AtWork(v, n)' => \A m \in 0..n : ~Queued(v, m)'
      BY <1>1 DEF QueueInOrder
    <3>3. QED
      BY <1>1, <1>n, <3>1, <3>2
  <2>2. QED
    BY <1>1, <1>n, <2>1 DEF QueueInOrder
<1>2. CASE Visit
  <2>1. /\ UNCHANGED queue /\ \A v : Base(v)' = Base(v)
        /\ \A v, n : Queued(v, n)' <=> Queued(v, n)
        /\ \A v, n : AtWork(v, n)' => AtWork(v, n)
    BY <1>2, VisitFacts
  <2>2. \A v \in Viewer : Base(v) <= Base(v)' /\ Base(v)' \in Int
    BY <1>n, <2>1
  <2>3. QED
    BY <1>1, <2>1, <2>2
<1>q. CASE Quiet
  <2>1. /\ UNCHANGED queue /\ \A v : Base(v)' = Base(v)
        /\ \A v, n : Queued(v, n)' <=> Queued(v, n)
        /\ \A v, n : AtWork(v, n)' => AtWork(v, n)
    BY <1>q, QuietMessages
  <2>2. \A v \in Viewer : Base(v) <= Base(v)' /\ Base(v)' \in Int
    BY <1>n, <2>1
  <2>3. QED
    BY <1>1, <2>1, <2>2
<1>3. ASSUME NEW v \in Viewer, Send(v) PROVE QueueInOrder'
  <2>1. /\ UNCHANGED queue /\ \A w \in Viewer : Base(w)' = Base(w)
        /\ \A w, n : Queued(w, n)' <=> Queued(w, n)
        /\ \A w, n : AtWork(w, n)' => AtWork(w, n)
    BY <1>3, SendFacts
  <2>2. \A w \in Viewer : Base(w) <= Base(w)' /\ Base(w)' \in Int
    BY <1>n, <2>1
  <2>3. QED
    BY <1>1, <2>1, <2>2
<1>4. ASSUME NEW v \in Viewer, Lose(v) PROVE QueueInOrder'
  <2>1. \A w \in Viewer : Base(w) <= Base(w)' /\ Base(w)' \in Int
    BY <1>4, <1>n, LoseFacts
  <2>2. QED
    BY <1>1, <1>4, <2>1, LoseFacts
<1>5. ASSUME NEW v \in Viewer, Arrive(v) PROVE QueueInOrder'
  <2>a. /\ Len(queue) \in Nat /\ Len(queue') = Len(queue) + 1
        /\ \A i \in 1..Len(queue) : queue'[i] = queue[i]
        /\ queue'[Len(queue) + 1] = [viewer |-> v, seq |-> Base(v)]
    BY <1>5, ArriveFacts
  <2>b. /\ Base(v)' = Base(v) + 1
        /\ \A w \in Viewer : w # v => Base(w)' = Base(w)
        /\ \A w, n : Queued(w, n)' <=> Queued(w, n) \/ (w = v /\ n = Base(v))
        /\ \A w, n : AtWork(w, n)' <=> AtWork(w, n)
    BY <1>5, ArriveFacts
  <2>1. ASSUME NEW i \in 1..Len(queue'), NEW j \in 1..Len(queue'), i < j,
               queue'[i].viewer = queue'[j].viewer
        PROVE  queue'[i].seq < queue'[j].seq
    <3>1. i \in 1..Len(queue) /\ queue'[i] = queue[i]
      BY <2>a, <2>1
    <3>2. CASE j \in 1..Len(queue)
      BY <2>a, <2>1, <3>1, <3>2 DEF QueueInOrder
    <3>3. CASE j = Len(queue) + 1
      <4>1. queue'[j] = [viewer |-> v, seq |-> Base(v)]
        BY <2>a, <3>3
      <4>2. queue[i].viewer = v /\ queue'[j].seq = Base(v)
        BY <2>1, <3>1, <4>1
      <4>3. Queued(v, queue[i].seq) /\ queue[i].seq \in 0..Last
        BY <3>1, <4>2, PacketFacts
      <4>4. QED
        BY <3>1, <4>2, <4>3 DEF QueueInOrder
    <3>4. QED
      BY <2>a, <2>1, <3>2, <3>3
  <2>2. ASSUME NEW w \in Viewer, NEW n \in 0..Last
        PROVE  /\ Queued(w, n)' \/ AtWork(w, n)' => n < Base(w)'
               /\ AtWork(w, n)' => \A m \in 0..n : ~Queued(w, m)'
    <3>1. /\ Queued(w, n) \/ AtWork(w, n) => n < Base(w)
          /\ AtWork(w, n) => \A m \in 0..n : ~Queued(w, m)
      BY DEF QueueInOrder
    <3>2. Base(w) \in Int /\ n \in Int /\ Base(w)' >= Base(w) /\ Base(w)' \in Int
      BY <1>n, <2>b
    <3>3. Queued(w, n)' \/ AtWork(w, n)' => n < Base(w)'
      BY <2>b, <3>1, <3>2
    <3>4. ASSUME AtWork(w, n)', NEW m \in 0..n PROVE ~Queued(w, m)'
      <4>1. AtWork(w, n) /\ ~Queued(w, m) /\ m # Base(w)
        BY <2>b, <3>1, <3>2, <3>4
      <4>2. QED
        BY <2>b, <4>1
    <3>5. QED
      BY <3>3, <3>4
  <2>3. QED
    BY <1>n, <2>1, <2>2 DEF QueueInOrder
<1>6. CASE Take
  <2>1. ASSUME NEW i \in 1..Len(queue'), NEW j \in 1..Len(queue'), i < j,
               queue'[i].viewer = queue'[j].viewer
        PROVE  queue'[i].seq < queue'[j].seq
    <3>1. queue' = Tail(queue) /\ queue \in Seq(Packet) /\ queue # <<>>
      BY <1>6 DEF Take, TypeOK
    <3>2. /\ i + 1 \in 1..Len(queue) /\ queue'[i] = queue[i + 1]
          /\ j + 1 \in 1..Len(queue) /\ queue'[j] = queue[j + 1] /\ i + 1 < j + 1
      BY <2>1, <3>1, TailFacts
    <3>3. QED
      BY <2>1, <3>2 DEF QueueInOrder
  <2>2. ASSUME NEW w \in Viewer, NEW n \in 0..Last
        PROVE  /\ Queued(w, n)' \/ AtWork(w, n)' => n < Base(w)'
               /\ AtWork(w, n)' => \A m \in 0..n : ~Queued(w, m)'
    <3>1. Queued(w, n)' \/ AtWork(w, n)' => Queued(w, n)
      BY <1>6, TakeFacts
    <3>2. Queued(w, n)' \/ AtWork(w, n)' => n < Base(w)'
      BY <1>6, <3>1, TakeFacts DEF QueueInOrder
    <3>3. ASSUME AtWork(w, n)', NEW m \in 0..n PROVE ~Queued(w, m)'
      <4>1. Queued(w, m)' => n < m
        BY <1>6, <3>3, TakeFacts
      <4>2. QED
        BY <1>n, <4>1
    <3>4. QED
      BY <3>2, <3>3
  <2>3. QED
    BY <1>n, <2>1, <2>2 DEF QueueInOrder
<1>7. CASE GiveUp
  <2>1. queue' = <<>> /\ Len(<<>>) = 0 /\ 1..0 = {}
    BY <1>7 DEF GiveUp, NoSession
  <2>2. QED
    BY <1>7, <2>1, GiveUpFacts DEF QueueInOrder
<1>8. QED
  BY <1>2, <1>q, <1>3, <1>4, <1>5, <1>6, <1>7, Movers

-----------------------------------------------------------------------------
(* The session *)

\* Before MyPacketListener is registered nothing happens on con, but messages
\* are sent to it and lost.
LEMMA FreshStep ==
    ASSUME TypeOK, SessionInOrder, Next, phase \in {"connect", "login", "wait"}
    PROVE  Fresh /\ Fresh'
<1>f. Fresh
  BY DEF SessionInOrder
<1>1. ASSUME NEW v \in Viewer, Send(v) \/ Lose(v) PROVE Fresh'
  BY <1>f, <1>1 DEF Fresh, Busy, Send, Lose, loopVars, chatVars, pumpVars
<1>2. ASSUME NEW v \in Viewer,
             Arrive(v) \/ RegisterPump(v) \/ TunnelEnds(v) \/ CollectChat(v)
      PROVE  FALSE
  BY <1>f, <1>2 DEF Fresh, Arrive, LoggedIn, RegisterPump, TunnelEnds, CollectChat
<1>3. ~Take /\ ~Visit
  BY <1>f, VisitFacts DEF Fresh, Take
<1>4. CASE Connect \/ ConnectFails \/ Login \/ SetUpFails \/ StartOver \/ ConnectionLost
  BY <1>f, <1>4 DEF Fresh, Busy, Connect, ConnectFails, Login, SetUpFails, StartOver,
     ConnectionLost, setUpVars, chatVars, pumpVars
<1>5. ~Listen /\ ~Watch /\ ~GiveUp
  BY DEF Listen, Watch, GiveUp
<1>6. QED
  BY <1>f, <1>1, <1>2, <1>3, <1>4, <1>5 DEF Next, Step, Callback, Visit, SetUp

\* A visit does not touch the connection.
LEMMA VisitLoop ==
    ASSUME Visit
    PROVE  /\ UNCHANGED <<phase, link, listener, watcher, order, drops, served>>
           /\ errors => errors'
<1>1. CASE TunnelAlive \/ NewTunnel \/ DeliverHeard \/ DeliverUnheard
  BY <1>1 DEF TunnelAlive, NewTunnel, DeliverHeard, DeliverUnheard, loopVars
<1>2. CASE RefuseTunnel
  BY <1>2 DEF RefuseTunnel
<1>3. CASE TunnelFails
  BY <1>3 DEF TunnelFails
<1>4. QED
  BY <1>1, <1>2, <1>3 DEF Visit, PacketListener

\* The session's parts come and go in the order of maintainXMPPConnection.
LEMMA SessionStep == TypeOK /\ SessionInOrder /\ Next => SessionInOrder'
<1> SUFFICES ASSUME TypeOK, SessionInOrder, Next PROVE SessionInOrder'
  OBVIOUS
<1>f. phase \in {"connect", "login", "wait"} => Fresh'
  BY FreshStep
<1>r. Registered # <<>> => listener
  BY DEF Registered, SessionInOrder
<1>1. ASSUME NEW v \in Viewer, Send(v) \/ Arrive(v) \/ Lose(v) PROVE SessionInOrder'
  BY <1>f, <1>1 DEF SessionInOrder, Send, Arrive, Lose, loopVars, chatVars, Busy
<1>2. ASSUME NEW v \in Viewer, RegisterPump(v) \/ TunnelEnds(v) \/ CollectChat(v)
      PROVE  SessionInOrder'
  BY <1>f, <1>2 DEF SessionInOrder, RegisterPump, TunnelEnds, CollectChat, loopVars,
     chatVars, Busy
<1>3. CASE Take
  BY <1>f, <1>r, <1>3 DEF SessionInOrder, Take, loopVars, chatVars, Busy
<1>4. CASE Visit
  <2>1. /\ UNCHANGED <<phase, link, listener>> /\ (phase = "connect" => FALSE)
        /\ listener
    <3>1. Busy
      BY <1>4, VisitFacts
    <3>2. QED
      BY <1>4, <3>1, VisitLoop DEF SessionInOrder, Fresh
  <2>2. QED
    BY <1>f, <2>1 DEF SessionInOrder
<1>5. CASE Connect \/ ConnectFails \/ Login \/ Listen \/ Watch \/ SetUpFails
  BY <1>f, <1>5 DEF SessionInOrder, Connect, ConnectFails, Login, Listen, Watch,
     SetUpFails, setUpVars, chatVars, Busy
<1>6. CASE StartOver \/ ConnectionLost
  BY <1>f, <1>6 DEF SessionInOrder, StartOver, ConnectionLost, setUpVars, chatVars, Busy
<1>7. CASE GiveUp
  <2>1. Fresh' /\ phase' = "wait" /\ link' = "none"
    BY <1>7, GiveUpFacts DEF GiveUp
  <2>2. QED
    BY <2>1 DEF SessionInOrder, Fresh
<1>8. QED
  BY <1>1, <1>2, <1>3, <1>4, <1>5, <1>6, <1>7 DEF Next, Step, Callback, Visit, SetUp

-----------------------------------------------------------------------------
(* The tunnels *)

\* Which listener a visit is of, and what is left to do after it.
LEMMA VisitOrder ==
    ASSUME TypeOK, TaskInOrder, Visit
    PROVE  /\ PacketListener => Todo \in {PacketFirst, <<"packet">>}
           /\ DeliverHeard \/ DeliverUnheard => Todo \in {ChatFirst, <<"chat">>}
           /\ Todo = PacketFirst => Busy' /\ Todo' = <<"chat">> /\ manager /\ order = PacketFirst
           /\ Todo = ChatFirst => Busy' /\ Todo' = <<"packet">> /\ manager /\ order = ChatFirst
           /\ Todo = <<"packet">> /\ Busy' => /\ NewTunnel /\ ~manager /\ order = PacketFirst
                                              /\ Todo' = <<"chat">>
           /\ Todo = <<"chat">> => ~Busy' /\ order = PacketFirst /\ manager
<1>1. Busy /\ Todo \in {PacketFirst, ChatFirst, <<"packet">>, <<"chat">>}
  BY VisitFacts, TaskTypes
<1>2. /\ PacketListener => Head(Todo) = "packet"
      /\ DeliverHeard \/ DeliverUnheard => Head(Todo) = "chat"
  BY DEF PacketListener, TunnelAlive, NewTunnel, RefuseTunnel, TunnelFails,
     DeliverHeard, DeliverUnheard, Visiting, Todo
<1>3. ~NewTunnel => task' = Rest(Tail(Todo))
  BY VisitFacts DEF Visited, Todo
<1>4. NewTunnel => \/ task' = Rest(Tail(Todo))
                   \/ task' = Rest(<<"chat">>) /\ ~manager /\ order = PacketFirst
  BY DEF NewTunnel, Todo
<1>5. /\ task' = Rest(Tail(Todo)) => /\ Busy' <=> Tail(Todo) # <<>>
                                     /\ Busy' => Todo' = Tail(Todo)
      /\ task' = Rest(<<"chat">>) => Busy' /\ Todo' = <<"chat">>
  BY RestFacts, Visits
<1>6. /\ Todo \in {PacketFirst, ChatFirst} => Todo = order /\ manager
      /\ Todo = <<"chat">> => order = PacketFirst /\ manager
  BY <1>1 DEF TaskInOrder
<1>7. QED
  BY <1>1, <1>2, <1>3, <1>4, <1>5, <1>6, Visits DEF Visit

\* What a pump's packet does to its variables, whosever the packet is.
LEMMA ProcessFacts ==
    ASSUME TypeOK, NEW t \in Viewer, NEW p \in Packet, ProcessMessage(t, p)
    PROVE  /\ last'[t] = CheckSequence(last[t], p.seq)
           /\ last[t] # NoSequence \/ Accepts(last[t], p.seq)
           /\ last'[t] # NoSequence
           /\ stop[t] => stop'[t]
           /\ shut'[t] => stop'[t] \/ shut[t]
           /\ \A v \in Viewer : v # t =>
                /\ last'[v] = last[v] /\ stop'[v] = stop[v]
                /\ shut'[v] = shut[v] /\ given'[v] = given[v]
<1>1. p.seq \in Nat
  BY SetupTypes DEF Packet
<1>2. last'[t] = CheckSequence(last[t], p.seq)
  BY DEF ProcessMessage, TypeOK
<1>3. last[t] # NoSequence \/ Accepts(last[t], p.seq)
  BY DEF Accepts
<1>4. last'[t] # NoSequence
  BY <1>1, <1>2, <1>3 DEF CheckSequence, NoSequence
<1>5. (stop[t] => stop'[t]) /\ (shut'[t] => stop'[t] \/ shut[t])
  BY DEF ProcessMessage, TypeOK
<1>6. ASSUME NEW v \in Viewer, v # t
      PROVE  /\ last'[v] = last[v] /\ stop'[v] = stop[v]
             /\ shut'[v] = shut[v] /\ given'[v] = given[v]
  BY <1>6 DEF ProcessMessage, TypeOK
<1>7. QED
  BY <1>2, <1>3, <1>4, <1>5, <1>6

\* The chat a packet is taken to.
LEMMA TargetFacts ==
    ASSUME TypeOK, Busy
    PROVE  /\ Target(packet.viewer) \in Viewer \cup {nobody}
           /\ nobody \notin Viewer
    BY TaskTypes, ViewerAssumption DEF Target, TypeOK

\* What a thread of the server has, it got in order.
LEMMA TunnelsStep == TypeOK /\ TunnelsInOrder /\ SessionInOrder /\ TaskInOrder /\ Next => TunnelsInOrder'
<1> SUFFICES ASSUME TypeOK, TunnelsInOrder, SessionInOrder, TaskInOrder, Next,
                    NEW v \in Viewer
             PROVE  TunnelInOrder(v)'
  BY DEF TunnelsInOrder
<1>t. TunnelInOrder(v)
  BY DEF TunnelsInOrder
<1>1. ASSUME UNCHANGED <<threads, chatVars, pumpVars>> PROVE TunnelInOrder(v)'
  BY <1>t, <1>1 DEF TunnelInOrder, chatVars, pumpVars
<1>2. ASSUME NEW w \in Viewer, Send(w) \/ Arrive(w) \/ Lose(w) PROVE TunnelInOrder(v)'
  BY <1>1, <1>2 DEF Send, Arrive, Lose
<1>3. CASE Take \/ TunnelAlive
  BY <1>1, <1>3 DEF Take, TunnelAlive
<1>4. CASE TunnelFails
  BY <1>1, <1>4 DEF TunnelFails
<1>5. CASE Connect \/ ConnectFails \/ Login \/ SetUp \/ StartOver \/ ConnectionLost
  BY <1>1, <1>5 DEF Connect, ConnectFails, Login, SetUp, Listen, Watch, SetUpFails,
     StartOver, ConnectionLost, setUpVars
<1>6. CASE GiveUp
  <2>1. Fresh' /\ v # nobody
    BY <1>6, GiveUpFacts, ViewerAssumption
  <2>2. QED
    BY <2>1 DEF Fresh, TunnelInOrder
<1>7. CASE NewTunnel
  BY <1>t, <1>7 DEF TunnelInOrder, NewTunnel, pumpVars, TypeOK
<1>8. CASE RefuseTunnel
  BY <1>t, <1>8 DEF TunnelInOrder, RefuseTunnel, pumpVars, TypeOK
<1>9. CASE DeliverHeard
  <2> DEFINE t == Target(packet.viewer)
  <2>1. /\ t \in Viewer /\ listening[t] /\ ProcessMessage(t, packet) /\ packet \in Packet
        /\ UNCHANGED <<threads, manager, chat, userChat, listening>>
    BY <1>9, TargetFacts, TaskTypes DEF DeliverHeard, Visiting, Busy, chatVars
  <2> HIDE DEF t
  <2>2. CASE v = t
    BY <1>t, <2>1, <2>2, ProcessFacts DEF TunnelInOrder
  <2>3. CASE v # t
    BY <1>t, <2>1, <2>3, ProcessFacts DEF TunnelInOrder
  <2>4. QED
    BY <2>2, <2>3
<1>10. CASE DeliverUnheard
  <2>1. Visit /\ manager
    BY <1>10, VisitOrder DEF Visit
  <2>2. /\ UNCHANGED <<threads, manager, userChat, pumpVars>>
        /\ chat'[v] = chat[v] \/ (chat[v] = "none" /\ chat'[v] = "found")
    BY <1>10, ViewerAssumption DEF DeliverUnheard, Target, TypeOK
  <2>3. QED
    BY <1>t, <2>1, <2>2 DEF TunnelInOrder, pumpVars
<1>11. ASSUME NEW w \in Viewer, CollectChat(w) PROVE TunnelInOrder(v)'
  BY <1>t, <1>11, ViewerAssumption DEF TunnelInOrder, CollectChat, pumpVars, TypeOK
<1>12. ASSUME NEW w \in Viewer, RegisterPump(w) PROVE TunnelInOrder(v)'
  BY <1>t, <1>12 DEF TunnelInOrder, RegisterPump, chatVars, TypeOK
<1>13. ASSUME NEW w \in Viewer, TunnelEnds(w) PROVE TunnelInOrder(v)'
  BY <1>t, <1>13 DEF TunnelInOrder, TunnelEnds, chatVars, TypeOK
<1>14. QED
  BY <1>2, <1>3, <1>4, <1>5, <1>6, <1>7, <1>8, <1>9, <1>10, <1>11, <1>12, <1>13
     DEF Next, Step, Callback, PacketListener

-----------------------------------------------------------------------------
(* What is accounted for *)

\* History is not forgotten, and a pump's lastSequence only with the session.
LEMMA Remembered ==
    ASSUME TypeOK, Next, NEW v \in Viewer
    PROVE  /\ missed[v] => missed'[v]
           /\ v \in served => v \in served'
           /\ last[v] # NoSequence => last'[v] # NoSequence \/ GiveUp
<1>1. ASSUME NEW w \in Viewer, Send(w) \/ Arrive(w) \/ Lose(w)
      PROVE  /\ missed[v] => missed'[v]
             /\ UNCHANGED <<served, last>>
  BY <1>1 DEF Send, Arrive, Lose, Miss, TypeOK, loopVars, pumpVars
<1>2. ASSUME NEW w \in Viewer, RegisterPump(w) \/ TunnelEnds(w) \/ CollectChat(w)
      PROVE  UNCHANGED <<missed, served, last>>
  BY <1>2 DEF RegisterPump, TunnelEnds, CollectChat, loopVars, pumpVars
<1>3. ASSUME Take \/ PacketListener \/ DeliverUnheard
      PROVE  (missed[v] => missed'[v]) /\ UNCHANGED <<served, last>>
  BY <1>3 DEF Take, PacketListener, TunnelAlive, NewTunnel, RefuseTunnel, TunnelFails,
     DeliverUnheard, MissUnless, Miss, TypeOK, loopVars, pumpVars
<1>4. ASSUME DeliverHeard
      PROVE  /\ missed[v] => missed'[v]
             /\ UNCHANGED served
             /\ last[v] # NoSequence => last'[v] # NoSequence
  <2> DEFINE t == Target(packet.viewer)
  <2>1. t \in Viewer /\ ProcessMessage(t, packet) /\ packet \in Packet
    BY <1>4, TargetFacts, TaskTypes DEF DeliverHeard, Visiting, Busy
  <2>2. last'[v] = last[v] \/ last'[v] # NoSequence
    BY <2>1, ProcessFacts
  <2>3. (missed[v] => missed'[v]) /\ UNCHANGED served
    BY <1>4 DEF DeliverHeard, MissUnless, Miss, TypeOK, loopVars
  <2>4. QED
    BY <2>2, <2>3
<1>5. ASSUME Connect \/ ConnectFails \/ Login \/ SetUp \/ StartOver \/ ConnectionLost
      PROVE  UNCHANGED <<missed, served, last>>
  BY <1>5 DEF Connect, ConnectFails, Login, SetUp, Listen, Watch, SetUpFails,
     StartOver, ConnectionLost, setUpVars, pumpVars
<1>6. ASSUME GiveUp
      PROVE  (missed[v] => missed'[v]) /\ (v \in served => v \in served')
  BY <1>6 DEF GiveUp
<1>7. QED
  BY <1>1, <1>2, <1>3, <1>4, <1>5, <1>6 DEF Next, Step, Callback

\* After ChatManager's listener a packet has reached its viewer's pump, or none.
LEMMA ChatVisit ==
    ASSUME TypeOK, DeliverHeard \/ DeliverUnheard
    PROVE  missed'[packet.viewer] \/ last'[packet.viewer] # NoSequence
<1>1. Busy /\ packet \in Packet /\ packet.viewer \in Viewer
  BY TaskTypes DEF DeliverHeard, DeliverUnheard, Visiting, Busy
<1>2. CASE DeliverUnheard
  BY <1>1, <1>2 DEF DeliverUnheard, Miss, TypeOK
<1>3. CASE DeliverHeard
  <2> DEFINE t == Target(packet.viewer)
  <2>1. t \in Viewer /\ ProcessMessage(t, packet) /\ MissUnless(t = packet.viewer, packet.viewer)
    BY <1>1, <1>3, TargetFacts DEF DeliverHeard
  <2> HIDE DEF t
  <2>2. last'[t] # NoSequence
    BY <1>1, <2>1, ProcessFacts
  <2>3. t # packet.viewer => missed'[packet.viewer]
    BY <1>1, <2>1 DEF MissUnless, Miss, TypeOK
  <2>4. QED
    BY <2>2, <2>3
<1>4. QED
  BY <1>2, <1>3

\* A visit leaves con with a ChatManager if it had one.
LEMMA ManagerStays ==
    ASSUME Visit
    PROVE  /\ manager => manager'
           /\ NewTunnel \/ RefuseTunnel => manager'
<1>1. CASE TunnelAlive \/ TunnelFails \/ DeliverHeard \/ DeliverUnheard
  <2>1. UNCHANGED manager
    BY <1>1 DEF TunnelAlive, TunnelFails, DeliverHeard, DeliverUnheard, chatVars
  <2>2. NewTunnel \/ RefuseTunnel => manager'
    BY DEF NewTunnel, RefuseTunnel
  <2>3. QED
    BY <2>1, <2>2
<1>2. CASE NewTunnel \/ RefuseTunnel
  BY <1>2 DEF NewTunnel, RefuseTunnel
<1>3. QED
  BY <1>1, <1>2 DEF Visit, PacketListener

\* Smack's order is chosen when nothing is at work, and registrations of
\* ChatManager come and go with visits and sessions.
LEMMA QuietSession ==
    ASSUME SessionInOrder, Next, ~Visit, ~GiveUp
    PROVE  UNCHANGED manager /\ (order' = order \/ (Connect /\ Fresh))
<1>1. ASSUME NEW w \in Viewer, Send(w) \/ Arrive(w) \/ Lose(w)
      PROVE  UNCHANGED <<manager, order>>
  BY <1>1 DEF Send, Arrive, Lose, loopVars, chatVars
<1>2. ASSUME NEW w \in Viewer, RegisterPump(w) \/ TunnelEnds(w) \/ CollectChat(w)
      PROVE  UNCHANGED <<manager, order>>
  BY <1>2 DEF RegisterPump, TunnelEnds, CollectChat, loopVars, chatVars
<1>3. ASSUME Take \/ ConnectFails \/ Login \/ SetUp \/ StartOver \/ ConnectionLost
      PROVE  UNCHANGED <<manager, order>>
  BY <1>3 DEF Take, ConnectFails, Login, SetUp, Listen, Watch, SetUpFails,
     StartOver, ConnectionLost, setUpVars, loopVars, chatVars
<1>4. Connect => UNCHANGED manager /\ Fresh
  BY DEF Connect, setUpVars, chatVars, SessionInOrder
<1>5. QED
  BY <1>1, <1>2, <1>3, <1>4 DEF Next, Step, Callback, Visit

\* The callback thread goes on with its packet in Smack's order.
LEMMA TaskStep ==
    TypeOK /\ QueueInOrder /\ SessionInOrder /\ TaskInOrder /\ WireInOrder /\ Next
      => TaskInOrder'
<1> SUFFICES ASSUME TypeOK, QueueInOrder, SessionInOrder, TaskInOrder, WireInOrder,
                    Next, Busy'
             PROVE  /\ Todo' \in {PacketFirst, ChatFirst} => Todo' = order' /\ manager'
                    /\ Todo' = <<"chat">> => order' = PacketFirst /\ manager'
                    /\ Todo' = <<"packet">> /\ manager' =>
                         /\ order' = ChatFirst
                         /\ missed'[packet'.viewer] \/ last'[packet'.viewer] # NoSequence
  BY DEF TaskInOrder
<1>1. CASE ~Visit /\ ~GiveUp /\ ~Take
  <2>1. Busy /\ packet' = packet /\ Todo' = Todo
    <3>1. UNCHANGED task
      BY <1>1, Movers, SendFacts, LoseFacts, ArriveFacts, QuietMessages
    <3>2. QED
      BY <3>1 DEF Busy, packet, Todo
  <2>2. UNCHANGED <<manager, order>>
    BY <1>1, <2>1, QuietSession DEF Fresh
  <2>3. packet.viewer \in Viewer
    BY <2>1, TaskTypes
  <2>4. missed[packet.viewer] \/ last[packet.viewer] # NoSequence
          => missed'[packet.viewer] \/ last'[packet.viewer] # NoSequence
    BY <1>1, <2>3, Remembered
  <2>5. QED
    BY <2>1, <2>2, <2>4 DEF TaskInOrder
<1>2. CASE Take
  <2>1. Registered # <<>> /\ Todo' = Registered /\ UNCHANGED <<listener, manager, order>>
    BY <1>2, TakeFacts DEF Take, loopVars, chatVars
  <2>2. order \in {PacketFirst, ChatFirst} /\ (manager => listener)
    BY SetupTypes DEF TypeOK, SessionInOrder
  <2>3. \/ listener /\ manager /\ Registered = order
        \/ listener /\ ~manager /\ Registered = <<"packet">>
    BY <2>1, <2>2 DEF Registered, TypeOK
  <2>4. QED
    BY <2>1, <2>2, <2>3, Visits
<1>3. CASE Visit
  <2>1. /\ Busy /\ packet' = packet /\ UNCHANGED order /\ (manager => manager')
        /\ Todo \in {PacketFirst, ChatFirst, <<"packet">>, <<"chat">>}
    BY <1>3, VisitFacts, VisitLoop, ManagerStays, TaskTypes
  <2>2. CASE Todo = PacketFirst
    BY <1>3, <2>1, <2>2, VisitOrder, Visits
  <2>3. CASE Todo = ChatFirst
    <3>1. DeliverHeard \/ DeliverUnheard
      BY <1>3, <2>3, VisitOrder, Visits DEF Visit
    <3>2. Todo' = <<"packet">> /\ order = ChatFirst
      BY <1>3, <2>3, VisitOrder
    <3>3. QED
      BY <2>1, <3>1, <3>2, ChatVisit, Visits
  <2>4. CASE Todo = <<"packet">>
    <3>1. NewTunnel /\ order = PacketFirst /\ Todo' = <<"chat">>
      BY <1>3, <2>4, VisitOrder
    <3>2. QED
      BY <1>3, <2>1, <3>1, ManagerStays, Visits
  <2>5. CASE Todo = <<"chat">>
    BY <1>3, <2>5, VisitOrder
  <2>6. QED
    BY <2>1, <2>2, <2>3, <2>4, <2>5
<1>4. CASE GiveUp
  BY <1>4, GiveUpFacts DEF Fresh
<1>5. QED
  BY <1>1, <1>2, <1>3, <1>4

\* How a message that was still to come stops being so.
LEMMA StillPending ==
    ASSUME TypeOK, WireInOrder, QueueInOrder, Next, NEW v \in Viewer, NEW n, Pending(v, n)
    PROVE  \/ Pending(v, n)'
           \/ Lose(v) /\ n = Base(v)
           \/ Take /\ Registered = <<>> /\ queue[1] = [viewer |-> v, seq |-> n]
           \/ Visit /\ AtWork(v, n) /\ ~Busy'
           \/ GiveUp /\ (Queued(v, n) \/ AtWork(v, n))
<1>1. CASE Quiet \/ Visit \/ GiveUp
  BY <1>1, QuietMessages, VisitFacts, GiveUpFacts DEF Pending
<1>2. CASE Take
  BY <1>2, TakeFacts DEF Pending, AtWork
<1>3. ASSUME NEW w \in Viewer, Send(w) PROVE Pending(v, n)'
  BY <1>3, SendFacts DEF Pending
<1>4. ASSUME NEW w \in Viewer, Arrive(w) PROVE Pending(v, n)'
  BY <1>4, ArriveFacts DEF Pending
<1>5. ASSUME NEW w \in Viewer, Lose(w) PROVE Pending(v, n)' \/ (w = v /\ n = Base(v))
  BY <1>5, LoseFacts DEF Pending
<1>6. QED
  BY <1>1, <1>2, <1>3, <1>4, <1>5, Movers

\* When the callback thread is done with a packet, its viewer's pump has seen
\* a message or the viewer has missed one.
LEMMA DoneWith ==
    ASSUME TypeOK, TunnelsInOrder, TaskInOrder, Visit, Next, ~Busy'
    PROVE  missed'[packet.viewer] \/ last'[packet.viewer] # NoSequence
<1> DEFINE v == packet.viewer
<1>1. Busy /\ v \in Viewer
  BY VisitFacts, TaskTypes
<1>2. CASE DeliverHeard \/ DeliverUnheard
  BY <1>2, ChatVisit
<1>3. CASE PacketListener
  <2>1. Todo = <<"packet">>
    BY <1>3, VisitOrder
  <2>2. ASSUME manager PROVE missed'[v] \/ last'[v] # NoSequence
    <3>1. missed[v] \/ last[v] # NoSequence
      BY <1>1, <2>1, <2>2 DEF TaskInOrder
    <3>2. ~GiveUp
      BY <1>1, <1>3 DEF PacketListener, TunnelAlive, NewTunnel, RefuseTunnel, TunnelFails,
         GiveUp, loopVars
    <3>3. QED
      BY <1>1, <3>1, <3>2, Remembered
  <2>3. ASSUME ~manager PROVE missed'[v]
    <3>1. ~TunnelAlive
      BY <1>1, <2>3 DEF TunnelAlive, TunnelsInOrder, TunnelInOrder
    <3>2. NewTunnel => MissUnless(FALSE, v)
      <4>1. Tail(task[1].todo) = <<>>
        BY <2>1, Visits DEF Todo
      <4>2. NewTunnel => \/ MissUnless(Tail(task[1].todo) # <<>>, v)
                         \/ task' = Rest(<<"chat">>)
        BY DEF NewTunnel
      <4>3. task' # Rest(<<"chat">>)
        BY RestFacts, Visits
      <4>4. QED
        BY <4>1, <4>2, <4>3
    <3>3. RefuseTunnel \/ TunnelFails => MissUnless(FALSE, v)
      BY <2>3 DEF RefuseTunnel, TunnelFails, MissUnless
    <3>4. QED
      BY <1>1, <1>3, <3>1, <3>2, <3>3 DEF PacketListener, MissUnless, Miss, TypeOK
  <2>4. QED
    BY <2>2, <2>3
<1>4. QED
  BY <1>2, <1>3 DEF Visit

\* The end of a session is over what it had.
LEMMA GiveUpForgets ==
    ASSUME TypeOK, TunnelsInOrder, GiveUp, NEW v \in Viewer
    PROVE  /\ last[v] # NoSequence => v \in served'
           /\ \A n : Queued(v, n) \/ AtWork(v, n) => missed'[v]
<1>1. last[v] # NoSequence => threads[v] # "none"
  BY DEF TunnelsInOrder, TunnelInOrder
<1>2. \A n : Queued(v, n) => \E i \in 1..Len(queue) : queue[i].viewer = v
  BY DEF Queued
<1>3. \A n : AtWork(v, n) => task # <<>> /\ packet.viewer = v
  BY DEF AtWork, Busy
<1>4. QED
  BY <1>1, <1>2, <1>3 DEF GiveUp

\* A viewer's first message is not lost sight of.
LEMMA FirstStep ==
    TypeOK /\ WireInOrder /\ QueueInOrder /\ TunnelsInOrder /\ TaskInOrder
      /\ FirstAccountedFor /\ Next => FirstAccountedFor'
<1> SUFFICES ASSUME TypeOK, WireInOrder, QueueInOrder, TunnelsInOrder, TaskInOrder,
                    FirstAccountedFor, Next, NEW v \in Viewer
             PROVE  missed'[v] \/ v \in served' \/ last'[v] # NoSequence \/ Pending(v, 0)'
  BY DEF FirstAccountedFor
<1>1. CASE missed[v] \/ v \in served
  BY <1>1, Remembered
<1>2. CASE last[v] # NoSequence
  BY <1>2, Remembered, GiveUpForgets
<1>3. CASE Pending(v, 0)
  <2>1. Lose(v) => missed'[v]
    BY LoseFacts
  <2>2. ASSUME Take, Registered = <<>>, queue[1] = [viewer |-> v, seq |-> 0]
        PROVE  missed'[v]
    <3>1. queue[1].viewer = v
      BY <2>2
    <3>2. missed' = [missed EXCEPT ![v] = TRUE]
      BY <2>2, <3>1, TakeFacts
    <3>3. QED
      BY <3>2 DEF TypeOK
  <2>3. AtWork(v, 0) => packet.viewer = v
    BY DEF AtWork
  <2>4. QED
    BY <1>3, <2>1, <2>2, <2>3, StillPending, DoneWith, GiveUpForgets
<1>4. QED
  BY <1>1, <1>2, <1>3 DEF FirstAccountedFor

\* Nor is the message for which a tunnel was made.
LEMMA TunnelsAccountStep ==
    TypeOK /\ WireInOrder /\ QueueInOrder /\ SessionInOrder /\ TunnelsInOrder /\ TaskInOrder
      /\ TunnelsAccountedFor /\ Next => TunnelsAccountedFor'
<1> SUFFICES ASSUME TypeOK, WireInOrder, QueueInOrder, SessionInOrder, TunnelsInOrder,
                    TaskInOrder, TunnelsAccountedFor, Next, NEW v \in Viewer,
                    threads'[v] # "none"
             PROVE  \/ missed'[v] \/ last'[v] # NoSequence
                    \/ Busy' /\ packet'.viewer = v /\ Todo' = <<"chat">>
  BY DEF TunnelsAccountedFor
<1>1. ~GiveUp
  BY DEF GiveUp, NoSession
<1>2. CASE threads[v] # "none"
  <2>1. CASE missed[v] \/ last[v] # NoSequence
    BY <1>1, <2>1, Remembered
  <2>2. CASE Busy /\ packet.viewer = v /\ Todo = <<"chat">>
    <3>1. CASE Visit
      <4>1. ~Busy'
        BY <2>2, <3>1, VisitOrder
      <4>2. QED
        BY <2>2, <3>1, <4>1, DoneWith
    <3>2. CASE ~Visit
      <4>1. UNCHANGED task
        BY <1>1, <2>2, <3>2, Movers, SendFacts, LoseFacts, ArriveFacts, QuietMessages, TakeFacts
      <4>2. QED
        BY <2>2, <4>1 DEF Busy, packet, Todo
    <3>3. QED
      BY <3>1, <3>2
  <2>3. QED
    BY <1>2, <2>1, <2>2 DEF TunnelsAccountedFor
<1>3. CASE threads[v] = "none"
  <2>1. NewTunnel /\ packet.viewer = v
    <3>1. \/ UNCHANGED threads
          \/ \E w \in Viewer : threads[w] = "alive" /\ threads' = [threads EXCEPT ![w] = "dead"]
          \/ NewTunnel
      BY <1>1 DEF Next, Step, Callback, PacketListener, SetUp, Send, Arrive, Lose, Take,
         RegisterPump, TunnelEnds, CollectChat, TunnelAlive, RefuseTunnel, TunnelFails,
         DeliverHeard, DeliverUnheard, Connect, ConnectFails, Login, Listen, Watch,
         SetUpFails, StartOver, ConnectionLost, setUpVars
    <3>2. NewTunnel
      BY <1>3, <3>1 DEF TypeOK
    <3>3. QED
      BY <1>3, <3>2 DEF NewTunnel, TypeOK
  <2>2. Visit
    BY <2>1 DEF Visit, PacketListener
  <2>3. CASE ~Busy'
    BY <2>1, <2>2, <2>3, DoneWith
  <2>4. CASE Busy'
    <3>1. packet' = packet
      BY <2>2, <2>4, VisitFacts
    <3>2. Todo' = <<"chat">>
      BY <2>1, <2>2, <2>4, VisitOrder DEF PacketListener
    <3>3. QED
      BY <2>1, <2>4, <3>1, <3>2
  <2>5. QED
    BY <2>3, <2>4
<1>4. QED
  BY <1>2, <1>3

-----------------------------------------------------------------------------
(* What a pump is given *)

\* Only a packet taken to a pump, or the end of the session, changes what the
\* pump has seen and written.
LEMMA PumpsKept ==
    ASSUME TypeOK, Next, ~DeliverHeard, ~GiveUp
    PROVE  /\ UNCHANGED <<last, stop, given>>
           /\ \A v \in Viewer : shut[v] => shut'[v]
<1>1. ASSUME NEW w \in Viewer, TunnelEnds(w)
      PROVE  UNCHANGED <<last, stop, given>> /\ \A v \in Viewer : shut[v] => shut'[v]
  BY <1>1 DEF TunnelEnds, TypeOK
<1>2. ASSUME NEW w \in Viewer,
             Send(w) \/ Arrive(w) \/ Lose(w) \/ RegisterPump(w) \/ CollectChat(w)
      PROVE  UNCHANGED <<last, stop, shut, given>>
  BY <1>2 DEF Send, Arrive, Lose, RegisterPump, CollectChat, pumpVars
<1>3. ASSUME Take \/ PacketListener \/ DeliverUnheard
      PROVE  UNCHANGED <<last, stop, shut, given>>
  BY <1>3 DEF Take, PacketListener, TunnelAlive, NewTunnel, RefuseTunnel, TunnelFails,
     DeliverUnheard, pumpVars
<1>4. ASSUME Connect \/ ConnectFails \/ Login \/ SetUp \/ StartOver \/ ConnectionLost
      PROVE  UNCHANGED <<last, stop, shut, given>>
  BY <1>4 DEF Connect, ConnectFails, Login, SetUp, Listen, Watch, SetUpFails,
     StartOver, ConnectionLost, setUpVars, pumpVars
<1>5. QED
  BY <1>1, <1>2, <1>3, <1>4 DEF Next, Step, Callback

\* The pump of a packet's chat refuses it, takes "_start", takes "_end", writes
\* it, or cannot.
PumpDoes(t, p) ==
    \/ /\ ~Accepts(last[t], p.seq) /\ last'[t] = last[t] /\ stop'[t]
       /\ shut'[t] = shut[t] /\ given'[t] = given[t]
    \/ /\ Accepts(last[t], p.seq) /\ last'[t] = p.seq
       /\ \/ /\ p.seq = 0 /\ stop'[t] = stop[t] /\ shut'[t] = shut[t]
             /\ given'[t] = given[t]
          \/ /\ p.seq = Last /\ p.seq # 0 /\ shut'[t] /\ given'[t] = given[t]
          \/ /\ p.seq \in 1..(Last - 1) /\ ~shut[t]
             /\ stop'[t] = stop[t] /\ shut'[t] = shut[t]
             /\ given'[t] = Append(given[t], p)
          \/ /\ p.seq \in 1..(Last - 1) /\ (shut[t] \/ "reset" \in Faults)
             /\ shut'[t] /\ given'[t] = given[t]

\* And does so to no other pump.
LEMMA HeardFacts ==
    ASSUME TypeOK, DeliverHeard
    PROVE  \E t \in Viewer :
             /\ t = Target(packet.viewer) /\ listening[t] /\ PumpDoes(t, packet)
             /\ \A v \in Viewer : v # t =>
                  /\ last'[v] = last[v] /\ stop'[v] = stop[v]
                  /\ shut'[v] = shut[v] /\ given'[v] = given[v]
<1> DEFINE t == Target(packet.viewer)
<1>1. t \in Viewer /\ listening[t] /\ ProcessMessage(t, packet) /\ packet \in Packet
  BY TargetFacts, TaskTypes DEF DeliverHeard, Visiting, Busy
<1> HIDE DEF t
<1>2. last'[t] = IF Accepts(last[t], packet.seq) THEN packet.seq ELSE last[t]
  BY <1>1, ProcessFacts DEF CheckSequence
<1>3. PumpDoes(t, packet)
  BY <1>1, <1>2 DEF ProcessMessage, PumpDoes, TypeOK
<1>4. QED
  BY <1>1, <1>3, ProcessFacts DEF t

\* A pump that has written nothing and still can has seen "_start" at most.
LEMMA SkippedStep ==
    TypeOK /\ NothingSkipped /\ Next => NothingSkipped'
<1> SUFFICES ASSUME TypeOK, NothingSkipped, Next, NEW v \in Viewer,
                    given'[v] = <<>>, ~shut'[v]
             PROVE  last'[v] \in {NoSequence, 0}
  BY DEF NothingSkipped
<1>1. CASE ~DeliverHeard /\ ~GiveUp
  BY <1>1, PumpsKept DEF NothingSkipped
<1>2. CASE GiveUp
  BY <1>2 DEF GiveUp, NoSession
<1>3. CASE DeliverHeard
  <2>1. PICK t \in Viewer :
          /\ PumpDoes(t, packet)
          /\ v # t => last'[v] = last[v] /\ shut'[v] = shut[v] /\ given'[v] = given[v]
    BY <1>3, HeardFacts
  <2>2. CASE v # t
    BY <2>1, <2>2 DEF NothingSkipped
  <2>3. CASE v = t
    <3>1. packet \in Packet /\ given[t] \in Seq(Packet)
      BY <1>3, TaskTypes DEF TypeOK, DeliverHeard, Visiting, Busy
    <3>2. Append(given[t], packet) # <<>>
      BY <3>1
    <3>3. QED
      BY <2>1, <2>3, <3>2 DEF PumpDoes, NothingSkipped
  <2>4. QED
    BY <2>2, <2>3
<1>4. QED
  BY <1>1, <1>2, <1>3

\* What is given begins with chunk 1, or something is missing.
LEMMA SplitStep ==
    TypeOK /\ WireInOrder /\ QueueInOrder /\ TunnelsInOrder /\ FirstAccountedFor
      /\ TunnelsAccountedFor /\ NothingSkipped /\ SplitOnlyByRestart /\ Next
      => SplitOnlyByRestart'
<1> SUFFICES ASSUME TypeOK, WireInOrder, QueueInOrder, TunnelsInOrder, FirstAccountedFor,
                    TunnelsAccountedFor, NothingSkipped, SplitOnlyByRestart, Next,
                    NEW v \in Viewer, given'[v] # <<>>, given'[v][1].seq # 1
             PROVE  missed'[v] \/ v \in served'
  BY DEF SplitOnlyByRestart
<1>1. ASSUME given'[v] = given[v] PROVE missed'[v] \/ v \in served'
  BY <1>1, Remembered DEF SplitOnlyByRestart
<1>2. CASE ~DeliverHeard /\ ~GiveUp
  BY <1>1, <1>2, PumpsKept
<1>3. CASE GiveUp
  BY <1>3 DEF GiveUp, NoSession
<1>4. CASE DeliverHeard
  <2>1. PICK t \in Viewer :
          /\ PumpDoes(t, packet) /\ listening[t]
          /\ v # t => given'[v] = given[v]
    BY <1>4, HeardFacts
  <2>2. packet \in Packet /\ given[t] \in Seq(Packet) /\ packet.seq \in Nat /\ Busy
    <3>1. Busy
      BY <1>4 DEF DeliverHeard, Visiting, Busy
    <3>2. packet \in Packet /\ packet.seq \in 0..Last /\ Last \in Nat
      BY <3>1, TaskTypes, SetupTypes
    <3>3. QED
      BY <3>1, <3>2 DEF TypeOK
  <2>3. CASE given'[v] = given[v]
    BY <1>1, <2>3
  <2>4. CASE given'[v] # given[v]
    <3>1. /\ v = t /\ Accepts(last[v], packet.seq) /\ packet.seq \in 1..(Last - 1)
          /\ ~shut[v] /\ given'[v] = Append(given[v], packet)
      BY <2>1, <2>4 DEF PumpDoes
    <3>2. CASE given[v] # <<>>
      <4>1. given'[v][1] = given[v][1]
        <5>1. 1 \in 1..Len(given[v])
          BY <2>2, <3>1, <3>2, TailFacts
        <5>2. QED
          BY <2>2, <3>1, <5>1, AppendFacts
      <4>2. QED
        BY <3>2, <4>1, Remembered DEF SplitOnlyByRestart
    <3>3. CASE given[v] = <<>>
      <4>1. given'[v][1] = packet
        BY <2>2, <3>1, <3>3
      <4>2. packet.seq > 1
        BY <2>2, <3>1, <4>1
      <4>3. last[v] = NoSequence
        <5>1. last[v] \in {NoSequence, 0}
          BY <3>1, <3>3 DEF NothingSkipped
        <5>2. QED
          BY <3>1, <4>2, <5>1 DEF Accepts, NoSequence
      <4>4. missed[v] \/ (packet.viewer = v)
        BY <2>1, <3>1, <4>3 DEF TunnelsInOrder, TunnelInOrder, TunnelsAccountedFor
      <4>5. ASSUME packet.viewer = v PROVE ~Pending(v, 0)
        <5>1. AtWork(v, packet.seq) /\ packet.seq \in 0..Last
          BY <2>2, <4>5, PacketFacts
        <5>2. packet.seq < Base(v) /\ ~Queued(v, 0)
          BY <2>2, <5>1 DEF QueueInOrder
        <5>3. ~AtWork(v, 0)
          BY <4>2 DEF AtWork
        <5>4. Base(v) # 0
          BY <2>2, <4>2, <5>2
        <5>5. QED
          BY <5>2, <5>3, <5>4 DEF Pending
      <4>6. missed[v] \/ v \in served
        BY <4>3, <4>4, <4>5 DEF FirstAccountedFor
      <4>7. QED
        BY <4>6, Remembered
    <3>4. QED
      BY <3>2, <3>3
  <2>5. QED
    BY <2>3, <2>4
<1>5. QED
  BY <1>2, <1>3, <1>4

-----------------------------------------------------------------------------
(* Whose messages a tunnel is given *)

\* A session does not become undisturbed once something has happened in it.
LEMMA UndisturbedBefore ==
    ASSUME TypeOK, SessionInOrder, Next, Undisturbed'
    PROVE  Undisturbed \/ Fresh'
<1>f. Faults' = Faults
  BY SameSetup
<1>1. ASSUME order' = order, errors => errors' PROVE Undisturbed
  BY <1>1, <1>f DEF Undisturbed
<1>2. CASE Visit
  BY <1>1, <1>2, VisitLoop
<1>3. CASE GiveUp
  BY <1>3, GiveUpFacts
<1>4. CASE phase \in {"connect", "wait"}
  BY <1>4, FreshStep
<1>5. ASSUME NEW w \in Viewer, Send(w) \/ Arrive(w) \/ Lose(w) \/ RegisterPump(w)
                                 \/ TunnelEnds(w) \/ CollectChat(w)
      PROVE  order' = order /\ (errors => errors')
  BY <1>5 DEF Send, Arrive, Lose, RegisterPump, TunnelEnds, CollectChat, loopVars
<1>6. ASSUME Take \/ Login \/ SetUp
      PROVE  order' = order /\ (errors => errors')
  BY <1>6 DEF Take, Login, SetUp, Listen, Watch, SetUpFails, loopVars
<1>7. ASSUME ConnectionLost
      PROVE  order' = order /\ (errors => errors')
  BY <1>7 DEF ConnectionLost
<1>8. Connect \/ ConnectFails \/ StartOver => phase \in {"connect", "wait"}
  BY DEF Connect, ConnectFails, StartOver
<1>9. QED
  BY <1>1, <1>2, <1>3, <1>4, <1>5, <1>6, <1>7, <1>8 DEF Next, Step, Callback, Visit

\* How a visit of MyPacketListener leaves the chats.
LEMMA ListenerChats ==
    ASSUME TypeOK, TunnelsInOrder, PacketListener
    PROVE  LET v == packet.viewer IN
           \/ TunnelAlive /\ chat'[v] = "tunnel"
           \/ NewTunnel /\ chat'[v] = "tunnel"
           \/ RefuseTunnel /\ userChat' = v /\ "refuse" \in Faults
           \/ TunnelFails /\ errors' /\ UNCHANGED chatVars
<1>1. packet.viewer \in Viewer
  BY TaskTypes DEF PacketListener, TunnelAlive, NewTunnel, RefuseTunnel, TunnelFails,
     Visiting, Busy
<1>2. TunnelAlive => chat'[packet.viewer] = "tunnel"
  BY <1>1 DEF TunnelAlive, TunnelsInOrder, TunnelInOrder, chatVars
<1>3. NewTunnel => chat'[packet.viewer] = "tunnel"
  BY <1>1 DEF NewTunnel, TypeOK
<1>4. RefuseTunnel => userChat' = packet.viewer /\ "refuse" \in Faults
  BY DEF RefuseTunnel
<1>5. TunnelFails => errors' /\ UNCHANGED chatVars
  BY DEF TunnelFails
<1>6. QED
  BY <1>2, <1>3, <1>4, <1>5 DEF PacketListener

\* Besides the listeners' visits only the garbage collector takes chats away.
LEMMA ChatsKept ==
    ASSUME TypeOK, Next, ~Visit, ~GiveUp
    PROVE  \/ UNCHANGED <<chat, userChat>>
           \/ \E w \in Viewer : CollectChat(w)
<1>1. ASSUME NEW w \in Viewer,
             Send(w) \/ Arrive(w) \/ Lose(w) \/ RegisterPump(w) \/ TunnelEnds(w)
      PROVE  UNCHANGED <<chat, userChat>>
  BY <1>1 DEF Send, Arrive, Lose, RegisterPump, TunnelEnds, chatVars
<1>2. ASSUME Take \/ Connect \/ ConnectFails \/ Login \/ SetUp \/ StartOver \/ ConnectionLost
      PROVE  UNCHANGED <<chat, userChat>>
  BY <1>2 DEF Take, Connect, ConnectFails, Login, SetUp, Listen, Watch, SetUpFails,
     StartOver, ConnectionLost, setUpVars, chatVars
<1>3. QED
  BY <1>1, <1>2 DEF Next, Step, Callback, Visit

\* What is taken to a chat is taken to the tunnel's, or heard by none.
LEMMA ChatOwnStep ==
    TypeOK /\ SessionInOrder /\ QueueInOrder /\ TunnelsInOrder /\ TaskInOrder /\ ChatIsOwn
      /\ WireInOrder /\ Next => ChatIsOwn'
<1> SUFFICES ASSUME TypeOK, SessionInOrder, QueueInOrder, TunnelsInOrder, TaskInOrder,
                    ChatIsOwn, WireInOrder, Next,
                    Undisturbed', Busy', Todo' = <<"chat">>
             PROVE  \/ chat'[packet'.viewer] = "tunnel"
                    \/ userChat' \in {packet'.viewer, nobody}
                    \/ "gc" \notin Faults' /\ chat'[packet'.viewer] # "none"
  BY DEF ChatIsOwn
<1>1. ~Fresh' /\ ~GiveUp
  BY GiveUpFacts DEF Fresh
<1>2. Undisturbed /\ Faults' = Faults
  BY <1>1, UndisturbedBefore, SameSetup
<1>3. CASE Visit
  <2>1. packet' = packet /\ Busy
    BY <1>3, VisitFacts
  <2>2. PacketListener
    BY <1>3, VisitOrder, Visits DEF Visit
  <2>3. CASE TunnelFails /\ errors' /\ UNCHANGED chatVars
    <3>1. Todo = PacketFirst \/ NewTunnel
      BY <1>3, <2>2, VisitOrder
    <3>2. CASE NewTunnel
      BY <2>1, <3>2, TaskTypes DEF NewTunnel, TypeOK
    <3>3. CASE Todo = PacketFirst
      <4>1. manager
        BY <1>3, <3>3, VisitOrder
      <4>2. chat[packet.viewer] # "none"
        BY <2>3, <4>1 DEF TunnelFails, CanCreate
      <4>3. "gc" \notin Faults'
        BY <2>3 DEF Undisturbed
      <4>4. QED
        BY <2>1, <2>3, <4>2, <4>3 DEF chatVars
    <3>4. QED
      BY <3>1, <3>2, <3>3
  <2>4. QED
    BY <2>1, <2>2, <2>3, ListenerChats
<1>4. CASE Take
  <2>1. Registered = <<"chat">> /\ order \in {PacketFirst, ChatFirst} /\ (manager => listener)
    BY <1>4, TakeFacts, SetupTypes DEF TypeOK, SessionInOrder
  <2>2. QED
    BY <2>1, Visits DEF Registered, TypeOK
<1>5. CASE ~Visit /\ ~Take
  <2>1. packet' = packet /\ Todo' = Todo /\ Busy
    <3>1. UNCHANGED task
      BY <1>1, <1>5, Movers, SendFacts, LoseFacts, ArriveFacts, QuietMessages
    <3>2. QED
      BY <3>1 DEF Busy, packet, Todo
  <2>2. packet.viewer \in Viewer
    BY <2>1, TaskTypes
  <2>3. CASE UNCHANGED <<chat, userChat>>
    BY <1>2, <2>1, <2>3 DEF ChatIsOwn
  <2>4. ASSUME NEW w \in Viewer, CollectChat(w)
        PROVE  \/ chat'[packet.viewer] = "tunnel"
               \/ userChat' \in {packet.viewer, nobody}
    <3>1. /\ "gc" \in Faults
          /\ chat[packet.viewer] = "tunnel" => chat'[packet.viewer] = "tunnel"
          /\ userChat' \in {userChat, nobody}
      BY <2>2, <2>4 DEF CollectChat, TypeOK
    <3>2. QED
      BY <1>2, <2>1, <3>1 DEF ChatIsOwn
  <2>5. QED
    BY <1>1, <1>5, <2>1, <2>3, <2>4, ChatsKept
<1>6. QED
  BY <1>3, <1>4, <1>5

\* So a pump that hears a packet is its viewer's.
LEMMA OwnTarget ==
    ASSUME TypeOK, TaskInOrder, ChatIsOwn, Undisturbed, DeliverHeard
    PROVE  /\ Target(packet.viewer) = packet.viewer /\ packet.viewer \in Viewer
           /\ Todo = <<"chat">> /\ Busy /\ ~Busy'
           /\ AtWork(packet.viewer, packet.seq) /\ packet.seq \in 0..Last
<1>1. Visit /\ Busy
  BY VisitFacts DEF Visit
<1>2. Todo = <<"chat">> /\ ~Busy'
  BY <1>1, VisitOrder, Visits DEF Undisturbed
<1>3. Target(packet.viewer) # nobody
  BY DEF DeliverHeard
<1>4. Target(packet.viewer) = packet.viewer
  BY <1>1, <1>2, <1>3 DEF ChatIsOwn, Target
<1>5. QED
  BY <1>1, <1>2, <1>4, PacketFacts, TaskTypes

\* What is pending has been so, or has become so behind what left the wire.
LEMMA PendingBefore ==
    ASSUME TypeOK, WireInOrder, QueueInOrder, Next, NEW v \in Viewer, NEW n, Pending(v, n)'
    PROVE  \/ Pending(v, n)
           \/ n = Base(v) + 1
<1>1. CASE Quiet \/ Visit \/ GiveUp
  BY <1>1, QuietMessages, VisitFacts, GiveUpFacts DEF Pending
<1>2. CASE Take
  BY <1>2, TakeFacts DEF Pending
<1>3. ASSUME NEW w \in Viewer, Send(w) PROVE Pending(v, n)
  BY <1>3, SendFacts DEF Pending
<1>4. ASSUME NEW w \in Viewer, Arrive(w) PROVE Pending(v, n) \/ n = Base(v) + 1
  BY ZenonT(40), <1>4, ArriveFacts DEF Pending
<1>5. ASSUME NEW w \in Viewer, Lose(w) PROVE Pending(v, n) \/ n = Base(v) + 1
  BY <1>5, LoseFacts DEF Pending
<1>6. QED
  BY <1>1, <1>2, <1>3, <1>4, <1>5, Movers

\* A viewer sends Last + 1 messages.
LEMMA BaseRange ==
    ASSUME TypeOK, WireInOrder, NEW v \in Viewer
    PROVE  Base(v) \in 0..(Last + 1) /\ Pending(v, Base(v))
<1>1. sent[v] \in 0..(Last + 1) /\ Len(wire[v]) \in Nat /\ Last \in Nat
  BY Numbers DEF TypeOK
<1>2. Base(v) >= 0
  BY DEF WireInOrder
<1>3. QED
  BY <1>1, <1>2 DEF Base, Pending

\* What a pump has seen stays behind what is still to come.
LEMMA PastStep ==
    TypeOK /\ WireInOrder /\ QueueInOrder /\ SessionInOrder /\ TaskInOrder
      /\ ChatIsOwn /\ LastIsPast /\ Next => LastIsPast'
<1> SUFFICES ASSUME TypeOK, WireInOrder, QueueInOrder, SessionInOrder, TaskInOrder,
                    ChatIsOwn, LastIsPast, Next, Undisturbed',
                    NEW v \in Viewer, NEW n \in 0..(Last + 1), Pending(v, n)'
             PROVE  last'[v] < n
  BY SameSetup DEF LastIsPast
<1>n. Last \in Nat /\ n \in Nat /\ last[v] \in Int /\ Base(v) \in Int
  BY Numbers
<1>1. CASE Fresh'
  BY <1>n, <1>1 DEF Fresh, NoSequence
<1>2. CASE ~Fresh'
  <2>1. Undisturbed /\ ~GiveUp
    BY <1>2, UndisturbedBefore, GiveUpFacts
  <2>2. last[v] < n
    <3>1. last[v] < Base(v)
      BY <2>1, BaseRange DEF LastIsPast
    <3>2. Pending(v, n) => last[v] < n
      BY <2>1 DEF LastIsPast
    <3>3. QED
      BY <1>n, <3>1, <3>2, PendingBefore
  <2>3. CASE ~DeliverHeard
    BY <2>1, <2>2, <2>3, PumpsKept
  <2>4. CASE DeliverHeard
    <3>1. PICK t \in Viewer :
            /\ t = Target(packet.viewer) /\ PumpDoes(t, packet)
            /\ v # t => last'[v] = last[v]
      BY <2>4, HeardFacts
    <3>2. t = packet.viewer /\ ~Busy' /\ AtWork(t, packet.seq) /\ packet.seq \in 0..Last
      BY <2>1, <2>4, <3>1, OwnTarget
    <3>3. ASSUME v = t PROVE packet.seq < n
      <4>1. packet.seq < Base(v) /\ \A m \in 0..packet.seq : ~Queued(v, m)
        BY <3>2, <3>3 DEF QueueInOrder
      <4>2. n = Base(v) \/ Queued(v, n)
        <5>1. Visit
          BY <2>4 DEF Visit
        <5>2. QED
          BY <3>2, <5>1, VisitFacts DEF Pending, AtWork
      <4>3. QED
        BY <1>n, <3>2, <4>1, <4>2
    <3>4. QED
      BY <2>2, <3>1, <3>3 DEF PumpDoes
  <2>5. QED
    BY <2>3, <2>4
<1>3. QED
  BY <1>1, <1>2

\* A packet that a pump writes follows the last one it has seen, and is its own.
LEMMA WrittenNext ==
    ASSUME TypeOK, QueueInOrder, TaskInOrder, ChatIsOwn, LastIsPast, Undisturbed, DeliverHeard,
           TunnelsInOrder, NEW v \in Viewer
    PROVE  \/ shut'[v] /\ given'[v] = given[v]
           \/ given'[v] = given[v] /\ shut'[v] = shut[v]
                /\ (last'[v] = last[v] \/ given[v] = <<>>)
           \/ /\ given'[v] = Append(given[v], packet) /\ packet \in Packet
              /\ packet.viewer = v /\ last'[v] = packet.seq /\ ~shut[v]
              /\ last[v] # NoSequence => packet.seq = last[v] + 1
<1>1. PICK t \in Viewer :
        /\ t = Target(packet.viewer) /\ PumpDoes(t, packet)
        /\ v # t => last'[v] = last[v] /\ shut'[v] = shut[v] /\ given'[v] = given[v]
  BY HeardFacts
<1>2. t = packet.viewer /\ AtWork(t, packet.seq) /\ packet.seq \in 0..Last /\ Busy
  BY <1>1, OwnTarget
<1>3. CASE v # t
  BY <1>1, <1>3
<1>4. CASE v = t
  <2>1. last[v] < packet.seq
    <3>1. Pending(v, packet.seq) /\ packet.seq \in 0..(Last + 1)
      BY <1>2, <1>4, Numbers DEF Pending
    <3>2. QED
      BY <3>1 DEF LastIsPast
  <2>2. packet.seq = 0 => given[v] = <<>>
    <3>1. last[v] \in Int /\ last[v] >= -1
      BY Numbers
    <3>2. packet.seq = 0 => last[v] = NoSequence
      BY <2>1, <3>1 DEF NoSequence
    <3>3. QED
      BY <3>2 DEF TunnelsInOrder, TunnelInOrder
  <2>3. /\ Accepts(last[v], packet.seq) /\ packet.seq \in 1..(Last - 1)
           => (last[v] # NoSequence => packet.seq = last[v] + 1)
    BY DEF Accepts
  <2>4. packet \in Packet
    BY <1>2, TaskTypes
  <2>5. QED
    BY <1>1, <1>2, <1>4, <2>2, <2>3, <2>4 DEF PumpDoes
<1>5. QED
  BY <1>3, <1>4

\* A tunnel's socket is given its viewer's packets one after the other.
LEMMA GivenStep ==
    TypeOK /\ QueueInOrder /\ SessionInOrder /\ TunnelsInOrder /\ TaskInOrder
      /\ ChatIsOwn /\ LastIsPast /\ LastIsGiven /\ OwnStream /\ Next
      => LastIsGiven' /\ OwnStream'
<1> DEFINE Good(v) ==
             /\ given[v] # <<>> /\ ~shut[v] => last[v] = given[v][Len(given[v])].seq
             /\ \A i \in 1..Len(given[v]) : given[v][i].viewer = v
             /\ \A i \in 1..(Len(given[v]) - 1) : given[v][i + 1].seq = given[v][i].seq + 1
<1>g. LastIsGiven /\ OwnStream <=> (Undisturbed => \A v \in Viewer : Good(v))
  BY DEF LastIsGiven, OwnStream, Undisturbed
<1>h. (Undisturbed' => \A v \in Viewer : Good(v)') => LastIsGiven' /\ OwnStream'
  BY DEF LastIsGiven, OwnStream, Undisturbed
<1> HIDE DEF Good
<1> SUFFICES ASSUME TypeOK, QueueInOrder, SessionInOrder, TunnelsInOrder, TaskInOrder,
                    ChatIsOwn, LastIsPast, LastIsGiven, OwnStream, Next, Undisturbed',
                    NEW v \in Viewer
             PROVE  Good(v)'
  BY <1>h
<1>2. CASE Fresh'
  <2>1. given'[v] = <<>> /\ Len(<<>>) = 0 /\ 1..0 = {} /\ 1..(0 - 1) = {}
    BY <1>2 DEF Fresh
  <2>2. QED
    BY <2>1 DEF Good
<1>3. CASE ~Fresh'
  <2>1. Undisturbed /\ ~GiveUp
    BY <1>3, UndisturbedBefore, GiveUpFacts
  <2>2. Good(v)
    BY <1>g, <2>1
  <2>3. ASSUME given'[v] = given[v], shut[v] => shut'[v],
               last'[v] = last[v] \/ given[v] = <<>>
        PROVE  Good(v)'
    BY <2>2, <2>3 DEF Good
  <2>4. CASE ~DeliverHeard
    BY <2>1, <2>3, <2>4, PumpsKept
  <2>5. CASE DeliverHeard
    <3>1. given[v] \in Seq(Packet)
      BY DEF TypeOK
    <3>2. CASE shut'[v] /\ given'[v] = given[v]
      BY <2>2, <3>2 DEF Good
    <3>3. CASE /\ given'[v] = Append(given[v], packet) /\ packet \in Packet
               /\ packet.viewer = v /\ last'[v] = packet.seq /\ ~shut[v]
               /\ last[v] # NoSequence => packet.seq = last[v] + 1
      <4>1. /\ Len(given[v]) \in Nat /\ Len(given'[v]) = Len(given[v]) + 1
            /\ \A i \in 1..Len(given[v]) : given'[v][i] = given[v][i]
            /\ given'[v][Len(given[v]) + 1] = packet
        BY <3>1, <3>3, AppendFacts
      <4>2. last'[v] = given'[v][Len(given'[v])].seq
        BY <3>3, <4>1
      <4>3. \A i \in 1..Len(given'[v]) : given'[v][i].viewer = v
        BY <2>2, <3>3, <4>1 DEF Good
      <4>4. ASSUME NEW i \in 1..(Len(given'[v]) - 1)
            PROVE  given'[v][i + 1].seq = given'[v][i].seq + 1
        <5>1. i \in 1..Len(given[v]) /\ given'[v][i] = given[v][i]
          BY <4>1
        <5>2. CASE i = Len(given[v])
          <6>1. given[v] # <<>>
            BY <5>1, <5>2
          <6>2. last[v] = given[v][i].seq /\ last[v] # NoSequence
            BY <2>2, <3>3, <5>2, <6>1 DEF Good, TunnelsInOrder, TunnelInOrder
          <6>3. QED
            BY <3>3, <4>1, <5>1, <5>2, <6>2
        <5>3. CASE i # Len(given[v])
          <6>1. i \in 1..(Len(given[v]) - 1) /\ i + 1 \in 1..Len(given[v])
            BY <4>1, <5>1, <5>3
          <6>2. QED
            BY <2>2, <4>1, <5>1, <6>1 DEF Good
        <5>4. QED
          BY <5>2, <5>3
      <4>5. QED
        BY <4>2, <4>3, <4>4 DEF Good
    <3>4. QED
      BY <2>1, <2>3, <2>5, <3>2, <3>3, WrittenNext
  <2>6. QED
    BY <2>4, <2>5
<1>4. QED
  BY <1>2, <1>3

-----------------------------------------------------------------------------
(* Sessions in which nothing fails *)

\* The faults that a session without failures does not meet.
LEMMA FaultFreeFacts ==
    ASSUME Next, FaultFree'
    PROVE  /\ FaultFree
           /\ "gap" \notin Faults /\ "unreachable" \notin Faults
           /\ "refuse" \notin Faults /\ "reset" \notin Faults
    BY SameSetup DEF FaultFree

\* Smack's order is that of the session before the step, unless it is fresh.
LEMMA OrderBefore ==
    ASSUME TypeOK, SessionInOrder, Next, ~Fresh'
    PROVE  /\ order' = order /\ ~GiveUp
           /\ link' = "up" => link = "up"
           /\ phase \in {"listen", "watch", "poll"}
<1>1. ~GiveUp /\ phase \in {"listen", "watch", "poll"}
  BY FreshStep, GiveUpFacts DEF TypeOK
<1>2. ~Connect /\ ~StartOver /\ ~ConnectFails /\ ~Login
  BY <1>1 DEF Connect, StartOver, ConnectFails, Login
<1>3. ASSUME NEW w \in Viewer, Send(w) \/ Arrive(w) \/ Lose(w) \/ RegisterPump(w)
                                 \/ TunnelEnds(w) \/ CollectChat(w)
      PROVE  UNCHANGED <<order, link>>
  BY <1>3 DEF Send, Arrive, Lose, RegisterPump, TunnelEnds, CollectChat, loopVars
<1>4. ASSUME Take \/ SetUp PROVE UNCHANGED <<order, link>>
  BY <1>4 DEF Take, SetUp, Listen, Watch, SetUpFails, loopVars
<1>5. Visit => UNCHANGED <<order, link>>
  BY VisitLoop
<1>6. ConnectionLost => UNCHANGED order /\ link' = "down"
  BY DEF ConnectionLost
<1>7. UNCHANGED <<order, link>> \/ (UNCHANGED order /\ link' = "down")
  BY <1>1, <1>2, <1>3, <1>4, <1>5, <1>6 DEF Next, Step, Callback, Visit
<1>8. QED
  BY <1>1, <1>7

\* In the first order every chat is a tunnel's.
LEMMA TunnelChatsStep ==
    TypeOK /\ WireInOrder /\ QueueInOrder /\ SessionInOrder /\ TunnelsInOrder /\ TaskInOrder
      /\ TunnelsHaveChats /\ Next => TunnelsHaveChats'
<1> SUFFICES ASSUME TypeOK, WireInOrder, QueueInOrder, SessionInOrder, TunnelsInOrder,
                    TaskInOrder, TunnelsHaveChats, Next, FaultFree', order' = PacketFirst
             PROVE  /\ \A v \in Viewer : chat'[v] \in {"none", "tunnel"}
                    /\ Busy' /\ Todo' = <<"chat">> => chat'[packet'.viewer] = "tunnel"
  BY DEF TunnelsHaveChats
<1>1. CASE Fresh'
  BY <1>1 DEF Fresh
<1>2. CASE ~Fresh'
  <2>1. order = PacketFirst /\ ~GiveUp /\ FaultFree /\ "refuse" \notin Faults
    BY <1>2, OrderBefore, FaultFreeFacts
  <2>2. /\ \A v \in Viewer : chat[v] \in {"none", "tunnel"}
        /\ Busy /\ Todo = <<"chat">> => chat[packet.viewer] = "tunnel"
    BY <2>1 DEF TunnelsHaveChats
  <2>3. ASSUME NEW w \in Viewer, CollectChat(w) PROVE FALSE
    BY <2>2, <2>3 DEF CollectChat
  <2>4. CASE ~Visit
    <3>1. UNCHANGED chat
      BY <2>1, <2>3, <2>4, ChatsKept
    <3>2. CASE Take
      <4>1. Busy' => Registered # <<>> /\ Todo' = Registered
        BY <3>2, TakeFacts
      <4>2. order \in {PacketFirst, ChatFirst} /\ (manager => listener)
        BY SetupTypes DEF TypeOK, SessionInOrder
      <4>3. ~(Busy' /\ Todo' = <<"chat">>)
        BY <4>1, <4>2, Visits DEF Registered, TypeOK
      <4>4. QED
        BY <2>2, <3>1, <4>3
    <3>3. CASE ~Take
      <4>1. UNCHANGED task
        BY <2>1, <2>4, <3>3, Movers, SendFacts, LoseFacts, ArriveFacts, QuietMessages
      <4>2. QED
        BY <2>2, <3>1, <4>1 DEF Busy, packet, Todo
    <3>4. QED
      BY <3>2, <3>3
  <2>5. CASE Visit
    <3>1. Busy /\ packet.viewer \in Viewer /\ (Busy' => packet' = packet)
      BY <2>5, VisitFacts, TaskTypes
    <3>2. CASE DeliverHeard
      <4>1. Todo = <<"chat">> /\ ~Busy'
        BY <2>1, <2>5, <3>2, VisitOrder, Visits
      <4>2. UNCHANGED chat
        BY <3>2 DEF DeliverHeard, chatVars
      <4>3. QED
        BY <2>2, <4>1, <4>2
    <3>3. CASE DeliverUnheard
      <4>1. Todo = <<"chat">> /\ ~Busy'
        BY <2>1, <2>5, <3>3, VisitOrder, Visits
      <4>2. Target(packet.viewer) # nobody
        BY <2>2, <3>1, <4>1, ViewerAssumption DEF Target
      <4>3. \A v \in Viewer : chat'[v] = chat[v]
        BY <3>3, <4>2 DEF DeliverUnheard, TypeOK
      <4>4. QED
        BY <2>2, <4>1, <4>3
    <3>4. CASE TunnelAlive \/ NewTunnel
      <4>1. chat'[packet.viewer] = "tunnel"
        BY <3>1, <3>4 DEF TunnelAlive, NewTunnel, TunnelsInOrder, TunnelInOrder, chatVars, TypeOK
      <4>2. \A v \in Viewer : v # packet.viewer => chat'[v] = chat[v]
        BY <3>4 DEF TunnelAlive, NewTunnel, chatVars, TypeOK
      <4>3. QED
        BY <2>2, <3>1, <4>1, <4>2
    <3>5. CASE TunnelFails
      <4>1. UNCHANGED chat
        BY <3>5 DEF TunnelFails, chatVars
      <4>2. ASSUME Busy', ~NewTunnel PROVE chat[packet.viewer] = "tunnel"
        <5>1. manager
          BY <2>5, <3>5, <4>2, VisitOrder DEF PacketListener
        <5>2. chat[packet.viewer] # "none"
          BY <3>5, <5>1 DEF TunnelFails, CanCreate
        <5>3. QED
          BY <2>2, <3>1, <5>2
      <4>3. QED
        BY <2>2, <3>1, <3>4, <4>1, <4>2
    <3>6. ~RefuseTunnel
      BY <2>1 DEF RefuseTunnel
    <3>7. QED
      BY <2>5, <3>2, <3>3, <3>4, <3>5, <3>6 DEF Visit, PacketListener
  <2>6. QED
    BY <2>4, <2>5
<1>3. QED
  BY <1>1, <1>2

\* In the other order one is made when a message has been missed.
LEMMA LateStep ==
    TypeOK /\ WireInOrder /\ QueueInOrder /\ SessionInOrder /\ TunnelsInOrder /\ TaskInOrder
      /\ ChatsAreLate /\ Next => ChatsAreLate'
<1> SUFFICES ASSUME TypeOK, WireInOrder, QueueInOrder, SessionInOrder, TunnelsInOrder,
                    TaskInOrder, ChatsAreLate, Next, FaultFree', order' = ChatFirst,
                    NEW v \in Viewer, chat'[v] # "none"
             PROVE  missed'[v]
  BY DEF ChatsAreLate
<1>1. order = ChatFirst /\ ~GiveUp /\ FaultFree /\ "refuse" \notin Faults
  <2>1. ~Fresh'
    BY DEF Fresh
  <2>2. QED
    BY <2>1, OrderBefore, FaultFreeFacts
<1>2. CASE chat[v] # "none"
  BY <1>1, <1>2, Remembered DEF ChatsAreLate
<1>3. CASE chat[v] = "none"
  <2>1. Visit
    <3>1. ASSUME NEW w \in Viewer, CollectChat(w) PROVE FALSE
      BY <1>3, <3>1 DEF CollectChat, TypeOK
    <3>2. QED
      BY <1>1, <1>3, <3>1, ChatsKept
  <2>2. Busy /\ packet.viewer \in Viewer
    BY <2>1, VisitFacts, TaskTypes
  <2>3. CASE DeliverUnheard
    BY <1>3, <2>3 DEF DeliverUnheard, Miss, TypeOK
  <2>4. CASE NewTunnel
    <3>1. v = packet.viewer /\ threads[v] = "none"
      BY <1>3, <2>4 DEF NewTunnel, TypeOK
    <3>2. Todo = <<"packet">> /\ ~Busy'
      BY <1>1, <2>1, <2>4, VisitOrder, Visits DEF PacketListener
    <3>3. last[v] = NoSequence
      BY <3>1 DEF TunnelsInOrder, TunnelInOrder
    <3>4. missed'[v] \/ last'[v] # NoSequence
      BY <2>1, <3>1, <3>2, DoneWith
    <3>5. UNCHANGED last
      BY <2>4 DEF NewTunnel, pumpVars
    <3>6. QED
      BY <3>3, <3>4, <3>5
  <2>5. ~RefuseTunnel
    BY <1>1 DEF RefuseTunnel
  <2>6. TunnelAlive \/ TunnelFails \/ DeliverHeard => UNCHANGED chat
    BY DEF TunnelAlive, TunnelFails, DeliverHeard, chatVars
  <2>7. QED
    BY <1>3, <2>1, <2>3, <2>4, <2>5, <2>6 DEF Visit, PacketListener
<1>4. QED
  BY <1>2, <1>3

\* Errors come with a packet taken to another chat, or with the connection.
LEMMA ErrorsStep ==
    TypeOK /\ QueueInOrder /\ SessionInOrder /\ TunnelsInOrder /\ TaskInOrder
      /\ TunnelsHaveChats /\ NothingLost /\ ChatsAreLate /\ LastIsPast /\ ErrorsAreLosses /\ Next
      => ErrorsAreLosses'
<1> SUFFICES ASSUME TypeOK, QueueInOrder, SessionInOrder, TunnelsInOrder, TaskInOrder,
                    TunnelsHaveChats, NothingLost, ChatsAreLate, LastIsPast, ErrorsAreLosses,
                    Next, FaultFree', errors', link' = "up"
             PROVE  order' = ChatFirst /\ \E v \in Viewer : missed'[v]
  BY DEF ErrorsAreLosses
<1>1. FaultFree /\ "refuse" \notin Faults /\ "unreachable" \notin Faults
  BY FaultFreeFacts
<1>2. ~GiveUp /\ ~ConnectionLost /\ ~ConnectFails /\ ~StartOver /\ ~RefuseTunnel
  BY <1>1 DEF GiveUp, ConnectionLost, ConnectFails, StartOver, RefuseTunnel
<1>3. ~Connect /\ ~SetUpFails
  BY <1>1 DEF Connect, SetUpFails, SessionInOrder
<1>4. UNCHANGED <<order, link>> /\ (UNCHANGED errors \/ TunnelFails)
  <2>1. ASSUME NEW w \in Viewer, Send(w) \/ Arrive(w) \/ Lose(w) \/ RegisterPump(w)
                                   \/ TunnelEnds(w) \/ CollectChat(w)
        PROVE  UNCHANGED <<order, link, errors>>
    BY <2>1 DEF Send, Arrive, Lose, RegisterPump, TunnelEnds, CollectChat, loopVars
  <2>2. ASSUME Take \/ TunnelAlive \/ NewTunnel \/ DeliverHeard \/ DeliverUnheard
        PROVE  UNCHANGED <<order, link, errors>>
    BY <2>2 DEF Take, TunnelAlive, NewTunnel, DeliverHeard, DeliverUnheard, loopVars
  <2>3. ASSUME Login \/ Listen \/ Watch PROVE UNCHANGED <<order, link, errors>>
    BY <2>3 DEF Login, Listen, Watch
  <2>4. TunnelFails => UNCHANGED <<order, link>>
    BY DEF TunnelFails
  <2>5. QED
    BY <1>2, <1>3, <2>1, <2>2, <2>3, <2>4 DEF Next, Step, Callback, PacketListener, SetUp
<1>5. CASE errors
  BY <1>1, <1>4, <1>5, Remembered DEF ErrorsAreLosses
<1>6. CASE ~errors
  <2> DEFINE v == packet.viewer
  <2>1. TunnelFails
    BY <1>4, <1>6
  <2>2. /\ Busy /\ v \in Viewer /\ AtWork(v, packet.seq) /\ packet.seq \in 0..Last
        /\ chat[v] # "none" /\ threads[v] # "alive"
    BY <1>4, <2>1, TaskTypes, PacketFacts DEF TunnelFails, Visiting, Busy, CanCreate
  <2>3. CASE order = PacketFirst
    <3>1. threads[v] = "dead"
      BY <1>1, <2>2, <2>3 DEF TunnelsHaveChats, TunnelsInOrder, TunnelInOrder, TypeOK
    <3>2. last[v] = Last
      BY <1>1, <1>4, <2>2, <2>3, <3>1 DEF NothingLost, TunnelsInOrder, TunnelInOrder
    <3>3. last[v] < packet.seq
      BY <1>6, <2>2, <2>3, Numbers DEF LastIsPast, Undisturbed, Pending
    <3>4. QED
      BY <2>2, <3>2, <3>3, Numbers
  <2>4. CASE order = ChatFirst
    BY <1>1, <1>4, <2>2, <2>4, Remembered DEF ChatsAreLate
  <2>5. QED
    BY <2>3, <2>4, SetupTypes DEF TypeOK
<1>7. QED
  BY <1>5, <1>6

\* A pump takes every packet of a session in which nothing is lost.
LEMMA PumpAccepts ==
    ASSUME TypeOK, QueueInOrder, TaskInOrder, ChatIsOwn, LastIsPast, NothingLost, Undisturbed,
           FaultFree, link = "up", DeliverHeard
    PROVE  Accepts(last[packet.viewer], packet.seq)
<1> DEFINE v == packet.viewer
<1>1. v \in Viewer /\ AtWork(v, packet.seq) /\ packet.seq \in 0..Last
  BY OwnTarget
<1>2. last[v] \in Int /\ last[v] >= -1 /\ Last \in Nat /\ Base(v) \in Int
  BY <1>1, Numbers
<1>3. last[v] < packet.seq
  BY <1>1, <1>2 DEF LastIsPast, Pending
<1>4. CASE last[v] # NoSequence
  <2>1. Pending(v, last[v] + 1)
    <3>1. last[v] \in 0..Last
      BY <1>1, <1>2, <1>3, <1>4 DEF NoSequence
    <3>2. QED
      BY <1>1, <3>1 DEF NothingLost, Undisturbed
  <2>2. packet.seq < Base(v) /\ \A m \in 0..packet.seq : ~Queued(v, m)
    BY <1>1 DEF QueueInOrder
  <2>3. last[v] + 1 # Base(v) /\ ~Queued(v, last[v] + 1)
    BY <1>1, <1>2, <1>3, <2>2
  <2>4. AtWork(v, last[v] + 1)
    BY <2>1, <2>3 DEF Pending
  <2>5. packet.seq = last[v] + 1
    BY <2>4 DEF AtWork
  <2>6. QED
    BY <2>5 DEF Accepts
<1>5. QED
  BY <1>4 DEF Accepts

\* Nothing is skipped on the way to a pump while nothing fails.
LEMMA LostStep ==
    TypeOK /\ WireInOrder /\ QueueInOrder /\ SessionInOrder /\ TunnelsInOrder /\ TaskInOrder
      /\ ChatIsOwn /\ LastIsPast /\ TunnelsHaveChats /\ NothingLost /\ ErrorsAreLosses /\ Next
      => NothingLost'
<1> SUFFICES ASSUME TypeOK, WireInOrder, QueueInOrder, SessionInOrder, TunnelsInOrder,
                    TaskInOrder, ChatIsOwn, LastIsPast, TunnelsHaveChats, NothingLost,
                    ErrorsAreLosses, Next, FaultFree', order' = PacketFirst, link' = "up"
             PROVE  /\ \A v \in Viewer, n \in 0..Last :
                         last'[v] = n \/ Queued(v, n)' \/ AtWork(v, n)' => Pending(v, n + 1)'
                    /\ \A v \in Viewer : stop'[v] => last'[v] = Last /\ Last # 0
  BY SameSetup DEF NothingLost
<1>1. CASE Fresh'
  <2>1. queue' = <<>> /\ Len(<<>>) = 0 /\ 1..0 = {} /\ ~Busy'
        /\ \A v \in Viewer : last'[v] = NoSequence /\ ~stop'[v]
    BY <1>1 DEF Fresh
  <2>2. \A v, n : ~Queued(v, n)' /\ ~AtWork(v, n)'
    BY <2>1 DEF Queued, AtWork
  <2>3. QED
    BY <2>1, <2>2 DEF NoSequence
<1>2. CASE ~Fresh'
  <2>1. /\ order = PacketFirst /\ ~GiveUp /\ link = "up" /\ LoggedIn
        /\ FaultFree /\ "gap" \notin Faults /\ "reset" \notin Faults
    BY <1>2, OrderBefore, FaultFreeFacts DEF LoggedIn
  <2>2. Undisturbed
    BY <2>1, Visits DEF ErrorsAreLosses, Undisturbed
  <2>3. \A v \in Viewer : ~Lose(v)
    BY <2>1 DEF Lose
  <2>4. /\ \A v \in Viewer, n \in 0..Last :
             last[v] = n \/ Queued(v, n) \/ AtWork(v, n) => Pending(v, n + 1)
        /\ \A v \in Viewer : stop[v] => last[v] = Last /\ Last # 0
    BY <2>1 DEF NothingLost
  <2>5. ASSUME NEW v \in Viewer, NEW n, Pending(v, n)
        PROVE  \/ Pending(v, n)'
               \/ Take /\ Registered = <<>> /\ queue[1] = [viewer |-> v, seq |-> n]
               \/ Visit /\ AtWork(v, n) /\ ~Busy'
    BY <2>1, <2>3, <2>5, StillPending
  <2>6. ASSUME ~manager, NEW v \in Viewer PROVE last[v] = NoSequence
    BY <2>6 DEF TunnelsInOrder, TunnelInOrder
  <2>7. CASE DeliverHeard
    <3>1. PICK t \in Viewer, k \in 0..Last :
            /\ t = packet.viewer /\ k = packet.seq /\ Target(t) = t
            /\ Busy /\ ~Busy' /\ AtWork(t, k)
      BY <2>2, <2>7, OwnTarget
    <3>2. Accepts(last[t], k)
      BY <2>1, <2>2, <2>7, <3>1, PumpAccepts
    <3>3. /\ PumpDoes(t, packet)
          /\ \A v \in Viewer : v # t => last'[v] = last[v] /\ stop'[v] = stop[v]
      BY <2>7, <3>1, HeardFacts
    <3>4. last[t] < k /\ last[t] \in Int /\ Last \in Nat
      <4>1. Pending(t, k) /\ k \in 0..(Last + 1) /\ last[t] \in Int /\ Last \in Nat
        BY <3>1, Numbers DEF Pending
      <4>2. QED
        BY <2>2, <3>1, <4>1 DEF LastIsPast
    <3>5. ASSUME NEW v \in Viewer, NEW n, Pending(v, n), v # t \/ n # k
          PROVE  Pending(v, n)'
      <4>1. ~Take /\ ~AtWork(v, n)
        BY <3>1, <3>5 DEF Take, Busy, AtWork
      <4>2. QED
        BY <2>5, <3>5, <4>1
    <3>6. last'[t] = k
      BY <3>1, <3>2, <3>3 DEF PumpDoes
    <3>7. ASSUME NEW v \in Viewer, NEW n \in 0..Last, last'[v] = n
          PROVE  Pending(v, n + 1)'
      <4>1. Pending(v, n + 1)
        BY <2>4, <3>1, <3>3, <3>6, <3>7
      <4>2. v # t \/ n + 1 # k
        BY <3>1, <3>6, <3>7
      <4>3. QED
        BY <3>5, <4>1, <4>2
    <3>8. ~stop[t]
      BY <2>4, <3>1, <3>4
    <3>9. stop'[t] => last'[t] = Last /\ Last # 0
      BY <2>1, <3>1, <3>2, <3>3, <3>6, <3>8 DEF PumpDoes, TunnelsInOrder, TunnelInOrder
    <3>10. \A v \in Viewer : stop'[v] => last'[v] = Last /\ Last # 0
      BY <2>4, <3>3, <3>9
    <3>11. ASSUME NEW v \in Viewer, NEW n \in 0..Last, Queued(v, n)' \/ AtWork(v, n)'
           PROVE  Pending(v, n + 1)'
      <4>1. Queued(v, n)
        BY <2>7, <3>1, <3>11, VisitFacts DEF Visit, AtWork
      <4>2. v # t \/ n + 1 # k
        BY <3>1, <4>1 DEF QueueInOrder
      <4>3. Pending(v, n + 1)
        BY <2>4, <4>1
      <4>4. QED
        BY <3>5, <4>2, <4>3
    <3>12. QED
      BY <3>7, <3>10, <3>11
  <2>8. CASE ~DeliverHeard
    <3>1. UNCHANGED <<last, stop>>
      BY <2>1, <2>8, PumpsKept
    <3>2. ASSUME NEW v \in Viewer, NEW n \in 0..Last, last[v] = n PROVE Pending(v, n + 1)'
      <4>1. manager /\ listener /\ listening[v]
        BY <2>6, <3>2 DEF SessionInOrder, TunnelsInOrder, TunnelInOrder, NoSequence
      <4>2. Registered # <<>>
        <5>1. order # <<>>
          BY <2>1, Visits
        <5>2. QED
          BY <4>1, <5>1 DEF Registered
      <4>3. ASSUME Visit, AtWork(v, n + 1), ~Busy' PROVE FALSE
        <5>1. Busy /\ packet.viewer = v
          BY <4>3 DEF AtWork
        <5>2. CASE Todo = <<"chat">>
          <6>1. DeliverUnheard
            BY <2>8, <4>3, <5>2, VisitOrder, Visits DEF Visit
          <6>2. Target(v) = v /\ v # nobody
            BY <2>1, <5>1, <5>2, ViewerAssumption DEF TunnelsHaveChats, Target
          <6>3. QED
            BY <4>1, <5>1, <6>1, <6>2 DEF DeliverUnheard
        <5>3. CASE Todo # <<"chat">>
          <6>1. Todo = <<"packet">>
            BY <4>3, <5>1, <5>3, VisitOrder, TaskTypes
          <6>2. QED
            BY <2>1, <4>1, <5>1, <6>1, Visits DEF TaskInOrder
        <5>4. QED
          BY <5>2, <5>3
      <4>4. QED
        BY <2>4, <2>5, <3>2, <4>2, <4>3
    <3>3. ASSUME NEW v \in Viewer, NEW n \in 0..Last, Queued(v, n)' \/ AtWork(v, n)'
          PROVE  Pending(v, n + 1)'
      <4>1. CASE Queued(v, n) \/ AtWork(v, n)
        <5>1. Pending(v, n + 1) /\ n \in Int
          BY <2>4, <4>1
        <5>2. ASSUME Take, Registered = <<>>, queue[1] = [viewer |-> v, seq |-> n + 1]
              PROVE  FALSE
          <6>1. Queued(v, n)'
            BY <3>3, <5>2, TakeFacts
          <6>2. n + 1 < n
            BY <5>2, <6>1, TakeFacts
          <6>3. QED
            BY <5>1, <6>2
        <5>3. ASSUME Visit, AtWork(v, n + 1), ~Busy' PROVE FALSE
          <6>1. Queued(v, n)
            BY <3>3, <5>3, VisitFacts
          <6>2. n + 1 \in 0..Last
            BY <5>3, PacketFacts
          <6>3. QED
            BY <5>3, <6>1, <6>2 DEF QueueInOrder
        <5>4. QED
          BY <2>5, <5>1, <5>2, <5>3
      <4>2. CASE ~Queued(v, n) /\ ~AtWork(v, n)
        <5>1. PICK w \in Viewer : Arrive(w)
          BY <2>1, <2>3, <3>3, <4>2, Movers, SendFacts, TakeFacts, VisitFacts, QuietMessages
        <5>2. n = Base(v) /\ v = w
          BY ZenonT(40), <3>3, <4>2, <5>1, ArriveFacts
        <5>3. QED
          BY <5>1, <5>2, ArriveFacts DEF Pending
      <4>3. QED
        BY <4>1, <4>2
    <3>4. QED
      BY <2>4, <3>1, <3>2, <3>3
  <2>9. QED
    BY <2>7, <2>8
<1>3. QED
  BY <1>1, <1>2

-----------------------------------------------------------------------------
(* The theorems *)

\* Nothing has happened yet, and nobody has missed anything.
LEMMA IInvInit == Init => IInv
<1> SUFFICES ASSUME Init PROVE IInv
  OBVIOUS
<1>1. TypeOK
  <2>1. order \in Orders /\ setup \in Setups /\ Last \in Nat /\ MaxDrops \in Nat
    BY SetupsAssumption DEF Init, Last, MaxDrops
  <2>2. <<>> \in Seq(Task) /\ Len(<<>>) = 0 /\ <<>> \in Seq(Packet)
    OBVIOUS
  <2>3. task \in Seq(Task) /\ Len(task) <= 1 /\ queue \in Seq(Packet)
    BY <2>2 DEF Init
  <2>4. /\ sent \in [Viewer -> 0..(Last + 1)] /\ wire \in [Viewer -> Seq(Packet)]
        /\ threads \in [Viewer -> {"none", "alive", "dead"}]
        /\ chat \in [Viewer -> {"none", "tunnel", "refusal", "found"}]
        /\ listening \in [Viewer -> BOOLEAN]
        /\ last \in [Viewer -> {NoSequence} \cup 0..Last]
        /\ stop \in [Viewer -> BOOLEAN] /\ shut \in [Viewer -> BOOLEAN]
        /\ given \in [Viewer -> Seq(Packet)] /\ missed \in [Viewer -> BOOLEAN]
    BY <2>1, <2>2 DEF Init
  <2>5. /\ phase = "connect" /\ link = "none" /\ errors = FALSE /\ listener = FALSE
        /\ watcher = FALSE /\ manager = FALSE /\ userChat = nobody /\ drops = 0 /\ served = {}
    BY DEF Init
  <2>6. QED
    <3>1. drops \in 0..MaxDrops /\ served \subseteq Viewer /\ userChat \in Viewer \cup {nobody}
      BY <2>1, <2>5
    <3>2. QED
      BY <2>1, <2>3, <2>4, <2>5, <3>1 DEF TypeOK
<1>2. Fresh /\ ~Busy
  BY DEF Init, Fresh, Busy
<1>3. Len(<<>>) = 0 /\ 1..0 = {} /\ 1..(0 - 1) = {}
  OBVIOUS
<1>4. \A v \in Viewer : Base(v) = 0 /\ wire[v] = <<>> /\ Pending(v, 0)
  BY <1>3 DEF Init, Base, Pending
<1>5. WireInOrder
  BY <1>3, <1>4 DEF WireInOrder
<1>6. \A v, n : ~Queued(v, n) /\ ~AtWork(v, n)
  BY <1>2, <1>3 DEF Fresh, Queued, AtWork
<1>7. QueueInOrder
  BY <1>2, <1>3, <1>6 DEF QueueInOrder, Fresh
<1>8. SessionInOrder
  BY <1>2 DEF SessionInOrder, Init
<1>9. TunnelsInOrder
  BY <1>2, ViewerAssumption DEF TunnelsInOrder, TunnelInOrder, Fresh
<1>10. TaskInOrder /\ ChatIsOwn
  BY <1>2 DEF TaskInOrder, ChatIsOwn
<1>11. FirstAccountedFor /\ TunnelsAccountedFor
  BY <1>2, <1>4 DEF FirstAccountedFor, TunnelsAccountedFor, Fresh
<1>12. NothingSkipped /\ SplitOnlyByRestart
  BY <1>2 DEF NothingSkipped, SplitOnlyByRestart, Fresh
<1>13. LastIsPast
  BY <1>2, <1>6 DEF LastIsPast, Fresh, Pending, NoSequence
<1>14. LastIsGiven /\ OwnStream
  BY <1>2, <1>3 DEF LastIsGiven, OwnStream, Fresh
<1>15. TunnelsHaveChats /\ NothingLost /\ ChatsAreLate
  BY <1>2, <1>6 DEF TunnelsHaveChats, NothingLost, ChatsAreLate, Fresh, NoSequence
<1>16. ErrorsAreLosses
  BY DEF ErrorsAreLosses, Init
<1>17. QED
  BY <1>1, <1>5, <1>7, <1>8, <1>9, <1>10, <1>11, <1>12, <1>13, <1>14, <1>15, <1>16 DEF IInv

\* Every step keeps every part.
LEMMA IInvStep == IInv /\ [Next]_<<vars, setup>> => IInv'
<1> SUFFICES ASSUME IInv, [Next]_<<vars, setup>> PROVE IInv'
  OBVIOUS
<1>1. CASE Next
  <2> USE <1>1 DEF IInv
  <2>1. TypeOK' /\ WireInOrder' /\ QueueInOrder'
    BY TypeStep, WireStep, QueueStep
  <2>2. SessionInOrder' /\ TunnelsInOrder' /\ TaskInOrder'
    BY SessionStep, TunnelsStep, TaskStep
  <2>3. FirstAccountedFor' /\ TunnelsAccountedFor'
    BY FirstStep, TunnelsAccountStep
  <2>4. NothingSkipped' /\ SplitOnlyByRestart'
    BY SkippedStep, SplitStep
  <2>5. ChatIsOwn' /\ LastIsPast' /\ LastIsGiven' /\ OwnStream'
    BY ChatOwnStep, PastStep, GivenStep
  <2>6. TunnelsHaveChats' /\ NothingLost' /\ ChatsAreLate' /\ ErrorsAreLosses'
    BY TunnelChatsStep, LostStep, LateStep, ErrorsStep
  <2>7. QED
    BY <2>1, <2>2, <2>3, <2>4, <2>5, <2>6
<1>2. CASE UNCHANGED <<vars, setup>>
  <2> USE <1>2 DEF IInv, vars
  <2>1. /\ Last' = Last /\ MaxDrops' = MaxDrops /\ Orders' = Orders /\ Faults' = Faults
        /\ Packet' = Packet /\ Task' = Task /\ packet' = packet /\ Todo' = Todo
        /\ Busy' = Busy /\ Fresh' = Fresh /\ Undisturbed' = Undisturbed
        /\ FaultFree' = FaultFree
    BY DEF Last, MaxDrops, Orders, Faults, Packet, Task, packet, Todo, Busy, Fresh,
       Undisturbed, FaultFree
  <2>2. /\ \A v : Base(v)' = Base(v)
        /\ \A v, n : Queued(v, n)' = Queued(v, n)
        /\ \A v, n : AtWork(v, n)' = AtWork(v, n)
        /\ \A v, n : Pending(v, n)' = Pending(v, n)
    BY DEF Base, Queued, AtWork, Pending, Busy, packet
  <2>3. TypeOK'
    BY <2>1 DEF TypeOK
  <2>4. WireInOrder' /\ QueueInOrder'
    BY <2>1, <2>2 DEF WireInOrder, QueueInOrder
  <2>5. SessionInOrder' /\ TunnelsInOrder' /\ TaskInOrder'
    BY <2>1 DEF SessionInOrder, TunnelsInOrder, TunnelInOrder, TaskInOrder
  <2>6. FirstAccountedFor' /\ TunnelsAccountedFor' /\ NothingSkipped' /\ SplitOnlyByRestart'
    BY <2>1, <2>2 DEF FirstAccountedFor, TunnelsAccountedFor, NothingSkipped, SplitOnlyByRestart
  <2>7. ChatIsOwn' /\ LastIsPast' /\ LastIsGiven'
    BY <2>1, <2>2 DEF ChatIsOwn, LastIsPast, LastIsGiven
  <2>8. OwnStream'
    BY <2>1 DEF OwnStream
  <2>9. TunnelsHaveChats' /\ NothingLost' /\ ChatsAreLate' /\ ErrorsAreLosses'
    BY <2>1, <2>2 DEF TunnelsHaveChats, NothingLost, ChatsAreLate, ErrorsAreLosses
  <2>10. QED
    BY <2>3, <2>4, <2>5, <2>6, <2>7, <2>8, <2>9
<1>3. QED
  BY <1>1, <1>2

\* IInv holds in every reachable state, for any viewers, setups, faults and
\* orders of Smack's listeners.
THEOREM ServerInvariant == Spec => []IInv
<1>1. Init => IInv
  BY IInvInit
<1>2. IInv /\ [Next]_<<vars, setup>> => IInv'
  BY IInvStep
<1>3. QED
  BY <1>1, <1>2, PTL DEF Spec

\* The types of the server's state: among them that the callback thread works
\* on one packet at a time.
THEOREM ServerTypes == Spec => []TypeOK
<1>1. IInv => TypeOK
  BY DEF IInv
<1>2. QED
  BY <1>1, ServerInvariant, PTL

\* A tunnel is given its own viewer's messages only, and without gaps, while
\* MyPacketListener is told of a new thread first.
THEOREM OwnStreamHolds == Spec => []OwnStream
<1>1. IInv => OwnStream
  BY DEF IInv
<1>2. QED
  BY <1>1, ServerInvariant, PTL

\* A VNC server is not connected in the middle of a stream of which every
\* message reached a pump of the same session.
THEOREM SplitOnlyByRestartHolds == Spec => []SplitOnlyByRestart
<1>1. IInv => SplitOnlyByRestart
  BY DEF IInv
<1>2. QED
  BY <1>1, ServerInvariant, PTL

\* maintainXMPPConnection gives no session up that has its connection and met
\* no fault, unless a viewer's message went to another's chat.
THEOREM HealthySessionIsKept == Spec => []HealthySessionKept
<1>1. IInv => HealthySessionKept
  BY DEF IInv, ErrorsAreLosses, HealthySessionKept, FaultFree
<1>2. QED
  BY <1>1, ServerInvariant, PTL
=============================================================================
