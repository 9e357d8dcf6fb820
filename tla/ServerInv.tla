----------------------------- MODULE ServerInv -----------------------------
(***************************************************************************)
(* An inductive invariant of Server, in parts named for what they say:     *)
(* where a viewer's messages are between the viewer and the pumps, which   *)
(* of them have been seen, and how a packet at work relates to the tunnel  *)
(* it is for.  Module ServerProofs proves it.                              *)
(***************************************************************************)
EXTENDS Server

-----------------------------------------------------------------------------
(* Where the messages are *)

\* The number of v's first message that has not left the wire.
Base(v) == sent[v] - Len(wire[v])

Busy == task # <<>>
Todo == task[1].todo

\* What is on the wire is what v sent last, in the order it was sent.
WireInOrder ==
    \A v \in Viewer :
      /\ Base(v) >= 0
      /\ \A i \in 1..Len(wire[v]) :
           wire[v][i] = [viewer |-> v, seq |-> Base(v) + i - 1]

\* Message n of v is queued for the callback thread, or is what it works on.
Queued(v, n) == \E i \in 1..Len(queue) : queue[i] = [viewer |-> v, seq |-> n]
AtWork(v, n) == Busy /\ packet = [viewer |-> v, seq |-> n]

\* It is one of these, or the next to leave the wire.
Pending(v, n) == n = Base(v) \/ Queued(v, n) \/ AtWork(v, n)

\* Packets are read in the order they were sent, also with gaps between them.
QueueInOrder ==
    /\ \A i, j \in 1..Len(queue) :
         i < j /\ queue[i].viewer = queue[j].viewer => queue[i].seq < queue[j].seq
    /\ \A v \in Viewer, n \in 0..Last :
         /\ Queued(v, n) \/ AtWork(v, n) => n < Base(v)
         /\ AtWork(v, n) => \A m \in 0..n : ~Queued(v, m)

-----------------------------------------------------------------------------
(* The session and its tunnels *)

\* Nothing has happened on con.
Fresh ==
    /\ ~listener /\ ~watcher /\ ~manager
    /\ queue = <<>> /\ ~Busy
    /\ userChat = nobody
    /\ \A v \in Viewer :
         /\ threads[v] = "none" /\ chat[v] = "none"
         /\ ~listening[v] /\ last[v] = NoSequence /\ ~stop[v] /\ ~shut[v]
         /\ given[v] = <<>>

SessionInOrder ==
    /\ phase \in {"connect", "login", "wait"} => Fresh
    /\ phase \in {"connect", "wait"} => link = "none"
    /\ phase \in {"login", "listen", "watch", "poll"} => link # "none"
    /\ phase = "connect" => ~errors
    /\ manager \/ Busy => listener

\* What a thread has and has not implies what it had before.
TunnelInOrder(v) ==
    /\ chat[v] = "tunnel" <=> threads[v] # "none"
    /\ chat[v] # "none" => manager
    /\ userChat = v => chat[v] # "none"
    /\ listening[v] => threads[v] # "none"
    /\ last[v] # NoSequence => listening[v]
    /\ given[v] # <<>> => last[v] # NoSequence
    /\ stop[v] => last[v] # NoSequence
    /\ shut[v] => stop[v]
    /\ threads[v] = "dead" => stop[v]

TunnelsInOrder == \A v \in Viewer : TunnelInOrder(v)

\* How far the callback thread is with its packet.
TaskInOrder ==
    Busy =>
      /\ Todo \in {PacketFirst, ChatFirst} => Todo = order /\ manager
      /\ Todo = <<"chat">> => order = PacketFirst /\ manager
      /\ Todo = <<"packet">> /\ manager =>
           /\ order = ChatFirst
           /\ missed[packet.viewer] \/ last[packet.viewer] # NoSequence

-----------------------------------------------------------------------------
(* Where a stream can be split *)

\* A viewer's first message has been missed, is over with its session, has
\* been seen by a pump, or is still to come.
FirstAccountedFor ==
    \A v \in Viewer :
      missed[v] \/ v \in served \/ last[v] # NoSequence \/ Pending(v, 0)

\* So has the message for which a tunnel was made.
TunnelsAccountedFor ==
    \A v \in Viewer :
      threads[v] # "none" =>
        \/ missed[v]
        \/ last[v] # NoSequence
        \/ Busy /\ packet.viewer = v /\ Todo = <<"chat">>

\* A pump that has written nothing and can has seen "_start" at most.
NothingSkipped ==
    \A v \in Viewer :
      given[v] = <<>> /\ ~shut[v] => last[v] \in {NoSequence, 0}

-----------------------------------------------------------------------------
(* Whose messages a tunnel is given *)

Undisturbed == order = PacketFirst /\ (errors => "gc" \notin Faults)

\* The chat listener finds the tunnel's own chat, or one that has no pump.
ChatIsOwn ==
    Undisturbed /\ Busy /\ Todo = <<"chat">> =>
      LET v == packet.viewer IN
      \/ chat[v] = "tunnel"
      \/ userChat \in {v, nobody}
      \/ "gc" \notin Faults /\ chat[v] # "none"

\* A pump has seen nothing that is still to come.
LastIsPast ==
    Undisturbed =>
      \A v \in Viewer, n \in 0..(Last + 1) : Pending(v, n) => last[v] < n

\* The last packet written is the last one seen, while the socket takes more.
LastIsGiven ==
    Undisturbed =>
      \A v \in Viewer :
        given[v] # <<>> /\ ~shut[v] => last[v] = given[v][Len(given[v])].seq

-----------------------------------------------------------------------------
(* Sessions in which nothing fails *)

FaultFree == Faults \subseteq {"drop", "gc"}

\* What is taken to a chat is taken to the tunnel's.
TunnelsHaveChats ==
    FaultFree /\ order = PacketFirst =>
      /\ \A v \in Viewer : chat[v] \in {"none", "tunnel"}
      /\ Busy /\ Todo = <<"chat">> => chat[packet.viewer] = "tunnel"

\* The message after a packet, or after the last one seen, is still to come,
\* and "_end" alone tells a pump to stop.
NothingLost ==
    FaultFree /\ order = PacketFirst /\ link = "up" =>
      /\ \A v \in Viewer, n \in 0..Last :
           last[v] = n \/ Queued(v, n) \/ AtWork(v, n) => Pending(v, n + 1)
      /\ \A v \in Viewer : stop[v] => last[v] = Last /\ Last # 0

\* In the other order a viewer has a chat only after a message was missed.
ChatsAreLate ==
    FaultFree /\ order = ChatFirst =>
      \A v \in Viewer : chat[v] # "none" => missed[v]

ErrorsAreLosses ==
    FaultFree /\ errors /\ link = "up" =>
      order = ChatFirst /\ \E v \in Viewer : missed[v]

IInv ==
    /\ TypeOK
    /\ WireInOrder /\ QueueInOrder
    /\ SessionInOrder /\ TunnelsInOrder /\ TaskInOrder
    /\ FirstAccountedFor /\ TunnelsAccountedFor
    /\ NothingSkipped /\ SplitOnlyByRestart
    /\ ChatIsOwn /\ LastIsPast /\ LastIsGiven /\ OwnStream
    /\ TunnelsHaveChats /\ NothingLost /\ ChatsAreLate /\ ErrorsAreLosses
=============================================================================
