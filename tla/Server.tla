------------------------------- MODULE Server -------------------------------
(***************************************************************************)
(* The server program of javavnc: the loop that keeps an XMPP session up,  *)
(* and the callback thread that takes each message of a session to the     *)
(* tunnel of its chat thread, for several viewers at once.                 *)
(*                                                                         *)
(* Two packet listeners see every message: MyPacketListener, which makes   *)
(* the tunnels, and ChatManager's own, which Smack registers when          *)
(* getChatManager is first called and which hands messages to chats.       *)
(* Smack visits them in the order of their identity hashes, one order for  *)
(* a whole session and either may come first.                              *)
(*                                                                         *)
(* A tunnel is here only its incoming half, and ends when its pump has     *)
(* been told to stop; the other half is in module Tunnel.  A viewer sends  *)
(* 0 ("_start"), its chunks and Last ("_end"), or stops before.  All       *)
(* viewers log in as the one user the server listens to.  What a session   *)
(* leaves behind, threads and queued packets, works on objects of its own  *)
(* that the next session does not see, and is left out.                    *)
(***************************************************************************)
EXTENDS SequenceNumbers, Sequences

CONSTANTS
    Viewer,      \* the chat threads, one for each run of the client
    Setups       \* what may happen in a behaviour, and its bounds

PacketFirst == <<"packet", "chat">>
ChatFirst == <<"chat", "packet">>

FaultKinds == {"drop", "gap", "unreachable", "refuse", "reset", "gc"}

\* What jidChats holds for the user when it holds no chat.
nobody == "nobody"

ASSUME ViewerAssumption == nobody \notin Viewer
ASSUME SetupsAssumption ==
    \A s \in Setups : /\ s.last \in Nat /\ s.drops \in Nat
                      /\ s.orders \subseteq {PacketFirst, ChatFirst} /\ s.orders # {}
                      /\ s.faults \subseteq FaultKinds

VARIABLE setup   \* the one of this behaviour

Last     == setup.last     \* bound: the number of a viewer's "_end"
MaxDrops == setup.drops    \* bound: times the server's connection is lost
Orders   == setup.orders   \* the orders in which Smack may visit the listeners
Faults   == setup.faults   \* the faults allowed

Packet == [viewer : Viewer, seq : 0..Last]
Task   == [packet : Packet,
           todo : {PacketFirst, ChatFirst, <<"packet">>, <<"chat">>}]

VARIABLES
    phase,      \* where maintainXMPPConnection is
    link,       \* the connection con: none, "up" or "down"
    errors,     \* the list errors has an element
    listener,   \* MyPacketListener is registered
    watcher,    \* MyConnectionListener is registered
    manager,    \* con has a ChatManager
    order,      \* the order in which this session's listeners are visited
    sent,       \* sent[v]: messages v has sent
    wire,       \* wire[v]: those not yet at the server
    queue,      \* packets queued for the callback thread
    task,       \* the packet it works on, and the listeners still to visit
    threads,    \* threads[v]: the tunnel thread in the map threads
    chat,       \* chat[v]: what ChatManager knows of the thread v
    userChat,   \* the thread of the chat jidChats holds for the user
    listening,  \* listening[v]: v's pump has registered its chat listener
    last,       \* last[v]: its lastSequence
    stop,       \* stop[v]: its stop flag
    shut,       \* shut[v]: v's socket takes no more output
    given,      \* given[v]: packets written to v's socket
    drops,      \* times the connection has been lost
    missed,     \* missed[v]: a message of v reached no pump of v (history)
    served      \* threads that had a tunnel in a session that is over (history)

loopVars   == <<phase, link, errors, listener, watcher, order, drops, served>>
wireVars   == <<sent, wire>>
chatVars   == <<manager, chat, userChat>>
pumpVars   == <<listening, last, stop, shut, given>>
vars == <<phase, link, errors, listener, watcher, manager, order, sent, wire,
          queue, task, threads, chat, userChat, listening, last, stop, shut,
          given, drops, missed, served>>

TypeOK ==
    /\ setup \in Setups
    /\ phase \in {"connect", "login", "listen", "watch", "poll", "wait"}
    /\ link \in {"none", "up", "down"}
    /\ errors \in BOOLEAN /\ listener \in BOOLEAN
    /\ watcher \in BOOLEAN /\ manager \in BOOLEAN
    /\ order \in Orders
    /\ sent \in [Viewer -> 0..(Last + 1)]
    /\ wire \in [Viewer -> Seq(Packet)]
    /\ queue \in Seq(Packet)
    /\ task \in Seq(Task) /\ Len(task) <= 1
    /\ threads \in [Viewer -> {"none", "alive", "dead"}]
    /\ chat \in [Viewer -> {"none", "tunnel", "refusal", "found"}]
    /\ userChat \in Viewer \cup {nobody}
    /\ listening \in [Viewer -> BOOLEAN]
    /\ last \in [Viewer -> {NoSequence} \cup 0..Last]
    /\ stop \in [Viewer -> BOOLEAN]
    /\ shut \in [Viewer -> BOOLEAN]
    /\ given \in [Viewer -> Seq(Packet)]
    /\ drops \in 0..MaxDrops
    /\ missed \in [Viewer -> BOOLEAN]
    /\ served \subseteq Viewer

-----------------------------------------------------------------------------
(* A new con, with nothing registered, no chats and an empty threads map.  *)

NoSession ==
    /\ listener' = FALSE /\ watcher' = FALSE /\ manager' = FALSE
    /\ queue' = <<>> /\ task' = <<>>
    /\ threads' = [v \in Viewer |-> "none"]
    /\ chat' = [v \in Viewer |-> "none"]
    /\ userChat' = nobody
    /\ listening' = [v \in Viewer |-> FALSE]
    /\ last' = [v \in Viewer |-> NoSequence]
    /\ stop' = [v \in Viewer |-> FALSE]
    /\ shut' = [v \in Viewer |-> FALSE]
    /\ given' = [v \in Viewer |-> <<>>]

Init ==
    /\ setup \in Setups
    /\ phase = "connect" /\ link = "none" /\ errors = FALSE
    /\ listener = FALSE /\ watcher = FALSE /\ manager = FALSE
    /\ order \in Orders
    /\ sent = [v \in Viewer |-> 0]
    /\ wire = [v \in Viewer |-> <<>>]
    /\ queue = <<>> /\ task = <<>>
    /\ threads = [v \in Viewer |-> "none"]
    /\ chat = [v \in Viewer |-> "none"]
    /\ userChat = nobody
    /\ listening = [v \in Viewer |-> FALSE]
    /\ last = [v \in Viewer |-> NoSequence]
    /\ stop = [v \in Viewer |-> FALSE]
    /\ shut = [v \in Viewer |-> FALSE]
    /\ given = [v \in Viewer |-> <<>>]
    /\ drops = 0
    /\ missed = [v \in Viewer |-> FALSE]
    /\ served = {}

Miss(v) == missed' = [missed EXCEPT ![v] = TRUE]

MissUnless(heard, v) == IF heard THEN UNCHANGED missed ELSE Miss(v)

-----------------------------------------------------------------------------
(* The viewers, and the way to the server. *)

Send(v) ==
    /\ sent[v] <= Last
    /\ sent' = [sent EXCEPT ![v] = @ + 1]
    /\ wire' = [wire EXCEPT ![v] = Append(@, [viewer |-> v, seq |-> sent[v]])]
    /\ UNCHANGED <<loopVars, queue, task, threads, chatVars, pumpVars, missed>>

LoggedIn == link = "up" /\ phase \in {"listen", "watch", "poll"}

\* PacketReader queues what it reads for the callback thread.
Arrive(v) ==
    /\ LoggedIn
    /\ wire[v] # <<>>
    /\ wire' = [wire EXCEPT ![v] = Tail(@)]
    /\ queue' = Append(queue, Head(wire[v]))
    /\ UNCHANGED <<loopVars, sent, task, threads, chatVars, pumpVars, missed>>

\* A message to an offline user is dropped, or else waits for the next login.
\* One that its sender's connection takes down with it leaves a gap.
Lose(v) ==
    /\ ~LoggedIn \/ "gap" \in Faults
    /\ wire[v] # <<>>
    /\ wire' = [wire EXCEPT ![v] = Tail(@)]
    /\ Miss(v)
    /\ UNCHANGED <<loopVars, sent, queue, task, threads, chatVars, pumpVars>>

-----------------------------------------------------------------------------
(* The callback thread: one packet at a time, one listener at a time. *)

\* The listeners registered, in the order Smack visits them.
Registered ==
    CASE listener /\ manager   -> order
      [] listener /\ ~manager  -> <<"packet">>
      [] ~listener /\ manager  -> <<"chat">>
      [] ~listener /\ ~manager -> <<>>

\* Mutant of Take: the packet before it is still at work.
TakeMore ==
    /\ queue # <<>>
    /\ IF Registered = <<>>
       THEN Miss(Head(queue).viewer) /\ UNCHANGED task
       ELSE /\ task' = Append(task, [packet |-> Head(queue), todo |-> Registered])
            /\ UNCHANGED missed
    /\ queue' = Tail(queue)
    /\ UNCHANGED <<loopVars, wireVars, threads, chatVars, pumpVars>>

Take ==
    /\ task = <<>> /\ queue # <<>>
    /\ IF Registered = <<>>
       THEN Miss(Head(queue).viewer) /\ UNCHANGED task
       ELSE /\ task' = <<[packet |-> Head(queue), todo |-> Registered]>>
            /\ UNCHANGED missed
    /\ queue' = Tail(queue)
    /\ UNCHANGED <<loopVars, wireVars, threads, chatVars, pumpVars>>

Visiting(l) == task # <<>> /\ Head(task[1].todo) = l

packet == task[1].packet

\* The task once the listener at its head has returned.
Rest(todo) == IF todo = <<>> THEN <<>> ELSE <<[packet |-> packet, todo |-> todo]>>

Visited == task' = Rest(Tail(task[1].todo))

(* MyPacketListener.processPacket. *)

TunnelAlive ==
    /\ Visiting("packet")
    /\ threads[packet.viewer] = "alive"
    /\ Visited
    /\ UNCHANGED <<loopVars, wireVars, queue, threads, chatVars, pumpVars, missed>>

\* createChat makes a ChatManager first, which cannot register its listener
\* with a connection that is down.
CanCreate == manager \/ link = "up"

\* A thread without a tunnel or a chat: connect, create both.  A ChatManager
\* made in the middle of this packet's round may come too late to see it.
NewTunnel ==
    /\ Visiting("packet")
    /\ LET v == packet.viewer
           rest == Tail(task[1].todo)
       IN /\ threads[v] = "none" /\ chat[v] = "none"
          /\ CanCreate
          /\ threads' = [threads EXCEPT ![v] = "alive"]
          /\ chat' = [chat EXCEPT ![v] = "tunnel"]
          /\ userChat' = v
          /\ \/ /\ task' = Rest(rest)
                /\ MissUnless(rest # <<>>, v)
             \/ /\ ~manager /\ order = PacketFirst
                /\ task' = Rest(<<"chat">>)
                /\ UNCHANGED missed
    /\ manager' = TRUE
    /\ UNCHANGED <<loopVars, wireVars, queue, pumpVars>>

\* The same, and the VNC server cannot be reached: the chat is created to
\* send "0:_end" on, which fails when the connection is down.
RefuseTunnel ==
    /\ "refuse" \in Faults
    /\ Visiting("packet")
    /\ LET v == packet.viewer IN
          /\ threads[v] = "none" /\ chat[v] = "none"
          /\ CanCreate
          /\ chat' = [chat EXCEPT ![v] = "refusal"]
          /\ userChat' = v
          /\ MissUnless(manager, v)
    /\ manager' = TRUE
    /\ Visited
    /\ errors' = (errors \/ link # "up")
    /\ UNCHANGED <<phase, link, listener, watcher, order, drops, served,
                   wireVars, queue, threads, pumpVars>>

\* Mutant of TunnelFails: a thread that is alive is not recognised.
TunnelFailsAlways ==
    /\ Visiting("packet")
    /\ chat[packet.viewer] # "none" \/ ~CanCreate
    /\ MissUnless(manager, packet.viewer)
    /\ Visited
    /\ errors' = TRUE
    /\ UNCHANGED <<phase, link, listener, watcher, order, drops, served,
                   wireVars, queue, threads, chatVars, pumpVars>>

\* createChat throws, and again in the catch clause: the tunnel of this
\* thread has ended, or was refused, or ChatManager has found the thread a
\* chat by itself; or there can be no ChatManager.
TunnelFails ==
    /\ Visiting("packet")
    /\ threads[packet.viewer] # "alive"
    /\ chat[packet.viewer] # "none" \/ ~CanCreate
    /\ MissUnless(manager, packet.viewer)
    /\ Visited
    /\ errors' = TRUE
    /\ UNCHANGED <<phase, link, listener, watcher, order, drops, served,
                   wireVars, queue, threads, chatVars, pumpVars>>

(* ChatManager's listener, and MyMessageListener behind it. *)

\* Mutant of ProcessMessage: a write that fails is let pass.
ProcessMessageWithoutStop(v, p) ==
    /\ last' = [last EXCEPT ![v] = CheckSequence(@, p.seq)]
    /\ stop' = [stop EXCEPT ![v] =
                   @ \/ ~Accepts(last[v], p.seq) \/ (p.seq = Last /\ p.seq # 0)]
    /\ given' \in {given, IF Accepts(last[v], p.seq) /\ p.seq \in 1..(Last - 1)
                          THEN [given EXCEPT ![v] = Append(@, p)] ELSE given}
    /\ UNCHANGED shut

\* What v's pump does with p.
ProcessMessage(v, p) ==
    /\ last' = [last EXCEPT ![v] = CheckSequence(@, p.seq)]
    /\ \/ /\ ~Accepts(last[v], p.seq)
          /\ stop' = [stop EXCEPT ![v] = TRUE]
          /\ UNCHANGED <<shut, given>>
       \/ /\ Accepts(last[v], p.seq) /\ p.seq = 0
          /\ UNCHANGED <<stop, shut, given>>
       \/ /\ Accepts(last[v], p.seq) /\ p.seq = Last /\ p.seq # 0
          /\ stop' = [stop EXCEPT ![v] = TRUE]
          /\ shut' = [shut EXCEPT ![v] = TRUE]
          /\ UNCHANGED given
       \/ /\ Accepts(last[v], p.seq) /\ p.seq \in 1..(Last - 1) /\ ~shut[v]
          /\ given' = [given EXCEPT ![v] = Append(@, p)]
          /\ UNCHANGED <<stop, shut>>
       \/ /\ Accepts(last[v], p.seq) /\ p.seq \in 1..(Last - 1)
          /\ shut[v] \/ "reset" \in Faults
          /\ stop' = [stop EXCEPT ![v] = TRUE]
          /\ shut' = [shut EXCEPT ![v] = TRUE]
          /\ UNCHANGED given

\* Mutant of Target: the user's latest chat takes every message.
TargetUser(v) == IF userChat # nobody THEN userChat ELSE v

\* The thread's own chat, else the latest one the server made for the user.
Target(v) == IF chat[v] # "none" THEN v ELSE userChat

\* The chat has a listener, a pump's.
DeliverHeard ==
    /\ Visiting("chat")
    /\ LET v == packet.viewer
           t == Target(v)
       IN /\ t # nobody
          /\ listening[t]
          /\ ProcessMessage(t, packet)
          /\ MissUnless(t = v, v)
    /\ Visited
    /\ UNCHANGED <<loopVars, wireVars, queue, threads, chatVars, listening>>

\* It has none, or is made on the spot: the message is gone.
DeliverUnheard ==
    /\ Visiting("chat")
    /\ LET v == packet.viewer
           t == Target(v)
       IN /\ t = nobody \/ (t # nobody /\ ~listening[t])
          /\ chat' = [chat EXCEPT ![v] = IF t = nobody THEN "found" ELSE @]
          /\ Miss(v)
    /\ Visited
    /\ UNCHANGED <<loopVars, wireVars, queue, threads, manager, userChat, pumpVars>>

\* Nothing but weak references keeps a chat that is not a tunnel's.
CollectChat(v) ==
    /\ "gc" \in Faults
    /\ chat[v] \in {"refusal", "found"}
    /\ chat' = [chat EXCEPT ![v] = "none"]
    /\ userChat' = IF userChat = v THEN nobody ELSE userChat
    /\ UNCHANGED <<loopVars, wireVars, queue, task, threads, manager, pumpVars,
                   missed>>

-----------------------------------------------------------------------------
(* The tunnels' threads. *)

RegisterPump(v) ==
    /\ threads[v] = "alive" /\ ~listening[v]
    /\ listening' = [listening EXCEPT ![v] = TRUE]
    /\ UNCHANGED <<loopVars, wireVars, queue, task, threads, chatVars, last,
                   stop, shut, given, missed>>

\* Both pumps have been joined; the socket is closed.
TunnelEnds(v) ==
    /\ threads[v] = "alive" /\ stop[v]
    /\ threads' = [threads EXCEPT ![v] = "dead"]
    /\ shut' = [shut EXCEPT ![v] = TRUE]
    /\ UNCHANGED <<loopVars, wireVars, queue, task, chatVars, listening, last,
                   stop, given, missed>>

-----------------------------------------------------------------------------
(* maintainXMPPConnection. *)

setUpVars == <<drops, served, wireVars, queue, task, threads, chatVars,
               pumpVars, missed>>

Connect ==
    /\ phase = "connect"
    /\ link' = "up"
    /\ phase' = "login"
    /\ order' \in Orders
    /\ UNCHANGED <<errors, listener, watcher, setUpVars>>

\* con stays null, and the errors are not waited for.
ConnectFails ==
    /\ "unreachable" \in Faults
    /\ phase = "connect"
    /\ errors' = TRUE
    /\ phase' = "wait"
    /\ UNCHANGED <<link, listener, watcher, order, setUpVars>>

Login ==
    /\ phase = "login" /\ link = "up"
    /\ phase' = "listen"
    /\ UNCHANGED <<link, errors, listener, watcher, order, setUpVars>>

Listen ==
    /\ phase = "listen" /\ link = "up"
    /\ listener' = TRUE
    /\ phase' = "watch"
    /\ UNCHANGED <<link, errors, watcher, order, setUpVars>>

Watch ==
    /\ phase = "watch" /\ link = "up"
    /\ watcher' = TRUE
    /\ phase' = "poll"
    /\ UNCHANGED <<link, errors, listener, order, setUpVars>>

\* Mutant of SetUpFails: the exception is logged and forgotten.
SetUpFailsSilently ==
    /\ \/ phase = "login" /\ "unreachable" \in Faults
       \/ phase \in {"login", "listen", "watch"} /\ link = "down"
    /\ phase' = "poll"
    /\ UNCHANGED <<link, errors, listener, watcher, order, setUpVars>>

\* login is refused, or one of the three calls finds con down and throws.
SetUpFails ==
    /\ \/ phase = "login" /\ "unreachable" \in Faults
       \/ phase \in {"login", "listen", "watch"} /\ link = "down"
    /\ errors' = TRUE
    /\ phase' = "poll"
    /\ UNCHANGED <<link, listener, watcher, order, setUpVars>>

\* errors is no longer empty: disconnect drops all that belongs to con.
GiveUp ==
    /\ phase = "poll" /\ errors
    /\ phase' = "wait"
    /\ link' = "none"
    /\ served' = served \cup {v \in Viewer : threads[v] # "none"}
    /\ missed' = [v \in Viewer |->
         \/ missed[v]
         \/ \E i \in 1..Len(queue) : queue[i].viewer = v
         \/ task # <<>> /\ packet.viewer = v]
    /\ NoSession
    /\ UNCHANGED <<errors, order, drops, wireVars>>

\* Three seconds later, with a new errors list.
StartOver ==
    /\ phase = "wait"
    /\ phase' = "connect"
    /\ errors' = FALSE
    /\ UNCHANGED <<link, listener, watcher, order, setUpVars>>

\* MyConnectionListener hears of it, if it has been registered.
ConnectionLost ==
    /\ "drop" \in Faults /\ drops < MaxDrops
    /\ link = "up"
    /\ link' = "down"
    /\ errors' = (errors \/ watcher)
    /\ drops' = drops + 1
    /\ UNCHANGED <<phase, listener, watcher, order, served, wireVars, queue,
                   task, threads, chatVars, pumpVars, missed>>

-----------------------------------------------------------------------------
PacketListener == TunnelAlive \/ NewTunnel \/ RefuseTunnel \/ TunnelFails
Callback == Take \/ PacketListener \/ DeliverHeard \/ DeliverUnheard
SetUp == Listen \/ Watch \/ SetUpFails

Step ==
    \/ \E v \in Viewer : \/ Send(v) \/ Arrive(v) \/ Lose(v)
                         \/ RegisterPump(v) \/ TunnelEnds(v) \/ CollectChat(v)
    \/ Callback
    \/ Connect \/ ConnectFails \/ Login \/ SetUp \/ GiveUp \/ StartOver
    \/ ConnectionLost

Next == Step /\ UNCHANGED setup

Spec == Init /\ [][Next]_<<vars, setup>>

(* The loop runs, and the XMPP service is not unreachable for ever.        *)
Fairness ==
    /\ WF_vars(StartOver) /\ WF_vars(GiveUp) /\ WF_vars(SetUp)
    /\ SF_vars(Connect) /\ SF_vars(Login)

FairSpec == Spec /\ Fairness
-----------------------------------------------------------------------------
(* Safety *)

\* In the order that tells a new thread to MyPacketListener first, a tunnel
\* is given the messages of its own viewer only, and without gaps, whatever
\* was refused, lost or given up before (MyPacketListener.processPacket with
\* Smack's ChatManager).  The exception needs a session already in error: the
\* chat of a refusal is collected between the two listeners' visits.
OwnStream ==
    order = PacketFirst /\ (errors => "gc" \notin Faults) =>
      \A v \in Viewer :
        /\ \A i \in 1..Len(given[v]) : given[v][i].viewer = v
        /\ \A i \in 1..(Len(given[v]) - 1) :
             given[v][i + 1].seq = given[v][i].seq + 1

\* Errors end a session that has neither lost its connection nor met a fault
\* only in the order that shows a new thread to ChatManager first, where a
\* viewer's message was taken to another's chat.
HealthySessionKept ==
    Faults \subseteq {"drop", "gc"} /\ phase = "poll" /\ link = "up" /\ errors
      => order = ChatFirst /\ \E v \in Viewer : missed[v]

\* A VNC server is connected in the middle of a viewer's stream only when a
\* message of the viewer reached no pump, or the session was replaced.
SplitOnlyByRestart ==
    \A v \in Viewer : given[v] # <<>> /\ given[v][1].seq # 1
                        => missed[v] \/ v \in served

(* Liveness *)

\* A lost connection is noticed wherever the loop is when it happens, also
\* between the calls that set it up, and replaced by one that is polled.
DropIsNoticed == link = "down" ~> (phase = "poll" /\ link = "up")

(* The comment in XMPP2TCPMain.maintainXMPPConnection: "Sleep until the     *)
(* XMPP connection has some problem then wake up...".                       *)
WakesOnConnectionProblem ==
    [][phase = "poll" /\ phase' = "wait" => link = "down"]_vars
=============================================================================
