-------------------------------- MODULE Relaunch --------------------------------
(***************************************************************************)
(* The server of vnc2xmpp (xmpp2tcp/XMPP2TCPMain.java): main connects,    *)
(* logs in and registers a packet listener and a connection listener;     *)
(* when the connection is lost, the latter calls main again.  The table   *)
(* threadIds and the connection are statics, shared by all the launches,  *)
(* and the listener thread of a lost connection may be at work still, in  *)
(* "new Socket" for as long as a minute, when the next launch begins.     *)
(*                                                                         *)
(* Smack 2.2.1 drops what is queued for the listeners of a connection it  *)
(* has lost, and throws when a listener is registered on it.  A message   *)
(* to a server that is not there is dropped.                              *)
(***************************************************************************)
EXTENDS Integers, Sequences

CONSTANTS
    Threads,       \* the XMPP threads of the viewers
    MaxMessages,   \* bound: messages of each of them
    MaxLosses,     \* bound: connections lost
    Throws         \* whether connecting and logging in may throw

ASSUME LossesAssumption == MaxLosses \in Nat

Launches == 1 .. MaxLosses + 1

VARIABLES
    pc,         \* pc[l]: where launch l of main is
    link,       \* link[l]: the connection it made
    con,        \* the static connection: that of launch con, 0 is null
    restart,    \* restart[l]: where connectionClosedOnError of l is
    threadIds,  \* the static table
    queue,      \* queue[l]: messages for the packet listener of l
    packet,     \* packet[l]: the message processPacket was called with
    work,       \* work[l]: the thread id it is opening a tunnel for
    tunnels,    \* the tunnels opened: thread id, and launch of the Chat
    twice,      \* thread ids with two tunnels on one connection (history)
    told,       \* thread ids whose sender was told "0:_end" since the clear
    stray,      \* thread ids handled for a connection no longer up (history)
    sent        \* messages sent of each thread

rvars == <<pc, link, con, restart, threadIds, queue, packet, work, tunnels, twice, told, stray, sent>>
mainVars == <<pc, link, con, restart>>
listenerVars == <<queue, packet, work, tunnels, twice, told, stray, sent>>

Up(l) == link[l] = "up"
Hears(l) == pc[l] \in {"watch", "serving"}

-----------------------------------------------------------------------------
(* main *)

Goes(l, next) == pc' = [pc EXCEPT ![l] = next]

\* The static is assigned null for as long as nothing answers.
NothingAnswers(l) ==
    /\ pc[l] = "dial" /\ con # 0
    /\ con' = 0
    /\ UNCHANGED <<pc, link, restart, threadIds, listenerVars>>

Connects(l) ==
    /\ pc[l] = "dial"
    /\ con' = l /\ link' = [link EXCEPT ![l] = "up"]
    /\ Goes(l, "login")
    /\ UNCHANGED <<restart, threadIds, listenerVars>>

\* The probe of the port succeeded and the connection does not.
ConnectThrows(l) ==
    /\ Throws /\ pc[l] = "dial"
    /\ Goes(l, "ended")
    /\ UNCHANGED <<link, con, restart, threadIds, listenerVars>>

SetUp(l, now, next) ==
    /\ pc[l] = now /\ Up(l)
    /\ Goes(l, next)
    /\ UNCHANGED <<link, con, restart, threadIds, listenerVars>>

Login(l)  == SetUp(l, "login", "listen")
Listen(l) == SetUp(l, "listen", "watch")
Watch(l)  == SetUp(l, "watch", "serving")

\* Nothing catches this in main, and the relaunch catches it in silence.
SetUpThrows(l) ==
    /\ \/ pc[l] \in {"login", "listen", "watch"} /\ ~Up(l)
       \/ pc[l] = "login" /\ Throws
    /\ Goes(l, "ended")
    /\ UNCHANGED <<link, con, restart, threadIds, listenerVars>>

-----------------------------------------------------------------------------
(* The connection listener *)

\* Its listeners are told, if there are any.
Lose(l) ==
    /\ Up(l) /\ l \in 1 .. MaxLosses
    /\ link' = [link EXCEPT ![l] = "down"]
    /\ restart' = [restart EXCEPT ![l] = IF pc[l] = "serving" THEN "told" ELSE @]
    /\ queue' = [queue EXCEPT ![l] = <<>>]
    /\ UNCHANGED <<pc, con, threadIds, packet, work, tunnels, twice, told, stray, sent>>

\* close throws, and the rest is in the same try.
CleanUpGivesUp(l) ==
    /\ restart[l] = "told"
    /\ threadIds' = {} /\ told' = {}
    /\ link' = [link EXCEPT ![l] = "closed"]
    /\ restart' = [restart EXCEPT ![l] = "none"]
    /\ UNCHANGED <<pc, con, queue, packet, work, tunnels, twice, stray, sent>>

\* threadIds.clear() and con.close(): con is that of l, nobody else has been
\* launched yet.
CleanUp(l) ==
    /\ restart[l] = "told"
    /\ threadIds' = {} /\ told' = {}
    /\ link' = [link EXCEPT ![con] = "closed"]
    /\ restart' = [restart EXCEPT ![l] = "asleep"]
    /\ UNCHANGED <<pc, con, queue, packet, work, tunnels, twice, stray, sent>>

LaunchAgain(l) ==
    /\ restart[l] = "asleep"
    /\ restart' = [restart EXCEPT ![l] = "none"]
    /\ Goes(l + 1, "dial")
    /\ UNCHANGED <<link, con, threadIds, listenerVars>>

-----------------------------------------------------------------------------
(* The packet listener *)

Comes(l, t) ==
    /\ Up(l) /\ Hears(l) /\ sent[t] < MaxMessages
    /\ sent' = [sent EXCEPT ![t] = @ + 1]
    /\ queue' = [queue EXCEPT ![l] = Append(@, t)]
    /\ UNCHANGED <<mainVars, threadIds, packet, work, tunnels, twice, told, stray>>

\* processPacket is called; the connection may be lost before its block.
ProcessPacket(l) ==
    /\ queue[l] # <<>> /\ packet[l] = <<>> /\ work[l] = <<>>
    /\ packet' = [packet EXCEPT ![l] = <<Head(queue[l])>>]
    /\ queue' = [queue EXCEPT ![l] = Tail(@)]
    /\ UNCHANGED <<mainVars, threadIds, work, tunnels, twice, told, stray, sent>>

\* The synchronized block: a thread id that is in the table is left alone.
Take(l) ==
    /\ packet[l] # <<>>
    /\ packet' = [packet EXCEPT ![l] = <<>>]
    /\ LET t == Head(packet[l])
       IN IF t \in threadIds THEN UNCHANGED <<threadIds, work>>
          ELSE /\ threadIds' = threadIds \cup {t}
               /\ work' = [work EXCEPT ![l] = <<t>>]
    /\ UNCHANGED <<mainVars, queue, tunnels, twice, told, stray, sent>>

Done(l) ==
    /\ work[l] # <<>>
    /\ work' = [work EXCEPT ![l] = <<>>]
    /\ stray' = IF Up(l) THEN stray ELSE stray \cup {Head(work[l])}
    /\ UNCHANGED <<mainVars, threadIds, queue, packet, sent>>

\* The socket is open; with a null connection the Chat cannot be made, nor
\* the Chat of the refusal: only the stack trace is printed.
OpenTunnel(l) ==
    /\ Done(l)
    /\ LET tunnel == [thread |-> Head(work[l]), on |-> con]
       IN /\ tunnels' = IF con = 0 THEN tunnels ELSE tunnels \cup {tunnel}
          /\ twice' = IF tunnel \in tunnels THEN twice \cup {tunnel.thread} ELSE twice
    /\ UNCHANGED told

\* No socket, and no refusal.
RefuseTunnelSilently(l) == Done(l) /\ UNCHANGED <<told, tunnels, twice>>

\* No socket: "inform the sender", over the connection of the static.
RefuseTunnel(l) ==
    /\ Done(l)
    /\ told' = IF con # 0 /\ Up(con) /\ pc[con] \in {"listen", "watch", "serving"}
               THEN told \cup {Head(work[l])} ELSE told
    /\ UNCHANGED <<tunnels, twice>>

-----------------------------------------------------------------------------
RelaunchInit ==
    /\ pc = [l \in Launches |-> IF l = 1 THEN "dial" ELSE "none"]
    /\ link = [l \in Launches |-> "none"]
    /\ con = 0
    /\ restart = [l \in Launches |-> "none"]
    /\ threadIds = {} /\ tunnels = {} /\ told = {} /\ stray = {} /\ twice = {}
    /\ queue = [l \in Launches |-> <<>>]
    /\ packet = [l \in Launches |-> <<>>]
    /\ work = [l \in Launches |-> <<>>]
    /\ sent = [t \in Threads |-> 0]

Main(l) == Login(l) \/ Listen(l) \/ Watch(l) \/ SetUpThrows(l)
Restart(l) == CleanUp(l) \/ LaunchAgain(l)
Handle(l) == ProcessPacket(l) \/ Take(l) \/ OpenTunnel(l) \/ RefuseTunnel(l)

RelaunchNext ==
    \E l \in Launches :
        \/ NothingAnswers(l) \/ Connects(l) \/ ConnectThrows(l)
        \/ Main(l) \/ Restart(l) \/ Handle(l) \/ Lose(l)
        \/ \E t \in Threads : Comes(l, t)

\* The threads run, and something answers in the end.
RelaunchFairness ==
    \A l \in Launches :
        WF_rvars(Connects(l) \/ ConnectThrows(l)) /\ WF_rvars(Main(l)) /\ WF_rvars(Restart(l))

RelaunchSpec == RelaunchInit /\ [][RelaunchNext]_rvars
RelaunchFairSpec == RelaunchSpec /\ RelaunchFairness

-----------------------------------------------------------------------------
(* Properties *)

(***************************************************************************)
(* A thread id that is in the table, and whose messages are left alone    *)
(* for that, has a tunnel on the present connection, or is about to have  *)
(* one, or its sender was told that there is none; and it has one tunnel  *)
(* on a connection only ("a message of a brand new thread").  Unless, in  *)
(* both, it was handled by the listener of a connection that was lost:    *)
(* still opening its socket when the relaunch clears the table, it puts   *)
(* an id there that nobody serves, or makes its tunnel on the next one.   *)
(***************************************************************************)
ServedOnce ==
    /\ twice \subseteq stray
    /\ \A t \in threadIds :
          \/ \E l \in Launches : work[l] = <<t>>
          \/ [thread |-> t, on |-> con] \in tunnels
          \/ t \in told
          \/ t \in stray

(***************************************************************************)
(* A server that was serving does so again after every loss, unless an    *)
(* exception in the set-up of a launch ended it (connecting or login       *)
(* threw, or the connection was lost meanwhile): nothing tries again then, *)
(* and the property says no more.                                          *)
(***************************************************************************)
Serving == \E l \in Launches : pc[l] = "serving" /\ Up(l)
Ended == \E l \in Launches : pc[l] = "ended"

ServesAgain == []<>(Serving \/ Ended)

===============================================================================
