------------------------------- MODULE Tunnel -------------------------------
(***************************************************************************)
(* One tunnel of javavnc: a TCP connection of the VNC viewer, carried over *)
(* one XMPP chat to the VNC server and back, during one XMPP session of    *)
(* the server side.                                                        *)
(*                                                                         *)
(* Each end e owns a socket to its local application (the viewer at the    *)
(* client, the VNC server at the server) and runs, per tunnel,             *)
(*   - t1, TCP2XMPPPumpThread: socket -> chat;                             *)
(*   - t2, XMPP2TCPPumpThread: registers a chat listener, then polls stop; *)
(*   - the tunnel thread (TCPOverXMPPThread at the client,                 *)
(*     XMPPOverTCPThread at the server): joins both and closes the socket; *)
(* and shares with every other tunnel of its connection Smack's single     *)
(* listener thread, which runs the callbacks.                              *)
(*                                                                         *)
(* What the environment may do:                                            *)
(*   - XMPP keeps the order of the messages of one chat; it loses those    *)
(*     whose receiver is offline, or stores them until it is back, and a   *)
(*     connection that goes down takes with it the last ones sent on it;   *)
(*   - Smack reconnects the client's connection by itself (it has no       *)
(*     connection listener), the server's connection is given up and       *)
(*     replaced by a new session, where this module stops;                 *)
(*   - a local application may close or reset its TCP connection, and      *)
(*     closes it when it has read the end of the stream;                   *)
(*   - the VNC server may refuse a connection.                             *)
(* Faults names the ones a configuration allows.  Back-pressure is left    *)
(* out: sends and writes do not block.                                     *)
(***************************************************************************)
EXTENDS SequenceNumbers, Sequences

CONSTANTS
    MaxChunks,   \* bound: MaxChunks[e] chunks come from the application at e
    MaxDrops,    \* bound: times the client's XMPP connection is lost
    Faults       \* the faults allowed, a subset of FaultKinds

FaultKinds == {"reset", "clientDrop", "serverDrop", "refuse", "gc", "flush"}

End == {"client", "server"}
Peer(e) == IF e = "client" THEN "server" ELSE "client"

ASSUME MaxChunksAssumption == MaxChunks \in [End -> Nat]
ASSUME MaxDropsAssumption == MaxDrops \in Nat
ASSUME FaultsAssumption == Faults \subseteq FaultKinds

VARIABLES
    app,       \* app[e]: the application's side of the TCP connection
    got,       \* got[e]: chunks t1 has read from the socket
    t1,        \* t1[e]: where TCP2XMPPPumpThread is
    sequence,  \* sequence[e]: t1's next sequence number
    t2,        \* t2[e]: where XMPP2TCPPumpThread is
    stop,      \* stop[e]: t2's flag, set by the listener
    last,      \* last[e]: t2's lastSequence
    written,   \* written[e]: chunks os.write has accepted, in order
    outShut,   \* outShut[e]: socket.shutdownOutput() has succeeded
    tun,       \* tun[e]: the tunnel thread
    up,        \* up[e]: the XMPP connection is connected
    chan,      \* chan[e]: messages e has sent, not yet at its peer
    inbox,     \* inbox[e]: packets read, queued for e's callback thread
    cur,       \* the message the server's callback thread is working on
    refused,   \* a Chat made to refuse the tunnel is still in ChatManager
    session,   \* the server's XMPP session: "failed" once errors has an
               \* element, "gone" once maintainXMPPConnection disconnects
    drops,     \* times the client's connection has been lost
    lost       \* lost[e]: a message for e never reached its listener (history)

tcpVars  == <<app, got, written, outShut>>
pumpVars == <<t1, sequence, t2, stop, last, tun>>
xmppVars == <<up, chan, inbox, cur, refused, session, drops, lost>>
vars == <<app, got, t1, sequence, t2, stop, last, written, outShut,
          tun, up, chan, inbox, cur, refused, session, drops, lost>>

TypeOK ==
    /\ app \in [End -> {"open", "closed", "reset"}]
    /\ got \in [End -> Nat]
    /\ t1 \in [End -> {"none", "start", "read", "done", "failed"}]
    /\ sequence \in [End -> Nat]
    /\ t2 \in [End -> {"none", "starting", "polling", "done"}]
    /\ stop \in [End -> BOOLEAN]
    /\ last \in [End -> Nat \cup {NoSequence}]
    /\ written \in [End -> Seq(Nat)]
    /\ outShut \in [End -> BOOLEAN]
    /\ tun \in [End -> {"absent", "running", "closed"}]
    /\ up \in [End -> BOOLEAN]
    /\ chan \in [End -> Seq(Message)]
    /\ inbox \in [End -> Seq(Message)]
    /\ cur \in Seq(Message) /\ Len(cur) <= 1
    /\ refused \in BOOLEAN
    /\ session \in {"ok", "failed", "gone"}
    /\ drops \in Nat
    /\ lost \in [End -> BOOLEAN]

-----------------------------------------------------------------------------
(* The viewer has been accepted and the client has logged in and created   *)
(* its Chat; the server is logged in and has not heard of the chat.        *)

Init ==
    /\ app = [e \in End |-> "open"]
    /\ got = [e \in End |-> 0]
    /\ t1 = [e \in End |-> IF e = "client" THEN "start" ELSE "none"]
    /\ sequence = [e \in End |-> 0]
    /\ t2 = [e \in End |-> IF e = "client" THEN "starting" ELSE "none"]
    /\ stop = [e \in End |-> FALSE]
    /\ last = [e \in End |-> NoSequence]
    /\ written = [e \in End |-> <<>>]
    /\ outShut = [e \in End |-> FALSE]
    /\ tun = [e \in End |-> IF e = "client" THEN "running" ELSE "absent"]
    /\ up = [e \in End |-> TRUE]
    /\ chan = [e \in End |-> <<>>]
    /\ inbox = [e \in End |-> <<>>]
    /\ cur = <<>>
    /\ refused = FALSE
    /\ session = "ok"
    /\ drops = 0
    /\ lost = [e \in End |-> FALSE]

-----------------------------------------------------------------------------
(* The application behind socket e. *)

Connected(e) == tun[e] = "running"

AppClose(e) ==
    /\ Connected(e) /\ app[e] = "open"
    /\ app' = [app EXCEPT ![e] = "closed"]
    /\ UNCHANGED <<got, written, outShut, pumpVars, xmppVars>>

AppReset(e) ==
    /\ "reset" \in Faults
    /\ Connected(e) /\ app[e] # "reset"
    /\ app' = [app EXCEPT ![e] = "reset"]
    /\ UNCHANGED <<got, written, outShut, pumpVars, xmppVars>>

-----------------------------------------------------------------------------
(* t1, TCP2XMPPPumpThread.run: one try around the whole loop, so that any   *)
(* exception ends the thread with nothing more sent.                       *)

\* Mutant of Sends: an exception is swallowed and the pump goes on.
SendsAnyway(e, m, next) ==
    /\ sequence' = [sequence EXCEPT ![e] = @ + 1]
    /\ chan' = IF up[e] THEN [chan EXCEPT ![e] = Append(@, m)] ELSE chan
    /\ t1' = [t1 EXCEPT ![e] = next]

\* chat.sendMessage throws once the connection is down, and sequence has
\* been advanced by then.
Sends(e, m, next) ==
    /\ sequence' = [sequence EXCEPT ![e] = @ + 1]
    /\ chan' = IF up[e] THEN [chan EXCEPT ![e] = Append(@, m)] ELSE chan
    /\ t1' = [t1 EXCEPT ![e] = IF up[e] THEN next ELSE "failed"]

\* Mutant of SendStart: "_start" does not use up a number.
SendStartUnnumbered(e) ==
    /\ t1[e] = "start" /\ up[e]
    /\ chan' = [chan EXCEPT ![e] = Append(@, StartMsg(0))]
    /\ t1' = [t1 EXCEPT ![e] = "read"]
    /\ UNCHANGED <<tcpVars, sequence, t2, stop, last, tun, up, inbox, cur,
                   refused, session, drops, lost>>

SendStart(e) ==
    /\ t1[e] = "start"
    /\ Sends(e, StartMsg(sequence[e]), "read")
    /\ UNCHANGED <<tcpVars, t2, stop, last, tun, up, inbox, cur, refused,
                   session, drops, lost>>

\* What the application writes is what one read returns; an application that
\* has closed may have left some of it to be read.
ReadChunk(e) ==
    /\ t1[e] = "read" /\ app[e] # "reset" /\ got[e] < MaxChunks[e]
    /\ got' = [got EXCEPT ![e] = @ + 1]
    /\ Sends(e, DataMsg(sequence[e], got[e] + 1), "read")
    /\ UNCHANGED <<app, written, outShut, t2, stop, last, tun, up, inbox, cur,
                   refused, session, drops, lost>>

\* Mutant of ReadEof: the loop goes on after "_end".
ReadEofGoesOn(e) ==
    /\ t1[e] = "read" /\ app[e] = "closed"
    /\ Sends(e, EndMsg(sequence[e]), "read")
    /\ UNCHANGED <<tcpVars, t2, stop, last, tun, up, inbox, cur, refused,
                   session, drops, lost>>

\* Mutant of ReadEof: the loop ends without "_end".
ReadEofSilent(e) ==
    /\ t1[e] = "read" /\ app[e] = "closed"
    /\ t1' = [t1 EXCEPT ![e] = "done"]
    /\ UNCHANGED <<tcpVars, sequence, t2, stop, last, tun, xmppVars>>

ReadEof(e) ==
    /\ t1[e] = "read" /\ app[e] = "closed"
    /\ Sends(e, EndMsg(sequence[e]), "done")
    /\ UNCHANGED <<tcpVars, t2, stop, last, tun, up, inbox, cur, refused,
                   session, drops, lost>>

\* Mutant of ReadFails: "_end" is sent in a finally clause.
ReadFailsEnds(e) ==
    /\ t1[e] = "read" /\ app[e] = "reset"
    /\ Sends(e, EndMsg(sequence[e]), "failed")
    /\ UNCHANGED <<tcpVars, t2, stop, last, tun, up, inbox, cur, refused,
                   session, drops, lost>>

\* read throws: the application reset the connection.
ReadFails(e) ==
    /\ t1[e] = "read" /\ app[e] = "reset"
    /\ t1' = [t1 EXCEPT ![e] = "failed"]
    /\ UNCHANGED <<tcpVars, sequence, t2, stop, last, tun, xmppVars>>

-----------------------------------------------------------------------------
(* t2, XMPP2TCPPumpThread.run, and the listener it registers. *)

Registered(e) == t2[e] \in {"polling", "done"}

Register(e) ==
    /\ t2[e] = "starting"
    /\ t2' = [t2 EXCEPT ![e] = "polling"]
    /\ UNCHANGED <<tcpVars, t1, sequence, stop, last, tun, xmppVars>>

PollStop(e) ==
    /\ t2[e] = "polling" /\ stop[e]
    /\ t2' = [t2 EXCEPT ![e] = "done"]
    /\ UNCHANGED <<tcpVars, t1, sequence, stop, last, tun, xmppVars>>

\* Whether the output side of socket e still takes anything.
Writable(e) == tun[e] = "running" /\ ~outShut[e] /\ app[e] # "reset"

\* Writing to an application that has closed succeeds and provokes a reset.
WriteChunk(e, m) ==
    /\ Writable(e)
    /\ written' = [written EXCEPT ![e] = Append(@, m.chunk)]
    /\ app' = [app EXCEPT ![e] = IF @ = "closed" THEN "reset" ELSE @]
    /\ UNCHANGED <<outShut, stop>>

\* Mutant of ShutdownOutput: the pump is not told to stop.
ShutdownOutputOnly(e) ==
    /\ Writable(e)
    /\ outShut' = [outShut EXCEPT ![e] = TRUE]
    /\ UNCHANGED <<stop, written, app>>

ShutdownOutput(e) ==
    /\ Writable(e)
    /\ outShut' = [outShut EXCEPT ![e] = TRUE]
    /\ stop' = [stop EXCEPT ![e] = TRUE]
    /\ UNCHANGED <<written, app>>

\* The catch clause: the pump is told to stop, its output is left open.
StopOnly(e) ==
    /\ stop' = [stop EXCEPT ![e] = TRUE]
    /\ UNCHANGED <<written, outShut, app>>

\* Mutant of ProcessMessage: what the sequence check says is not looked at.
ProcessMessageUnchecked(e, m) ==
    /\ last' = [last EXCEPT ![e] = CheckSequence(@, m.seq)]
    /\ \/ /\ m.kind = "_start"
          /\ UNCHANGED <<written, outShut, app, stop>>
       \/ /\ m.kind = "_end"
          /\ ShutdownOutput(e) \/ (~Writable(e) /\ StopOnly(e))
       \/ /\ m.kind = "data"
          /\ WriteChunk(e, m) \/ (~Writable(e) /\ StopOnly(e))

\* MyMessageListener.processMessage; tun, t1 and the channels are the
\* caller's to frame.
ProcessMessage(e, m) ==
    /\ last' = [last EXCEPT ![e] = CheckSequence(@, m.seq)]
    /\ \/ ~Accepts(last[e], m.seq) /\ StopOnly(e)
       \/ /\ Accepts(last[e], m.seq) /\ m.kind = "_start"
          /\ UNCHANGED <<written, outShut, app, stop>>
       \/ /\ Accepts(last[e], m.seq) /\ m.kind = "_end"
          /\ ShutdownOutput(e) \/ (~Writable(e) /\ StopOnly(e))
       \/ /\ Accepts(last[e], m.seq) /\ m.kind = "data"
          /\ WriteChunk(e, m) \/ (~Writable(e) /\ StopOnly(e))

\* ChatManager hands m to the chat of e: a chat without a listener drops it.
DeliverToChat(e, m) ==
    IF Registered(e)
    THEN ProcessMessage(e, m) /\ UNCHANGED lost
    ELSE /\ lost' = [lost EXCEPT ![e] = TRUE]
         /\ UNCHANGED <<last, written, outShut, app, stop>>

\* PacketReader takes a packet off the stream and queues it for the
\* callback thread, which goes on with what is queued when the stream dies.
Arrive(e) ==
    /\ up[e] /\ chan[Peer(e)] # <<>>
    /\ chan' = [chan EXCEPT ![Peer(e)] = Tail(@)]
    /\ inbox' = [inbox EXCEPT ![e] = Append(@, Head(chan[Peer(e)]))]
    /\ UNCHANGED <<tcpVars, pumpVars, up, cur, refused, session, drops, lost>>

\* The client's callback thread has only ChatManager's listener to run.
ClientReceives ==
    /\ tun["client"] = "running" /\ inbox["client"] # <<>>
    /\ inbox' = [inbox EXCEPT !["client"] = Tail(@)]
    /\ DeliverToChat("client", Head(inbox["client"]))
    /\ UNCHANGED <<got, t1, sequence, t2, tun, up, chan, cur, refused,
                   session, drops>>

-----------------------------------------------------------------------------
(* The server's callback thread: MyPacketListener, then ChatManager.  It    *)
(* works on one packet at a time.                                          *)

Take ==
    /\ session # "gone" /\ cur = <<>> /\ inbox["server"] # <<>>
    /\ cur' = <<Head(inbox["server"])>>
    /\ inbox' = [inbox EXCEPT !["server"] = Tail(@)]

\* errors.add: maintainXMPPConnection will give the connection up.
ChargeError == session' = IF session = "ok" THEN "failed" ELSE session

\* A tunnel thread for the chat is alive: nothing to do but deliver.
DispatchKnown ==
    /\ tun["server"] = "running"
    /\ Take
    /\ UNCHANGED <<tcpVars, pumpVars, up, chan, refused, session, drops, lost>>

\* A new chat: connect to the VNC server and start a tunnel.
DispatchNew ==
    /\ tun["server"] = "absent" /\ ~refused
    /\ Take
    /\ tun' = [tun EXCEPT !["server"] = "running"]
    /\ t1' = [t1 EXCEPT !["server"] = "start"]
    /\ t2' = [t2 EXCEPT !["server"] = "starting"]
    /\ UNCHANGED <<tcpVars, sequence, stop, last, up, chan, refused, session,
                   drops, lost>>

\* Mutant of DispatchRefuse: the viewer's side is not told.
DispatchRefuseSilently ==
    /\ "refuse" \in Faults
    /\ tun["server"] = "absent" /\ ~refused
    /\ Take
    /\ refused' = TRUE
    /\ UNCHANGED <<tcpVars, pumpVars, up, chan, session, drops, lost>>

\* A new chat, and the VNC server cannot be reached: refuse with "0:_end".
\* The refusal itself fails, as an error of the session, when it is offline.
DispatchRefuse ==
    /\ "refuse" \in Faults
    /\ tun["server"] = "absent" /\ ~refused
    /\ Take
    /\ refused' = TRUE
    /\ IF up["server"]
       THEN /\ chan' = [chan EXCEPT !["server"] = Append(@, EndMsg(0))]
            /\ UNCHANGED session
       ELSE ChargeError /\ UNCHANGED chan
    /\ UNCHANGED <<tcpVars, pumpVars, up, drops, lost>>

\* The chat's tunnel thread has died, or the Chat that refused it is still
\* known: createChat throws "ThreadID is already used", and throws again in
\* the catch clause, so the error is charged to the whole session.
DispatchFails ==
    /\ tun["server"] = "closed" \/ (tun["server"] = "absent" /\ refused)
    /\ Take
    /\ ChargeError
    /\ UNCHANGED <<tcpVars, pumpVars, up, chan, refused, drops, lost>>

ServerDelivers ==
    /\ cur # <<>>
    /\ cur' = <<>>
    /\ DeliverToChat("server", Head(cur))
    /\ UNCHANGED <<got, t1, sequence, t2, tun, up, chan, inbox, refused,
                   session, drops>>

\* disconnect clears the listeners, perhaps before this packet's turn.
ServerSkips ==
    /\ cur # <<>> /\ session = "gone"
    /\ cur' = <<>>
    /\ lost' = [lost EXCEPT !["server"] = TRUE]
    /\ UNCHANGED <<tcpVars, pumpVars, up, chan, inbox, refused, session, drops>>

\* ChatManager holds its chats by weak references, and nothing else holds
\* the one made for a refusal.
CollectRefused ==
    /\ "gc" \in Faults
    /\ refused /\ cur = <<>>
    /\ refused' = FALSE
    /\ UNCHANGED <<tcpVars, pumpVars, up, chan, inbox, cur, session, drops,
                   lost>>

-----------------------------------------------------------------------------
(* The tunnel threads' joins, and the XMPP connections. *)

\* The connection of e goes down with its last messages still unsent: only
\* the first k of them are on their way.
KeepSent(e, k) ==
    /\ chan' = [chan EXCEPT ![e] = SubSeq(@, 1, k)]
    /\ lost' = IF k < Len(chan[e]) THEN [lost EXCEPT ![Peer(e)] = TRUE] ELSE lost
    /\ up' = [up EXCEPT ![e] = FALSE]

Joined(e) == t1[e] \in {"done", "failed"} /\ t2[e] = "done"

CloseServerTunnel ==
    /\ tun["server"] = "running" /\ Joined("server")
    /\ tun' = [tun EXCEPT !["server"] = "closed"]
    /\ UNCHANGED <<tcpVars, t1, sequence, t2, stop, last, xmppVars>>

\* The client also disconnects, which gives the writer 150 ms to flush.
CloseClientTunnel ==
    /\ tun["client"] = "running" /\ Joined("client")
    /\ tun' = [tun EXCEPT !["client"] = "closed"]
    /\ \E k \in 0..Len(chan["client"]) :
         /\ "flush" \in Faults \/ k = Len(chan["client"])
         /\ KeepSent("client", k)
    /\ UNCHANGED <<tcpVars, t1, sequence, t2, stop, last, inbox, cur, refused,
                   session, drops>>

ClientDrops ==
    /\ "clientDrop" \in Faults /\ drops < MaxDrops
    /\ up["client"]
    /\ \E k \in 0..Len(chan["client"]) : KeepSent("client", k)
    /\ drops' = drops + 1
    /\ UNCHANGED <<tcpVars, pumpVars, inbox, cur, refused, session>>

ClientReconnects ==
    /\ ~up["client"] /\ tun["client"] = "running"
    /\ up' = [up EXCEPT !["client"] = TRUE]
    /\ UNCHANGED <<tcpVars, pumpVars, chan, inbox, cur, refused, session,
                   drops, lost>>

\* MyConnectionListener.connectionClosedOnError
ServerDrops ==
    /\ "serverDrop" \in Faults
    /\ up["server"]
    /\ \E k \in 0..Len(chan["server"]) : KeepSent("server", k)
    /\ ChargeError
    /\ UNCHANGED <<tcpVars, pumpVars, inbox, cur, refused, drops>>

\* maintainXMPPConnection wakes up, disconnects, and will start over with a
\* new connection; the threads of this session's tunnels are left to run.
ServerGivesUp ==
    /\ session = "failed"
    /\ session' = "gone"
    /\ \E k \in 0..Len(chan["server"]) :
         /\ "flush" \in Faults \/ k = Len(chan["server"])
         /\ KeepSent("server", k)
    /\ UNCHANGED <<tcpVars, pumpVars, inbox, cur, refused, drops>>

\* XMPP drops a message whose receiver is offline.
Lose(e) ==
    /\ ~up[Peer(e)] /\ chan[e] # <<>>
    /\ chan' = [chan EXCEPT ![e] = Tail(@)]
    /\ lost' = [lost EXCEPT ![Peer(e)] = TRUE]
    /\ UNCHANGED <<tcpVars, pumpVars, up, inbox, cur, refused, session, drops>>

-----------------------------------------------------------------------------
App(e)  == AppClose(e) \/ AppReset(e)
Pump(e) == SendStart(e) \/ ReadChunk(e) \/ ReadEof(e) \/ ReadFails(e)
T2(e)   == Register(e) \/ PollStop(e)
Dispatch == DispatchKnown \/ DispatchNew \/ DispatchRefuse \/ DispatchFails

Next ==
    \/ \E e \in End : App(e) \/ Pump(e) \/ T2(e) \/ Arrive(e) \/ Lose(e)
    \/ ClientReceives
    \/ Dispatch
    \/ ServerDelivers \/ ServerSkips
    \/ CloseClientTunnel \/ CloseServerTunnel
    \/ CollectRefused
    \/ ClientDrops \/ ClientReconnects
    \/ ServerDrops \/ ServerGivesUp

Spec == Init /\ [][Next]_vars

(* Threads run, Smack's callback thread drains its queue, and an            *)
(* application that reads the end of its stream closes.  Nothing obliges    *)
(* an application to write or to close first, or a fault to happen.         *)
Fairness ==
    /\ \A e \in End :
         /\ WF_vars(SendStart(e) \/ ReadEof(e) \/ ReadFails(e))
         /\ WF_vars(T2(e))
         /\ WF_vars(Arrive(e))
         /\ WF_vars(outShut[e] /\ AppClose(e))
    /\ WF_vars(ClientReceives)
    /\ WF_vars(ClientReconnects)
    /\ WF_vars(Dispatch)
    /\ WF_vars(ServerDelivers \/ ServerSkips)
    /\ WF_vars(CloseClientTunnel)
    /\ WF_vars(CloseServerTunnel)
    /\ WF_vars(ServerGivesUp)
-----------------------------------------------------------------------------
(* Safety *)

\* The bytes written to a socket are consecutive chunks of what the peer's
\* pump has read: none skipped, repeated or out of order, whatever was lost
\* on the way (XMPP2TCPPumpThread.checkSequence).
InOrder ==
    \A e \in End :
        /\ \A i \in 1..(Len(written[e]) - 1) :
             written[e][i + 1] = written[e][i] + 1
        /\ written[e] # <<>> => written[e][Len(written[e])] <= got[Peer(e)]

\* What is written starts with the first chunk, unless a message never
\* reached the listener: the one way a stream loses its head.
CompleteUnlessLost ==
    \A e \in End : written[e] # <<>> /\ ~lost[e] => written[e][1] = 1

\* An application that was given data is told that the stream has ended only
\* when the peer has read the end of its stream and all of it has arrived.
EndMeansAll ==
    \A e \in End : outShut[e] /\ written[e] # <<>> =>
        /\ t1[Peer(e)] = "done"
        /\ written[e][Len(written[e])] = got[Peer(e)]

\* Once the pump has been told to stop, nothing is written to its socket
\* again, although its listener is never removed from the chat and goes on
\* being called.
StopIsFinal ==
    [][\A e \in End : stop[e] => written'[e] = written[e]]_vars

(* Liveness *)

\* An end whose application was told that the stream has ended closes its
\* socket, so that neither the threads nor the socket of a tunnel leak.
EndClosesTunnel == \A e \in End : outShut[e] ~> tun[e] = "closed"

\* A message from e that is not taken any more: the session is over.
Stranded(e) ==
    e = "client" /\ session = "gone" /\ chan[e] \o inbox[Peer(e)] # <<>>

\* The end of a stream closes the far socket, unless some message for that
\* end was lost, if only because the listener was registered too late, or
\* comes after the server has given up its session.
EndPropagates ==
    \A e \in End :
        t1[e] = "done" ~> (tun[Peer(e)] = "closed" \/ lost[Peer(e)] \/ Stranded(e))

\* A viewer whose tunnel is refused is let go, with the same exception.
RefusalClosesViewer == refused ~> (tun["client"] = "closed" \/ lost["client"])

(* The comment in MyPacketListener.processPacket on what it does with a     *)
(* message that finds no live tunnel thread: "a message of a brand new      *)
(* thread".                                                                *)
OnlyBrandNewThreads ==
    [][cur = <<>> /\ cur' # <<>> /\ tun["server"] # "running"
       => tun["server"] = "absent" /\ ~refused]_vars

(* Each direction is a pipe. *)
Downstream == INSTANCE Pipe WITH
    produced <- got["server"], finished <- t1["server"] = "done",
    delivered <- written["client"], ended <- outShut["client"]

Upstream == INSTANCE Pipe WITH
    produced <- got["client"], finished <- t1["client"] = "done",
    delivered <- written["server"], ended <- outShut["server"]

\* What the viewer is given is a run of what the server's pump has read, and
\* its end is announced only at the end of that (TCP2XMPPPumpThread and
\* XMPP2TCPPumpThread together).
DownstreamIsPipe == Downstream!Spec

\* The same of what the VNC server is given.
UpstreamIsPipe == Upstream!Spec
=============================================================================
