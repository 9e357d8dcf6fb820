------------------------------ MODULE LegacyTunnel ------------------------------
(***************************************************************************)
(* One tunnel of one of the two older programs, vnc2xmpp (Smack 2.2.1) and *)
(* vnc2xmpp3 (Smack 3).                                                    *)
(*                                                                         *)
(* Both send "_end" on every path and shut the output on every path.      *)
(* vnc2xmpp has a second thread, t2, that takes messages from the packet  *)
(* collector of its Chat: what the packet reader sees before the Chat is  *)
(* made is in no collector.  vnc2xmpp3 has a message listener in its      *)
(* place, called by the one callback thread of the connection, which also *)
(* opens the socket of a new tunnel.                                       *)
(*                                                                         *)
(* One session of the server, as in Tunnel; Smack 2.2.1 does not connect  *)
(* again, and a connection that Smack 3 loses is not modelled.            *)
(***************************************************************************)
EXTENDS Integers, Sequences

CONSTANTS
    MaxChunks,   \* bound: MaxChunks[e] chunks come from the application at e
    Faults       \* a subset of {"reset", "refuse", "drop", "flush"}

End == {"client", "server"}
Peer(e) == IF e = "client" THEN "server" ELSE "client"

VARIABLES
    program,   \* "vnc2xmpp" or "vnc2xmpp3"
    viewer,    \* "waits" to be spoken to, as a VNC viewer does, or "speaks"
    app,       \* app[e]: the application's side of the TCP connection
    got,       \* got[e]: chunks t1 has read
    t1,        \* t1[e]: where TCP2XMPPPumpThread is
    sequence,  \* sequence[e]: its next number
    t2,        \* t2[e]: where XMPP2TCPPumpThread is
    last,      \* last[e]: lastSequence of what receives
    written,   \* written[e]: chunks os.write has accepted
    outShut,   \* outShut[e]: shutdownOutput has succeeded
    tun,       \* tun[e]: the tunnel thread
    up,        \* up[e]: the XMPP connection is connected
    chan,      \* chan[e]: messages e has sent, not yet at its peer
    inbox,     \* inbox[e]: the collector, or the queue of the callback thread
    dispatch,  \* what the server made of the thread id
    missed     \* kinds of message that never reached a pump (history)

Listens == program = "vnc2xmpp3"
Waits   == viewer = "waits"

vars == <<app, got, t1, sequence, t2, last, written, outShut, tun, up, chan, inbox,
          dispatch, missed>>

Msg(n, kind, chunk) == [seq |-> n, kind |-> kind, chunk |-> chunk]
NoSequence == -1

-----------------------------------------------------------------------------
(* The applications *)

Connected(e) == tun[e] = "running" /\ app[e] # "reset"

AppClose(e) ==
    /\ Connected(e) /\ app[e] = "open"
    /\ app' = [app EXCEPT ![e] = "closed"]
    /\ UNCHANGED <<got, t1, sequence, t2, last, written, outShut, tun, up, chan, inbox,
                   dispatch, missed>>

AppReset(e) ==
    /\ "reset" \in Faults /\ Connected(e)
    /\ app' = [app EXCEPT ![e] = "reset"]
    /\ UNCHANGED <<got, t1, sequence, t2, last, written, outShut, tun, up, chan, inbox,
                   dispatch, missed>>

-----------------------------------------------------------------------------
(* t1: the inner try is around the loop, the outer one around everything *)

\* Only "_start" and "_end" use up a number.
SendsCountingMarkers(e, kind, chunk, next, thrown) ==
    /\ sequence' = [sequence EXCEPT ![e] = IF kind = "data" THEN @ ELSE @ + 1]
    /\ chan' = IF up[e] THEN [chan EXCEPT ![e] = Append(@, Msg(sequence[e], kind, chunk))]
               ELSE chan
    /\ t1' = [t1 EXCEPT ![e] = IF up[e] THEN next ELSE thrown]
    /\ UNCHANGED <<app, t2, last, written, outShut, tun, up, inbox, dispatch, missed>>

\* sendMessage throws when the connection is down, its number used up.
Sends(e, kind, chunk, next, thrown) ==
    /\ sequence' = [sequence EXCEPT ![e] = @ + 1]
    /\ chan' = IF up[e] THEN [chan EXCEPT ![e] = Append(@, Msg(sequence[e], kind, chunk))]
               ELSE chan
    /\ t1' = [t1 EXCEPT ![e] = IF up[e] THEN next ELSE thrown]
    /\ UNCHANGED <<app, t2, last, written, outShut, tun, up, inbox, dispatch, missed>>

SendStart(e) ==
    /\ t1[e] = "start"
    /\ Sends(e, "_start", 0, "read", "failed")
    /\ UNCHANGED got

ReadChunk(e) ==
    /\ t1[e] = "read" /\ app[e] # "reset" /\ got[e] < MaxChunks[e]
    /\ e = "client" /\ Waits => written[e] # <<>>
    /\ got' = [got EXCEPT ![e] = @ + 1]
    /\ Sends(e, "data", got[e] + 1, "read", "ending")

\* End of the stream, or an exception.
ReadEnds(e) ==
    /\ t1[e] = "read" /\ app[e] # "open"
    /\ t1' = [t1 EXCEPT ![e] = "ending"]
    /\ UNCHANGED <<app, got, sequence, t2, last, written, outShut, tun, up, chan, inbox,
                   dispatch, missed>>

\* The pump sends "_end" at the end of the stream only.
SendEndAtEof(e) ==
    /\ t1[e] = "ending"
    /\ IF app[e] = "closed" THEN Sends(e, "_end", 0, "done", "failed")
       ELSE /\ t1' = [t1 EXCEPT ![e] = "done"]
            /\ UNCHANGED <<app, sequence, t2, last, written, outShut, tun, up, chan,
                           inbox, dispatch, missed>>
    /\ UNCHANGED got

\* And shutdownInput, which matters to nobody then.
SendEnd(e) ==
    /\ t1[e] = "ending"
    /\ Sends(e, "_end", 0, "done", "failed")
    /\ UNCHANGED got

-----------------------------------------------------------------------------
(* What receives *)

Accepts(lastSequence, n) == lastSequence = NoSequence \/ n = lastSequence + 1

Writable(e) == tun[e] = "running" /\ ~outShut[e] /\ app[e] # "reset"

ShutdownOutput(e) == outShut' = [outShut EXCEPT ![e] = @ \/ Writable(e)]

\* Writing to an application that has closed succeeds and provokes a reset.
Write(e, chunk) ==
    /\ written' = [written EXCEPT ![e] = Append(@, chunk)]
    /\ app' = [app EXCEPT ![e] = IF @ = "closed" THEN "reset" ELSE @]

\* Whatever is not "_end" is decoded and written.
\* t2: one message, and the loop goes on, or is left and the output is shut.
Receive(e) ==
    /\ ~Listens /\ t2[e] = "waiting" /\ inbox[e] # <<>>
    /\ LET m == Head(inbox[e])
           ok == Accepts(last[e], m.seq)
           goesOn == ok /\ (m.kind = "_start" \/ (m.kind = "data" /\ Writable(e)))
       IN /\ last' = [last EXCEPT ![e] = IF ok THEN m.seq ELSE @]
          /\ IF goesOn /\ m.kind = "data" THEN Write(e, m.chunk)
                                          ELSE UNCHANGED <<written, app>>
          /\ IF goesOn THEN UNCHANGED <<outShut, t2>>
             ELSE ShutdownOutput(e) /\ t2' = [t2 EXCEPT ![e] = "done"]
    /\ inbox' = [inbox EXCEPT ![e] = Tail(@)]
    /\ UNCHANGED <<got, t1, sequence, tun, up, chan, dispatch, missed>>

\* getOutputStream throws at once when the output is shut.
Takes(e, m) == tun[e] = "running" /\ ~outShut[e] /\ Accepts(last[e], m.seq)

\* The listener with "while (false)" for its "while (true)".
ProcessMessageOnce(e, m) ==
    /\ last' = [last EXCEPT ![e] = IF Takes(e, m) THEN m.seq ELSE @]
    /\ IF Takes(e, m) /\ m.kind = "data" /\ Writable(e)
       THEN Write(e, m.chunk) ELSE UNCHANGED <<written, app>>
    /\ IF Takes(e, m) /\ m.kind # "_end" THEN UNCHANGED outShut ELSE ShutdownOutput(e)

\* The listener of vnc2xmpp3 loops over the same message: unless it is
\* "_end", the second look at its number throws, and the output is shut.
ProcessMessage(e, m) ==
    /\ last' = [last EXCEPT ![e] = IF Takes(e, m) THEN m.seq ELSE @]
    /\ IF Takes(e, m) /\ m.kind = "data" /\ Writable(e)
       THEN Write(e, m.chunk) ELSE UNCHANGED <<written, app>>
    /\ ShutdownOutput(e)

Callback(e) ==
    /\ Listens /\ inbox[e] # <<>>
    /\ e = "server" => dispatch # "new"
    /\ inbox' = [inbox EXCEPT ![e] = Tail(@)]
    /\ IF e = "server" /\ dispatch = "refused"
       THEN UNCHANGED <<last, written, app, outShut>>
       ELSE ProcessMessage(e, Head(inbox[e]))
    /\ UNCHANGED <<got, t1, sequence, t2, tun, up, chan, dispatch, missed>>

-----------------------------------------------------------------------------
(* The packet reader, and the server's packet listener *)

HasQueue(e) == Listens \/ e = "client" \/ dispatch = "tunnel"

Arrive(e) ==
    /\ up[e] /\ chan[Peer(e)] # <<>>
    /\ LET m == Head(chan[Peer(e)])
       IN IF HasQueue(e)
          THEN inbox' = [inbox EXCEPT ![e] = Append(@, m)] /\ UNCHANGED <<dispatch, missed>>
          ELSE /\ dispatch' = IF dispatch = "new" THEN "opening" ELSE dispatch
               /\ missed' = missed \cup {m.kind}
               /\ UNCHANGED inbox
    /\ chan' = [chan EXCEPT ![Peer(e)] = Tail(@)]
    /\ UNCHANGED <<app, got, t1, sequence, t2, last, written, outShut, tun, up>>

\* Whether processPacket has a new thread id before it.
NewThread == IF Listens THEN dispatch = "new" /\ inbox["server"] # <<>>
                        ELSE dispatch = "opening"

\* The tunnel is started before its Chat is made.
StartTunnelEarly ==
    /\ dispatch' = IF t1["server"] = "none" THEN dispatch ELSE "tunnel"
    /\ tun' = [tun EXCEPT !["server"] = "running"]
    /\ t1' = [t1 EXCEPT !["server"] = IF @ = "none" THEN "start" ELSE @]
    /\ t2' = [t2 EXCEPT !["server"] = IF t1["server"] = "none" THEN @ ELSE "waiting"]

StartTunnel ==
    /\ dispatch' = "tunnel"
    /\ tun' = [tun EXCEPT !["server"] = "running"]
    /\ t1' = [t1 EXCEPT !["server"] = "start"]
    /\ t2' = [t2 EXCEPT !["server"] = IF Listens THEN "done" ELSE "waiting"]

\* The message that opened it is in no collector; with a listener it goes to
\* the new Chat when ChatManager comes after this program's packet listener.
Open ==
    /\ NewThread
    /\ StartTunnel
    /\ inbox' \in IF Listens THEN {inbox, [inbox EXCEPT !["server"] = Tail(@)]} ELSE {inbox}
    /\ UNCHANGED <<app, got, sequence, last, written, outShut, up, chan, missed>>

\* The socket cannot be opened: the sender is told, outside the numbering.
Refuse ==
    /\ "refuse" \in Faults /\ NewThread
    /\ dispatch' = "refused"
    /\ chan' = IF up["server"] THEN [chan EXCEPT !["server"] = Append(@, Msg(0, "_end", 0))]
               ELSE chan
    /\ UNCHANGED <<app, got, t1, sequence, t2, last, written, outShut, tun, up, inbox, missed>>

-----------------------------------------------------------------------------
(* Tunnel threads and connections *)

Joined(e) == t1[e] \in {"done", "failed"} /\ (Listens \/ t2[e] = "done")

\* What a connection has been given to send, when it ends in disorder.
KeepsSome(e) ==
    \E n \in 0 .. Len(chan[e]) :
        /\ chan' = [chan EXCEPT ![e] = SubSeq(@, 1, n)]
        /\ missed' = IF n < Len(chan[e]) THEN missed \cup {"sent"} ELSE missed

\* The client of vnc2xmpp closes its connection too.
Close(e) ==
    /\ tun[e] = "running" /\ Joined(e)
    /\ tun' = [tun EXCEPT ![e] = "closed"]
    /\ IF e = "client" /\ ~Listens
       THEN /\ up' = [up EXCEPT ![e] = FALSE]
            /\ IF "flush" \in Faults THEN KeepsSome(e) ELSE UNCHANGED <<chan, missed>>
       ELSE UNCHANGED <<up, chan, missed>>
    /\ UNCHANGED <<app, got, t1, sequence, t2, last, written, outShut, inbox, dispatch>>

\* The XMPP connection is lost.
Drop(e) ==
    /\ "drop" \in Faults /\ ~Listens /\ up[e]
    /\ up' = [up EXCEPT ![e] = FALSE]
    /\ \E n \in 0 .. Len(chan[e]) : chan' = [chan EXCEPT ![e] = SubSeq(@, 1, n)]
    /\ missed' = missed \cup {"sent"}
    /\ UNCHANGED <<app, got, t1, sequence, t2, last, written, outShut, tun, inbox, dispatch>>

-----------------------------------------------------------------------------
Init ==
    /\ program \in {"vnc2xmpp", "vnc2xmpp3"} /\ viewer \in {"waits", "speaks"}
    /\ app = [e \in End |-> "open"]
    /\ got = [e \in End |-> 0]
    /\ t1 = [e \in End |-> IF e = "client" THEN "start" ELSE "none"]
    /\ sequence = [e \in End |-> 0]
    /\ t2 = [e \in End |-> IF e = "client" THEN IF Listens THEN "done" ELSE "waiting"
                                           ELSE "none"]
    /\ last = [e \in End |-> NoSequence]
    /\ written = [e \in End |-> <<>>]
    /\ outShut = [e \in End |-> FALSE]
    /\ tun = [e \in End |-> IF e = "client" THEN "running" ELSE "absent"]
    /\ up = [e \in End |-> TRUE]
    /\ chan = [e \in End |-> <<>>]
    /\ inbox = [e \in End |-> <<>>]
    /\ dispatch = "new"
    /\ missed = {}

Program(e) ==
    SendStart(e) \/ ReadEnds(e) \/ SendEnd(e) \/ Receive(e) \/ Callback(e) \/ Arrive(e)
        \/ Close(e)

Step ==
    \/ \E e \in End : \/ Program(e) \/ ReadChunk(e)
                      \/ AppClose(e) \/ AppReset(e) \/ Drop(e)
    \/ Open \/ Refuse

Next == Step /\ UNCHANGED <<program, viewer>>

Spec == Init /\ [][Next]_<<vars, program, viewer>>

\* The threads run, and an application that was told the end closes.
Fairness ==
    /\ \A e \in End : /\ WF_vars(Program(e))
                      /\ WF_vars(outShut[e] /\ AppClose(e))
    /\ WF_vars(Open \/ Refuse)

FairSpec == Spec /\ Fairness

-----------------------------------------------------------------------------
(* Properties *)

(***************************************************************************)
(* Each direction of vnc2xmpp is a pipe, although "_end" is also sent by  *)
(* a pump that failed, and the output is also shut by one that failed:    *)
(* what a socket was given is a run of chunks that ends where it was shut.*)
(* vnc2xmpp3 cuts the run short, without an end (see OneMessageOnly).      *)
(***************************************************************************)
Downstream == INSTANCE Pipe WITH
    produced <- got["server"], finished <- t1["server"] \in {"done", "failed"},
    delivered <- written["client"], ended <- outShut["client"] /\ ~Listens

Upstream == INSTANCE Pipe WITH
    produced <- got["client"], finished <- t1["client"] \in {"done", "failed"},
    delivered <- written["server"], ended <- outShut["server"] /\ ~Listens

StreamsArePipes == Downstream!Spec /\ Upstream!Spec

(***************************************************************************)
(* Messages that come while the server opens its socket are lost without  *)
(* a trace, and the pump takes any number first.  No data is among them,   *)
(* from a viewer that waits for the VNC server to speak: "_start" is, and  *)
(* "_end" when that viewer closes before it was spoken to.                 *)
(***************************************************************************)
NoDataIsMissed == Waits => "data" \notin missed

(***************************************************************************)
(* When an application closes or resets its connection, both tunnels end, *)
(* unless a message other than "_start" was lost: with the connection, or  *)
(* while the server opened its socket, where "_end" can be lost too.       *)
(***************************************************************************)
EndClosesTunnel ==
    \A e \in End : (app[e] # "open") ~> \/ missed \cap {"data", "_end", "sent"} # {}
                                        \/ \A f \in End : tun[f] # "running"

(***************************************************************************)
(* In vnc2xmpp3 a socket gets one chunk at most, and nothing more is      *)
(* written once the tunnel's listener has been called: the loop over the  *)
(* one message shuts the output.                                           *)
(***************************************************************************)
OneMessageOnly ==
    [][\A e \in End : Listens /\ written'[e] # written[e] => last[e] = NoSequence]_vars

===============================================================================
