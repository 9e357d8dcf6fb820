------------------------------ MODULE LegacyInv ------------------------------
(***************************************************************************)
(* An inductive invariant of LegacyTunnel: numbers rise by one along the   *)
(* path of each direction and go on from the last one taken, each message  *)
(* is what the counters of its sender say it is, and the listener of       *)
(* vnc2xmpp3 has shut what it has written to.  Module LegacyProofs proves  *)
(* it.                                                                     *)
(***************************************************************************)
EXTENDS LegacyTunnel

Message == [seq : Nat, kind : {"_start", "data", "_end"}, chunk : Nat]

TypeOK ==
    /\ program \in {"vnc2xmpp", "vnc2xmpp3"} /\ viewer \in {"waits", "speaks"}
    /\ app \in [End -> {"open", "closed", "reset"}]
    /\ got \in [End -> Nat] /\ sequence \in [End -> Nat]
    /\ t1 \in [End -> {"none", "start", "read", "ending", "done", "failed"}]
    /\ t2 \in [End -> {"none", "waiting", "done"}]
    /\ last \in [End -> Nat \cup {NoSequence}]
    /\ written \in [End -> Seq(Nat)]
    /\ outShut \in [End -> BOOLEAN] /\ up \in [End -> BOOLEAN]
    /\ tun \in [End -> {"absent", "running", "closed"}]
    /\ chan \in [End -> Seq(Message)] /\ inbox \in [End -> Seq(Message)]
    /\ dispatch \in {"new", "opening", "tunnel", "refused"}
    /\ missed \subseteq {"_start", "data", "_end", "sent"}

-----------------------------------------------------------------------------
(* The sender *)

Finished(e) == t1[e] \in {"done", "failed"}

\* "_start" is number 0 and chunk n is number n.
Counts ==
    \A e \in End :
      /\ t1[e] \in {"none", "start"} => sequence[e] = 0 /\ got[e] = 0
      /\ t1[e] \in {"read", "ending"} => sequence[e] = got[e] + 1

\* The server's pump begins with the tunnel, and until the server has decided
\* the client hears nothing.
ServerBegins ==
    /\ t1["server"] = "none" <=> dispatch # "tunnel"
    /\ t1["client"] # "none"
    /\ dispatch # "tunnel" =>
         /\ t2["server"] = "none"
         /\ last["server"] = NoSequence
         /\ ~Listens => inbox["server"] = <<>>
    /\ Listens => dispatch # "opening"
    /\ dispatch \in {"new", "opening"} =>
         /\ chan["server"] = <<>> /\ inbox["client"] = <<>>
         /\ last["client"] = NoSequence

\* What a message from p can be.
Fit(p) ==
    {m \in Message :
        \/ m.kind = "_start" /\ m.seq = 0
        \/ m.kind = "data" /\ m.chunk = m.seq /\ m.seq \in 1..got[p]
        \/ m.kind = "_end" /\ m.seq = got[p] + 1 /\ Finished(p)
        \/ m = Msg(0, "_end", 0) /\ p = "server" /\ dispatch = "refused"}

MessagesFit ==
    \A e \in End : chan[e] \in Seq(Fit(e)) /\ inbox[e] \in Seq(Fit(Peer(e)))

-----------------------------------------------------------------------------
(* The path *)

\* Messages with consecutive numbers.
Runs ==
    {q \in Seq(Message) : \A i \in 1..(Len(q) - 1) : q[i + 1].seq = q[i].seq + 1}

\* The next number after q is n.
Joins(q, n) == q # <<>> => n = q[Len(q)].seq + 1

\* Something from p can still come out of its channel, and its number.
Live(p) == chan[p] # <<>> \/ (up[p] /\ t1[p] # "none")
Coming(p) == IF chan[p] # <<>> THEN chan[p][1].seq ELSE sequence[p]

PathInOrder ==
    \A e \in End :
      /\ chan[e] \in Runs /\ inbox[e] \in Runs
      /\ up[e] /\ t1[e] # "none" => Joins(chan[e], sequence[e])
      /\ Live(Peer(e)) => Joins(inbox[e], Coming(Peer(e)))

-----------------------------------------------------------------------------
(* What receives *)

Pumps(e) == ~Listens /\ t2[e] = "waiting"

\* t2 takes every number: the next to come is the one after its last.
NextIsNext ==
    \A e \in End :
      Pumps(e) /\ last[e] # NoSequence =>
        /\ inbox[e] # <<>> => inbox[e][1].seq = last[e] + 1
        /\ inbox[e] = <<>> /\ Live(Peer(e)) => Coming(Peer(e)) = last[e] + 1

\* What was written are chunks that were read, up to the last one taken.
WrittenIsTaken ==
    \A e \in End :
      /\ last[e] = NoSequence => written[e] = <<>>
      /\ written[e] # <<>> => written[e][Len(written[e])] \in 1..got[Peer(e)]
      /\ written[e] # <<>> /\ Pumps(e) => written[e][Len(written[e])] = last[e]

\* The listener of vnc2xmpp3 shuts the output when it has taken a message.
ListenerShuts ==
    \A e \in End : Listens /\ last[e] # NoSequence => outShut[e] \/ app[e] = "reset"

\* A viewer that waits has been spoken to, by a tunnel, before it speaks.
WaitsForTunnel == Waits /\ got["client"] > 0 => dispatch = "tunnel"

IInv ==
    /\ TypeOK
    /\ Counts
    /\ ServerBegins
    /\ MessagesFit
    /\ PathInOrder
    /\ NextIsNext
    /\ WrittenIsTaken
    /\ ListenerShuts
    /\ WaitsForTunnel
    /\ NoDataIsMissed

=============================================================================
