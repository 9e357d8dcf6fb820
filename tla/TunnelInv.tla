----------------------------- MODULE TunnelInv ------------------------------
(***************************************************************************)
(* The inductive invariant behind Tunnel's safety properties.              *)
(*                                                                         *)
(* Messages travel to e through three queues: chan[Peer(e)], inbox[e] and, *)
(* at the server, the packet at hand.  Their sequence numbers rise along   *)
(* that path, so that what checkSequence accepts in turn is consecutive,   *)
(* and what it has once refused can never be followed by something it      *)
(* accepts.                                                                *)
(***************************************************************************)
EXTENDS Tunnel

\* y may follow x on a path: 0 may follow 0, the refusal and a later "_start".
Before(x, y) == x < y \/ (x = 0 /\ y = 0)

AllAfter(x, q) == \A i \in 1..Len(q) : Before(x, q[i].seq)
AllBefore(q, y) == \A i \in 1..Len(q) : Before(q[i].seq, y)
Sorted(q) == \A i, j \in 1..Len(q) : i < j => Before(q[i].seq, q[j].seq)
Crossed(q, r) == \A i \in 1..Len(q) : AllAfter(q[i].seq, r)

\* h, in and ch are the hand, the inbox and the channel of one path.
PathOrder(h, in, ch) ==
    /\ Sorted(in) /\ Sorted(ch)
    /\ Crossed(h, in) /\ Crossed(h, ch) /\ Crossed(in, ch)

\* A message from a pump that has read g chunks and sent numbers up to top,
\* one more than g once it has sent "_end", says what the pump has read, or
\* is the refusal.  It is new to a receiver whose lastSequence is l, and past
\* the last number the receiver could miss, floor.
Fits(g, top, l, floor, m) ==
    /\ m.seq <= top
    /\ m.kind = "_start" => m.seq = 0
    /\ m.kind = "data" => m.seq = m.chunk /\ 1 <= m.seq /\ m.seq <= g
    /\ m.kind = "_end" => m.seq = 0 \/ m.seq = g + 1
    /\ Before(l, m.seq)
    /\ floor < m.seq

AllFit(g, top, l, floor, q) == \A i \in 1..Len(q) : Fits(g, top, l, floor, q[i])

Path(h, in, ch, g, top, l, floor) ==
    /\ PathOrder(h, in, ch)
    /\ AllFit(g, top, l, floor, h)
    /\ AllFit(g, top, l, floor, in)
    /\ AllFit(g, top, l, floor, ch)

Hand(e) == IF e = "server" THEN cur ELSE <<>>

Top(e) == IF t1[e] = "done" THEN got[e] + 1 ELSE got[e]

\* A stopped pump whose socket still takes output has refused a message, and
\* waits for one that will never come.
Gap(e) == stop[e] /\ Writable(e)

Floor(e) == IF Gap(e) THEN last[e] + 1 ELSE NoSequence

PathInv(e) ==
    Path(Hand(e), inbox[e], chan[Peer(e)],
         got[Peer(e)], Top(Peer(e)), last[e], Floor(e))

\* t1's counter is one ahead of the chunks it has sent, and both are 0 before
\* it has said "_start".
PumpInv(e) ==
    /\ t1[e] \in {"none", "start"} => sequence[e] = 0 /\ got[e] = 0
    /\ t1[e] = "read" => sequence[e] = got[e] + 1
    /\ t1[e] = "none" <=> tun[e] = "absent"
    /\ t2[e] = "none" <=> tun[e] = "absent"

Latest(w) == w[Len(w)]

Run(w) == \A i \in 1..(Len(w) - 1) : w[i + 1] = w[i] + 1

ReceiverInv(e) ==
    /\ last[e] <= Top(Peer(e))
    /\ stop[e] \/ last[e] # NoSequence => Registered(e)
    /\ Gap(e) => last[e] >= 0 /\ last[e] + 1 < Top(Peer(e))
    /\ Run(written[e])
    /\ written[e] # <<>> =>
         /\ 1 <= Latest(written[e])
         /\ Latest(written[e]) <= last[e]
         /\ Latest(written[e]) <= got[Peer(e)]
         /\ Writable(e) => Latest(written[e]) = last[e]
         /\ outShut[e] => /\ t1[Peer(e)] = "done"
                          /\ Latest(written[e]) = got[Peer(e)]

IInv ==
    /\ TypeOK
    /\ \A e \in End : PumpInv(e) /\ PathInv(e) /\ ReceiverInv(e)

-----------------------------------------------------------------------------
(* What CompleteUnlessLost rests on besides IInv. *)

\* While nothing for e is lost, and e has accepted nothing, the first message
\* on the path is numbered 0, or nothing was sent.
StartFirst(e) ==
    ~lost[e] /\ last[e] = NoSequence =>
        \/ Hand(e) # <<>> /\ Hand(e)[1].seq = 0
        \/ /\ Hand(e) = <<>>
           /\ \/ inbox[e] # <<>> /\ inbox[e][1].seq = 0
              \/ /\ inbox[e] = <<>>
                 /\ \/ chan[Peer(e)] # <<>> /\ chan[Peer(e)][1].seq = 0
                    \/ /\ chan[Peer(e)] = <<>>
                       /\ t1[Peer(e)] \in {"none", "start", "failed"}

\* A socket that takes output and was given none is still to get chunk 1.
HeadToCome(e) ==
    ~lost[e] /\ written[e] = <<>> /\ Writable(e) => last[e] \in {NoSequence, 0}

HeadWritten(e) == ~lost[e] /\ written[e] # <<>> => written[e][1] = 1

HeadInv(e) == StartFirst(e) /\ HeadToCome(e) /\ HeadWritten(e)

=============================================================================
