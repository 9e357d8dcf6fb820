----------------------------- MODULE RelaunchInv -----------------------------
(***************************************************************************)
(* An inductive invariant of Relaunch: only the last launch of main can    *)
(* have a connection, the static con is the connection of whoever has one, *)
(* and what the table of thread ids says is true of that connection,       *)
(* except for the ids that the listener of a lost connection put there.    *)
(* Module RelaunchProofs proves it.                                        *)
(***************************************************************************)
EXTENDS Relaunch

OneThread == {<<>>} \cup {<<t>> : t \in Threads}
Tunnels == [thread : Threads, on : Launches]

TypeOK ==
    /\ pc \in [Launches -> {"none", "dial", "login", "listen", "watch", "serving", "ended"}]
    /\ link \in [Launches -> {"none", "up", "down", "closed"}]
    /\ con \in {0} \cup Launches
    /\ restart \in [Launches -> {"none", "told", "asleep"}]
    /\ threadIds \subseteq Threads /\ told \subseteq Threads
    /\ stray \subseteq Threads /\ twice \subseteq Threads
    /\ queue \in [Launches -> Seq(Threads)]
    /\ packet \in [Launches -> OneThread]
    /\ work \in [Launches -> OneThread]
    /\ tunnels \subseteq Tunnels
    /\ sent \in [Threads -> Nat]

-----------------------------------------------------------------------------
(* Launches *)

NotBegun(l) == pc[l] \in {"none", "dial"}
Over(l) == link[l] \in {"down", "closed"}
Idle(l) == queue[l] = <<>> /\ packet[l] = <<>> /\ work[l] = <<>>

\* A launch of main begins when the one before has served, has lost its
\* connection and has cleaned up.
LaunchesInTurn ==
    \A l, m \in Launches :
      l < m /\ pc[m] # "none" => pc[l] = "serving" /\ Over(l) /\ restart[l] = "none"

\* A relaunch is due to a loss, and finds its own connection in the static.
RestartsFollowLosses ==
    \A l \in Launches :
      restart[l] # "none" =>
        /\ pc[l] = "serving" /\ Over(l)
        /\ l + 1 \in Launches /\ pc[l + 1] = "none"
        /\ restart[l] = "told" => con = l

\* Nothing is left of a launch that did not connect yet.
BeginsClean ==
    \A l \in Launches :
      NotBegun(l) =>
        /\ link[l] = "none" /\ Idle(l) /\ con # l
        /\ \A t \in Threads : [thread |-> t, on |-> l] \notin tunnels

\* Only one connection is up, and it is that of the static.
OneConnection == \A l \in Launches : Up(l) => con = l

-----------------------------------------------------------------------------
(* The table *)

\* The listener is at work on one message at a time, and only while it is
\* registered or after its connection was lost.
ListenersInTurn ==
    \A l \in Launches :
      /\ packet[l] = <<>> \/ work[l] = <<>>
      /\ queue[l] # <<>> => Up(l)
      /\ Up(l) /\ ~Idle(l) => Hears(l)

\* No connection is up between the clean-up and the next one.
Between == \E l \in Launches : pc[l] = "dial" \/ restart[l] = "asleep"

AtWork(t) == \E l \in Launches : work[l] = <<t>>

\* Between two connections the table holds only what the listener of the one
\* that was lost put there.
TableBetween ==
    Between => \A t \in threadIds : AtWork(t) \/ t \in stray

\* A thread id with a tunnel on the connection is in the table, for good.
TunnelsRecorded ==
    \A l \in Launches, t \in Threads :
      Up(l) =>
        /\ work[l] = <<t>> => t \in threadIds
        /\ [thread |-> t, on |-> l] \in tunnels
             => t \in stray \/ (t \in threadIds /\ work[l] # <<t>>)

IInv ==
    /\ TypeOK
    /\ LaunchesInTurn
    /\ RestartsFollowLosses
    /\ BeginsClean
    /\ OneConnection
    /\ ListenersInTurn
    /\ TableBetween
    /\ TunnelsRecorded
    /\ ServedOnce

=============================================================================
