----------------------------- MODULE MCOldPrograms -----------------------------
(* Two small instances side by side, one of which moves: a tunnel of the     *)
(* older programs, or the server of vnc2xmpp, which relaunches itself.       *)
EXTENDS LegacyTunnel, Relaunch

CONSTANTS u, v

TwoThreads == {u, v}
TwoUp      == [e \in End |-> IF e = "client" THEN 2 ELSE 1]

VARIABLE part   \* "tunnel" or "server"

\* Nothing runs, and nothing will.
NoTunnel ==
    /\ program = "vnc2xmpp" /\ viewer = "waits" /\ dispatch = "new" /\ missed = {}
    /\ app = [e \in End |-> "open"] /\ up = [e \in End |-> FALSE]
    /\ t1 = [e \in End |-> "none"] /\ t2 = t1 /\ tun = [e \in End |-> "absent"]
    /\ got = [e \in End |-> 0] /\ sequence = got /\ last = [e \in End |-> NoSequence]
    /\ written = [e \in End |-> <<>>] /\ chan = written /\ inbox = written
    /\ outShut = [e \in End |-> FALSE]

NoServer ==
    /\ pc = [l \in Launches |-> "ended"] /\ link = [l \in Launches |-> "none"]
    /\ restart = link /\ con = 0
    /\ threadIds = {} /\ tunnels = {} /\ told = {} /\ stray = {} /\ twice = {}
    /\ queue = [l \in Launches |-> <<>>] /\ packet = queue /\ work = queue
    /\ sent = [t \in Threads |-> 0]

MCInit ==
    \/ part = "tunnel" /\ Init /\ NoServer
    \/ part = "server" /\ NoTunnel /\ RelaunchInit

MCNext ==
    \/ part = "tunnel" /\ Next /\ UNCHANGED <<part, rvars>>
    \/ part = "server" /\ RelaunchNext /\ UNCHANGED <<part, vars, program, viewer>>

MCSpec ==
    /\ MCInit /\ [][MCNext]_<<part, vars, program, viewer, rvars>>
    /\ Fairness /\ RelaunchFairness
===============================================================================
