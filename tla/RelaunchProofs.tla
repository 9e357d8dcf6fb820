---------------------------- MODULE RelaunchProofs ----------------------------
(***************************************************************************)
(* Proofs that IInv is an invariant of Relaunch, for any threads, any      *)
(* number of messages and of lost connections.  Each action has a lemma;   *)
(* its last step gathers the parts of IInv that the action leaves alone.   *)
(***************************************************************************)
EXTENDS RelaunchInv, TLAPS

-----------------------------------------------------------------------------
(* Connections, hands and queues *)

\* No connection is up between a clean-up and the next connection, and one
\* launch is there at most.
LEMMA NobodyUp ==
    ASSUME IInv, Between
    PROVE  \A m \in Launches : ~Up(m)
<1>1. PICK l \in Launches : pc[l] = "dial" \/ restart[l] = "asleep"
  BY DEF Between
<1> SUFFICES ASSUME NEW m \in Launches
             PROVE  ~Up(m)
  OBVIOUS
<1>2. CASE pc[l] = "dial"
  BY <1>2, LossesAssumption DEF IInv, LaunchesInTurn, BeginsClean, NotBegun, Over,
     Up, Launches
<1>3. CASE restart[l] = "asleep"
  BY <1>3, LossesAssumption DEF IInv, LaunchesInTurn, RestartsFollowLosses,
     BeginsClean, NotBegun, Over, Up, Launches
<1>4. QED
  BY <1>1, <1>2, <1>3

\* Whoever has a connection is the last launch.
LEMMA LastIsUp ==
    ASSUME IInv, NEW l \in Launches, Up(l)
    PROVE  \A m \in Launches : m > l => pc[m] = "none"
  BY LossesAssumption DEF IInv, LaunchesInTurn, Over, Up, Launches

\* A hand that is not empty holds one thread id.
LEMMA InHand ==
    ASSUME NEW h \in OneThread, h # <<>>
    PROVE  Head(h) \in Threads /\ h = <<Head(h)>>
  BY DEF OneThread

\* Only the same thread id is the same hand.
LEMMA SameThread ==
    ASSUME NEW a, NEW b, <<a>> = <<b>>
    PROVE  a = b
  OBVIOUS

\* The front of a queue and the rest.
LEMMA QueueFacts ==
    ASSUME NEW q \in Seq(Threads), q # <<>>
    PROVE  Head(q) \in Threads /\ Tail(q) \in Seq(Threads)
  OBVIOUS

-----------------------------------------------------------------------------
(* One lemma for each action *)

\* No connection is up while main tries to connect, and no relaunch is due.
LEMMA NothingAnswersStep ==
    ASSUME IInv, NEW l \in Launches, NothingAnswers(l)
    PROVE  IInv'
<1>1. TypeOK'
  BY DEF IInv, TypeOK, OneThread, Tunnels, NothingAnswers, listenerVars
<1>2. RestartsFollowLosses'
  <2>1. UNCHANGED <<pc, link, restart>> /\ pc[l] = "dial"
    BY DEF NothingAnswers
  <2>2. ASSUME NEW m \in Launches, restart[m] # "none"
        PROVE  FALSE
    <3>1. pc[m] = "serving" /\ m + 1 \in Launches /\ pc[m + 1] = "none"
      BY <2>2 DEF IInv, RestartsFollowLosses
    <3>2. m # l /\ ~(m < l)
      BY <2>1, <2>2, <3>1 DEF IInv, LaunchesInTurn
    <3>3. l < m
      BY <3>2, LossesAssumption DEF Launches
    <3>4. QED
      BY <2>1, <3>1, <3>3 DEF IInv, LaunchesInTurn
  <2>3. QED
    BY <2>1, <2>2 DEF RestartsFollowLosses
<1>3. BeginsClean'
  BY LossesAssumption DEF IInv, BeginsClean, NotBegun, Idle, NothingAnswers,
     listenerVars, Launches
<1>4. OneConnection'
  BY NobodyUp DEF IInv, OneConnection, Between, Up, NothingAnswers
<1>5. ServedOnce'
  BY DEF IInv, ServedOnce, TableBetween, Between, AtWork, NothingAnswers, listenerVars
<1>6. LaunchesInTurn' /\ ListenersInTurn' /\ TableBetween' /\ TunnelsRecorded'
  BY DEF IInv, LaunchesInTurn, ListenersInTurn, TableBetween, TunnelsRecorded, Over,
     Up, Hears, Idle, Between, AtWork, NothingAnswers, listenerVars
<1>7. QED
  BY <1>1, <1>2, <1>3, <1>4, <1>5, <1>6 DEF IInv

\* The connection is new: nothing was handled for it.
LEMMA ConnectsStep ==
    ASSUME IInv, NEW l \in Launches, Connects(l)
    PROVE  IInv'
<1>1. TypeOK'
  BY DEF IInv, TypeOK, OneThread, Tunnels, Connects, Goes, listenerVars
<1>2. LaunchesInTurn'
  BY LossesAssumption DEF IInv, LaunchesInTurn, Over, RestartsFollowLosses,
     BeginsClean, TypeOK, Connects, Goes, listenerVars, Launches
<1>3. RestartsFollowLosses'
  BY LossesAssumption DEF IInv, RestartsFollowLosses, LaunchesInTurn, BeginsClean,
     NotBegun, Over, TypeOK, Connects, Goes, Launches
<1>4. BeginsClean'
  BY DEF IInv, BeginsClean, NotBegun, Idle, TypeOK, Connects, Goes, listenerVars
<1>5. OneConnection'
  BY NobodyUp DEF IInv, OneConnection, Between, Up, TypeOK, Connects, Goes
<1>6. ListenersInTurn'
  BY DEF IInv, ListenersInTurn, BeginsClean, NotBegun, Up, Hears, Idle, TypeOK,
     Connects, Goes, listenerVars
<1>7. TableBetween'
  BY DEF IInv, TableBetween, Between, AtWork, TypeOK, Connects, Goes, listenerVars
<1>8. TunnelsRecorded'
  <2>1. ASSUME NEW m \in Launches, NEW t \in Threads, Up(m)'
        PROVE  /\ work'[m] = <<t>> => t \in threadIds'
               /\ [thread |-> t, on |-> m] \in tunnels'
                    => t \in stray' \/ (t \in threadIds' /\ work'[m] # <<t>>)
    <3>1. UNCHANGED <<work, threadIds, tunnels, stray>>
      BY DEF Connects, listenerVars
    <3>2. CASE m = l
      <4>1. work[l] = <<>> /\ [thread |-> t, on |-> l] \notin tunnels
        BY DEF Connects, IInv, BeginsClean, NotBegun, Idle
      <4>2. QED
        BY <3>1, <3>2, <4>1
    <3>3. CASE m # l
      <4>1. Up(m)
        BY <2>1, <3>3 DEF Connects, Up, IInv, TypeOK
      <4>2. QED
        BY <3>1, <4>1 DEF IInv, TunnelsRecorded
    <3>4. QED
      BY <3>2, <3>3
  <2>2. QED
    BY <2>1 DEF TunnelsRecorded
<1>9. ServedOnce'
  BY DEF IInv, ServedOnce, TableBetween, Between, AtWork, Connects, Goes, listenerVars
<1>10. QED
  BY <1>1, <1>2, <1>3, <1>4, <1>5, <1>6, <1>7, <1>8, <1>9 DEF IInv

LEMMA ConnectThrowsStep ==
    ASSUME IInv, NEW l \in Launches, ConnectThrows(l)
    PROVE  IInv'
<1>1. TypeOK'
  BY DEF IInv, TypeOK, OneThread, Tunnels, ConnectThrows, Goes, listenerVars
<1>2. LaunchesInTurn'
  BY LossesAssumption DEF IInv, LaunchesInTurn, Over, RestartsFollowLosses,
     BeginsClean, TypeOK, ConnectThrows, Goes, listenerVars, Launches
<1>3. RestartsFollowLosses'
  BY LossesAssumption DEF IInv, RestartsFollowLosses, Over, LaunchesInTurn,
     BeginsClean, OneConnection, TypeOK, ConnectThrows, Goes, listenerVars, Launches
<1>4. BeginsClean'
  BY DEF IInv, BeginsClean, NotBegun, Idle, TypeOK, ConnectThrows, Goes, listenerVars
<1>5. ListenersInTurn'
  BY DEF IInv, ListenersInTurn, Up, Hears, Idle, BeginsClean, TypeOK, ConnectThrows,
     Goes, listenerVars
<1>6. TableBetween'
  BY DEF IInv, TableBetween, Between, AtWork, TypeOK, ConnectThrows, Goes, listenerVars
<1>7. OneConnection' /\ TunnelsRecorded' /\ ServedOnce'
  BY DEF IInv, OneConnection, TunnelsRecorded, ServedOnce, Up, Over, NotBegun,
     ConnectThrows, Goes, listenerVars
<1>8. QED
  BY <1>1, <1>2, <1>3, <1>4, <1>5, <1>6, <1>7 DEF IInv

\* Listen and Watch: main sets the connection up while it is there.
LEMMA SetUpStep ==
    ASSUME IInv, NEW l \in Launches,
           NEW now \in {"login", "listen", "watch"}, NEW next \in {"listen", "watch", "serving"},
           now = "watch" => next = "serving",
           SetUp(l, now, next)
    PROVE  IInv'
<1>1. TypeOK'
  BY DEF IInv, TypeOK, OneThread, Tunnels, SetUp, Goes, listenerVars
<1>2. LaunchesInTurn'
  BY LossesAssumption DEF IInv, LaunchesInTurn, Over, RestartsFollowLosses,
     BeginsClean, TypeOK, SetUp, Goes, listenerVars, Launches
<1>3. RestartsFollowLosses'
  BY LossesAssumption DEF IInv, RestartsFollowLosses, Over, LaunchesInTurn,
     BeginsClean, OneConnection, TypeOK, SetUp, Goes, listenerVars, Launches
<1>4. BeginsClean'
  BY DEF IInv, BeginsClean, NotBegun, Idle, TypeOK, SetUp, Goes, listenerVars
<1>5. ListenersInTurn'
  BY DEF IInv, ListenersInTurn, Up, Hears, Idle, BeginsClean, TypeOK, SetUp, Goes,
     listenerVars
<1>6. TableBetween'
  BY DEF IInv, TableBetween, Between, AtWork, TypeOK, SetUp, Goes, listenerVars
<1>7. OneConnection' /\ TunnelsRecorded' /\ ServedOnce'
  BY DEF IInv, OneConnection, TunnelsRecorded, ServedOnce, Up, Over, NotBegun, SetUp,
     Goes, listenerVars
<1>8. QED
  BY <1>1, <1>2, <1>3, <1>4, <1>5, <1>6, <1>7 DEF IInv

LEMMA SetUpThrowsStep ==
    ASSUME IInv, NEW l \in Launches, SetUpThrows(l)
    PROVE  IInv'
<1>1. TypeOK'
  BY DEF IInv, TypeOK, OneThread, Tunnels, SetUpThrows, Goes, listenerVars
<1>2. LaunchesInTurn'
  BY LossesAssumption DEF IInv, LaunchesInTurn, Over, RestartsFollowLosses,
     BeginsClean, TypeOK, SetUpThrows, Goes, listenerVars, Launches
<1>3. RestartsFollowLosses'
  BY LossesAssumption DEF IInv, RestartsFollowLosses, Over, LaunchesInTurn,
     BeginsClean, OneConnection, TypeOK, SetUpThrows, Goes, listenerVars, Launches
<1>4. BeginsClean'
  BY DEF IInv, BeginsClean, NotBegun, Idle, TypeOK, SetUpThrows, Goes, listenerVars
<1>5. ListenersInTurn'
  BY DEF IInv, ListenersInTurn, Up, Hears, Idle, BeginsClean, TypeOK, SetUpThrows,
     Goes, listenerVars
<1>6. TableBetween'
  BY DEF IInv, TableBetween, Between, AtWork, TypeOK, SetUpThrows, Goes, listenerVars
<1>7. OneConnection' /\ TunnelsRecorded' /\ ServedOnce'
  BY DEF IInv, OneConnection, TunnelsRecorded, ServedOnce, Up, Over, NotBegun,
     SetUpThrows, Goes, listenerVars
<1>8. QED
  BY <1>1, <1>2, <1>3, <1>4, <1>5, <1>6, <1>7 DEF IInv

\* The table is cleared for the connection of the static, which is down.
LEMMA CleanUpStep ==
    ASSUME IInv, NEW l \in Launches, CleanUp(l)
    PROVE  IInv'
<1>1. TypeOK'
  BY DEF IInv, TypeOK, OneThread, Tunnels, CleanUp
<1>2. LaunchesInTurn'
  BY LossesAssumption DEF IInv, LaunchesInTurn, Over, RestartsFollowLosses,
     BeginsClean, TypeOK, CleanUp, Launches
<1>3. RestartsFollowLosses'
  BY LossesAssumption DEF IInv, RestartsFollowLosses, Over, LaunchesInTurn,
     BeginsClean, OneConnection, TypeOK, CleanUp, Launches
<1>4. BeginsClean'
  BY DEF IInv, BeginsClean, NotBegun, Idle, TypeOK, CleanUp
<1>5. OneConnection'
  BY DEF IInv, OneConnection, Up, Over, NotBegun, LaunchesInTurn, BeginsClean,
     TypeOK, CleanUp
<1>6. ListenersInTurn'
  BY DEF IInv, ListenersInTurn, RestartsFollowLosses, Over, Up, Hears, Idle, TypeOK,
     CleanUp
<1>7. TableBetween'
  BY DEF IInv, TableBetween, Between, AtWork, TypeOK, CleanUp
<1>8. TunnelsRecorded'
  BY DEF IInv, TunnelsRecorded, Up, BeginsClean, OneConnection, TypeOK, CleanUp
<1>9. ServedOnce'
  BY DEF IInv, ServedOnce, Up, TypeOK, CleanUp
<1>10. QED
  BY <1>1, <1>2, <1>3, <1>4, <1>5, <1>6, <1>7, <1>8, <1>9 DEF IInv

\* The next launch is the first to begin after this one.
LEMMA LaunchAgainStep ==
    ASSUME IInv, NEW l \in Launches, LaunchAgain(l)
    PROVE  IInv'
<1>1. TypeOK'
  BY DEF IInv, TypeOK, OneThread, Tunnels, LaunchAgain, Goes, listenerVars
<1>2. LaunchesInTurn'
  BY LossesAssumption DEF IInv, LaunchesInTurn, Over, RestartsFollowLosses,
     BeginsClean, TypeOK, LaunchAgain, Goes, listenerVars, Launches
<1>3. RestartsFollowLosses'
  BY LossesAssumption DEF IInv, RestartsFollowLosses, Over, LaunchesInTurn,
     BeginsClean, OneConnection, TypeOK, LaunchAgain, Goes, listenerVars, Launches
<1>4. BeginsClean'
  BY DEF IInv, BeginsClean, NotBegun, Idle, RestartsFollowLosses, TypeOK,
     LaunchAgain, Goes, listenerVars
<1>5. ListenersInTurn'
  BY DEF IInv, ListenersInTurn, RestartsFollowLosses, Over, Up, Hears, Idle, TypeOK,
     LaunchAgain, Goes, listenerVars
<1>6. TableBetween'
  BY DEF IInv, TableBetween, Between, AtWork, TypeOK, LaunchAgain, Goes, listenerVars
<1>7. OneConnection' /\ TunnelsRecorded' /\ ServedOnce'
  BY DEF IInv, OneConnection, TunnelsRecorded, ServedOnce, Up, Over, NotBegun,
     LaunchAgain, Goes, listenerVars
<1>8. QED
  BY <1>1, <1>2, <1>3, <1>4, <1>5, <1>6, <1>7 DEF IInv

LEMMA ReceiveStep ==
    ASSUME IInv, NEW l \in Launches, ProcessPacket(l)
    PROVE  IInv'
<1>1. TypeOK'
  BY QueueFacts DEF IInv, TypeOK, OneThread, ProcessPacket, mainVars
<1>2. BeginsClean'
  BY DEF IInv, BeginsClean, NotBegun, Idle, TypeOK, ProcessPacket, mainVars
<1>3. ListenersInTurn'
  BY DEF IInv, ListenersInTurn, Up, Hears, Idle, BeginsClean, TypeOK, ProcessPacket, mainVars
<1>4. LaunchesInTurn' /\ RestartsFollowLosses' /\ OneConnection' /\ TableBetween' /\ TunnelsRecorded' /\ ServedOnce'
  BY DEF IInv, LaunchesInTurn, RestartsFollowLosses, OneConnection, TableBetween,
     TunnelsRecorded, ServedOnce, Over, Up, NotBegun, Between, AtWork, ProcessPacket, mainVars
<1>5. QED
  BY <1>1, <1>2, <1>3, <1>4 DEF IInv

\* A thread id is put in the table together with the work on it.
LEMMA TakeStep ==
    ASSUME IInv, NEW l \in Launches, Take(l)
    PROVE  IInv'
<1> DEFINE t == Head(packet[l])
<1>a. t \in Threads /\ packet[l] = <<t>> /\ work[l] = <<>>
  BY InHand DEF IInv, TypeOK, ListenersInTurn, Take
<1>b. /\ packet' = [packet EXCEPT ![l] = <<>>]
      /\ \/ t \in threadIds /\ threadIds' = threadIds /\ work' = work
         \/ /\ t \notin threadIds /\ threadIds' = threadIds \cup {t}
            /\ work' = [work EXCEPT ![l] = <<t>>]
      /\ UNCHANGED <<pc, link, con, restart, queue, tunnels, twice, told, stray, sent>>
  BY DEF Take, mainVars
<1>c. \A m \in Launches : work[m] # <<>> => work'[m] = work[m]
  BY <1>a, <1>b DEF IInv, TypeOK
<1>d. t \in threadIds \/ work'[l] = <<t>>
  BY <1>b DEF IInv, TypeOK
<1>e. \A i \in Threads : AtWork(i) => \E m \in Launches : work'[m] = <<i>>
  BY <1>c DEF AtWork
<1>f. \A m \in Launches : work'[m] = work[m] \/ (m = l /\ t \notin threadIds /\ work'[m] = <<t>>)
  BY <1>b DEF IInv, TypeOK
<1>g. \A i \in threadIds' : i \in threadIds \/ (i = t /\ t \notin threadIds)
  BY <1>b
<1>h. threadIds \subseteq Threads /\ threadIds \subseteq threadIds' /\ t \in threadIds'
  BY <1>b DEF IInv, TypeOK
<1> HIDE DEF t
<1>1. TypeOK'
  BY <1>a, <1>b DEF IInv, TypeOK, OneThread
<1>2. BeginsClean'
  BY DEF IInv, BeginsClean, NotBegun, Idle, TypeOK, Take, mainVars
<1>3. ListenersInTurn'
  BY DEF IInv, ListenersInTurn, Up, Hears, Idle, BeginsClean, TypeOK, Take, mainVars
<1>4. TableBetween'
  BY <1>b, <1>d, <1>e, <1>g, <1>h DEF IInv, TableBetween, Between, AtWork
<1>5. TunnelsRecorded'
  <2>1. ASSUME NEW m \in Launches, NEW u \in Threads, Up(m)
        PROVE  /\ work'[m] = <<u>> => u \in threadIds'
               /\ [thread |-> u, on |-> m] \in tunnels
                    => u \in stray \/ (u \in threadIds' /\ work'[m] # <<u>>)
    <3>1. CASE work'[m] = work[m]
      BY <1>h, <2>1, <3>1 DEF IInv, TunnelsRecorded
    <3>2. CASE m = l /\ t \notin threadIds /\ work'[m] = <<t>>
      <4>1. work'[m] = <<u>> => u = t
        BY <1>a, <3>2, SameThread
      <4>2. QED
        BY <1>h, <2>1, <3>2, <4>1 DEF IInv, TunnelsRecorded
    <3>3. QED
      BY <1>f, <3>1, <3>2
  <2>2. QED
    BY <1>b, <2>1 DEF TunnelsRecorded, Up
<1>6. ServedOnce'
  BY <1>b, <1>d, <1>e, <1>g, <1>h DEF IInv, ServedOnce, AtWork
<1>7. LaunchesInTurn' /\ RestartsFollowLosses' /\ OneConnection'
  BY DEF IInv, LaunchesInTurn, RestartsFollowLosses, OneConnection, Over, Up,
     NotBegun, Take, mainVars
<1>8. QED
  BY <1>1, <1>2, <1>3, <1>4, <1>5, <1>6, <1>7 DEF IInv

\* The tunnel is on the connection of this listener, or this listener's
\* connection was lost.
LEMMA OpenTunnelStep ==
    ASSUME IInv, NEW l \in Launches, OpenTunnel(l)
    PROVE  IInv'
<1> DEFINE t == Head(work[l])
<1>a. t \in Threads /\ work[l] = <<t>>
  BY InHand DEF IInv, TypeOK, OpenTunnel, Done
<1>b. /\ work' = [work EXCEPT ![l] = <<>>]
      /\ stray' = IF Up(l) THEN stray ELSE stray \cup {t}
      /\ told' = told
      /\ con = 0 => tunnels' = tunnels
      /\ con # 0 => tunnels' = tunnels \cup {[thread |-> t, on |-> con]}
      /\ twice' = IF [thread |-> t, on |-> con] \in tunnels THEN twice \cup {t} ELSE twice
      /\ UNCHANGED <<pc, link, con, restart, threadIds, queue, packet, sent>>
  BY DEF OpenTunnel, Done, mainVars
<1> HIDE DEF t
<1>1. TypeOK'
  BY <1>a, <1>b DEF IInv, TypeOK, OneThread, Tunnels
<1>2. BeginsClean'
  BY DEF IInv, BeginsClean, NotBegun, Idle, TypeOK, OpenTunnel, Done, mainVars
<1>3. ListenersInTurn'
  BY DEF IInv, ListenersInTurn, Up, Hears, Idle, BeginsClean, TypeOK, OpenTunnel,
     Done, mainVars
<1>4. TableBetween'
  <2> SUFFICES ASSUME Between, NEW i \in threadIds
                PROVE  AtWork(i)' \/ i \in stray'
    BY <1>b DEF TableBetween, Between
  <2>1. ~Up(l)
    BY NobodyUp
  <2>2. CASE i = t
    BY <1>b, <2>1, <2>2
  <2>3. CASE i # t
    <3>1. CASE i \in stray
      BY <1>b, <3>1
    <3>2. CASE AtWork(i)
      <4>1. PICK m \in Launches : work[m] = <<i>>
        BY <3>2 DEF AtWork
      <4>2. m # l
        BY <1>a, <2>3, <4>1, SameThread
      <4>3. work'[m] = <<i>>
        BY <1>b, <4>1, <4>2 DEF IInv, TypeOK
      <4>4. QED
        BY <4>3 DEF AtWork
    <3>3. QED
      BY <3>1, <3>2 DEF IInv, TableBetween
  <2>4. QED
    BY <2>2, <2>3
<1>5. TunnelsRecorded'
  <2>1. ASSUME NEW m \in Launches, NEW u \in Threads, Up(m)
        PROVE  /\ work'[m] = <<u>> => u \in threadIds
               /\ [thread |-> u, on |-> m] \in tunnels'
                    => u \in stray' \/ (u \in threadIds /\ work'[m] # <<u>>)
    <3>1. con = m
      BY <2>1 DEF IInv, OneConnection
    <3>2. m # l => work'[m] = work[m]
      BY <1>b DEF IInv, TypeOK
    <3>3. work'[l] = <<>>
      BY <1>b DEF IInv, TypeOK
    <3>4. CASE m = l
      <4>1. t \in threadIds
        BY <1>a, <2>1, <3>4 DEF IInv, TunnelsRecorded
      <4>2. [thread |-> u, on |-> m] \in tunnels' => u = t \/ [thread |-> u, on |-> m] \in tunnels
        BY <1>b
      <4>3. QED
        BY SMTT(30), <1>b, <2>1, <3>3, <3>4, <4>1, <4>2 DEF IInv, TunnelsRecorded
    <3>5. CASE m # l
      <4>1. stray' = stray \cup {t}
        BY <1>b, <2>1, <3>1, <3>5 DEF IInv, OneConnection
      <4>2. [thread |-> u, on |-> m] \in tunnels' => u = t \/ [thread |-> u, on |-> m] \in tunnels
        BY <1>b
      <4>3. QED
        BY <2>1, <3>2, <3>5, <4>1, <4>2 DEF IInv, TunnelsRecorded
    <3>6. QED
      BY <3>4, <3>5
  <2>2. QED
    BY <1>b, <2>1 DEF TunnelsRecorded, Up
<1>6. ServedOnce'
  <2>1. twice' \subseteq stray'
    <3>1. CASE Up(l)
      <4>1. con = l
        BY <3>1 DEF IInv, OneConnection
      <4>2. [thread |-> t, on |-> l] \in tunnels => t \in stray
        BY <1>a, <3>1 DEF IInv, TunnelsRecorded
      <4>3. QED
        BY <1>b, <3>1, <4>1, <4>2 DEF IInv, ServedOnce
    <3>2. CASE ~Up(l)
      BY <1>b, <3>2 DEF IInv, ServedOnce
    <3>3. QED
      BY <3>1, <3>2
  <2>2. ASSUME NEW i \in threadIds
        PROVE  \/ \E m \in Launches : work'[m] = <<i>>
               \/ [thread |-> i, on |-> con] \in tunnels'
               \/ i \in told'
               \/ i \in stray'
    <3>1. CASE i = t
      <4>1. CASE ~Up(l)
        BY <1>b, <3>1, <4>1
      <4>2. CASE Up(l)
        <5>1. con = l /\ con # 0
          BY <4>2, LossesAssumption DEF IInv, OneConnection, Launches
        <5>2. QED
          BY <1>b, <3>1, <5>1
      <4>3. QED
        BY <4>1, <4>2
    <3>2. CASE i # t
      <4>1. CASE \E m \in Launches : work[m] = <<i>>
        <5>1. PICK m \in Launches : work[m] = <<i>>
          BY <4>1
        <5>2. m # l
          BY <1>a, <3>2, <5>1, SameThread
        <5>3. work'[m] = <<i>>
          BY <1>b, <5>1, <5>2 DEF IInv, TypeOK
        <5>4. QED
          BY <5>3
      <4>2. CASE ~ \E m \in Launches : work[m] = <<i>>
        BY <1>b, <4>2 DEF IInv, ServedOnce
      <4>3. QED
        BY <4>1, <4>2
    <3>3. QED
      BY <3>1, <3>2
  <2>3. QED
    BY <1>b, <2>1, <2>2 DEF ServedOnce
<1>7. LaunchesInTurn' /\ RestartsFollowLosses' /\ OneConnection'
  BY DEF IInv, LaunchesInTurn, RestartsFollowLosses, OneConnection, Over, Up,
     NotBegun, OpenTunnel, Done, mainVars
<1>8. QED
  BY <1>1, <1>2, <1>3, <1>4, <1>5, <1>6, <1>7 DEF IInv

\* The sender is told over the connection of this listener, or this
\* listener's connection was lost.
LEMMA RefuseTunnelStep ==
    ASSUME IInv, NEW l \in Launches, RefuseTunnel(l)
    PROVE  IInv'
<1> DEFINE t == Head(work[l])
<1>a. t \in Threads /\ work[l] = <<t>>
  BY InHand DEF IInv, TypeOK, RefuseTunnel, Done
<1>b. /\ work' = [work EXCEPT ![l] = <<>>]
      /\ stray' = IF Up(l) THEN stray ELSE stray \cup {t}
      /\ told' = IF con # 0 /\ Up(con) /\ pc[con] \in {"listen", "watch", "serving"}
                 THEN told \cup {t} ELSE told
      /\ tunnels' = tunnels /\ twice' = twice
      /\ UNCHANGED <<pc, link, con, restart, threadIds, queue, packet, sent>>
  BY DEF RefuseTunnel, Done, mainVars
<1> HIDE DEF t
<1>1. TypeOK'
  BY <1>a, <1>b DEF IInv, TypeOK, OneThread, Tunnels
<1>2. BeginsClean'
  BY DEF IInv, BeginsClean, NotBegun, Idle, TypeOK, RefuseTunnel, Done, mainVars
<1>3. ListenersInTurn'
  BY DEF IInv, ListenersInTurn, Up, Hears, Idle, BeginsClean, TypeOK, RefuseTunnel,
     Done, mainVars
<1>4. TableBetween'
  <2> SUFFICES ASSUME Between, NEW i \in threadIds
                PROVE  AtWork(i)' \/ i \in stray'
    BY <1>b DEF TableBetween, Between
  <2>1. ~Up(l)
    BY NobodyUp
  <2>2. CASE i = t
    BY <1>b, <2>1, <2>2
  <2>3. CASE i # t
    <3>1. CASE i \in stray
      BY <1>b, <3>1
    <3>2. CASE AtWork(i)
      <4>1. PICK m \in Launches : work[m] = <<i>>
        BY <3>2 DEF AtWork
      <4>2. m # l
        BY <1>a, <2>3, <4>1, SameThread
      <4>3. work'[m] = <<i>>
        BY <1>b, <4>1, <4>2 DEF IInv, TypeOK
      <4>4. QED
        BY <4>3 DEF AtWork
    <3>3. QED
      BY <3>1, <3>2 DEF IInv, TableBetween
  <2>4. QED
    BY <2>2, <2>3
<1>5. TunnelsRecorded'
  BY <1>a, <1>b DEF IInv, TypeOK, TunnelsRecorded, OneConnection, Up
<1>6. ServedOnce'
  <2>1. twice' \subseteq stray'
    BY <1>b DEF IInv, ServedOnce
  <2>2. ASSUME NEW i \in threadIds
        PROVE  \/ \E m \in Launches : work'[m] = <<i>>
               \/ [thread |-> i, on |-> con] \in tunnels'
               \/ i \in told'
               \/ i \in stray'
    <3>1. CASE i = t
      <4>1. CASE ~Up(l)
        BY <1>b, <3>1, <4>1
      <4>2. CASE Up(l)
        <5>1. con = l /\ con # 0
          BY <4>2, LossesAssumption DEF IInv, OneConnection, Launches
        <5>2. pc[l] \in {"watch", "serving"}
          BY <1>a, <4>2 DEF IInv, ListenersInTurn, Idle, Hears
        <5>3. QED
          BY <1>b, <3>1, <4>2, <5>1, <5>2
      <4>3. QED
        BY <4>1, <4>2
    <3>2. CASE i # t
      <4>1. CASE \E m \in Launches : work[m] = <<i>>
        <5>1. PICK m \in Launches : work[m] = <<i>>
          BY <4>1
        <5>2. m # l
          BY <1>a, <3>2, <5>1, SameThread
        <5>3. work'[m] = <<i>>
          BY <1>b, <5>1, <5>2 DEF IInv, TypeOK
        <5>4. QED
          BY <5>3
      <4>2. CASE ~ \E m \in Launches : work[m] = <<i>>
        BY <1>b, <4>2 DEF IInv, ServedOnce
      <4>3. QED
        BY <4>1, <4>2
    <3>3. QED
      BY <3>1, <3>2
  <2>3. QED
    BY <1>b, <2>1, <2>2 DEF ServedOnce
<1>7. LaunchesInTurn' /\ RestartsFollowLosses' /\ OneConnection'
  BY DEF IInv, LaunchesInTurn, RestartsFollowLosses, OneConnection, Over, Up,
     NotBegun, RefuseTunnel, Done, mainVars
<1>8. QED
  BY <1>1, <1>2, <1>3, <1>4, <1>5, <1>6, <1>7 DEF IInv

\* What was lost was the connection of the last launch.
LEMMA LoseStep ==
    ASSUME IInv, NEW l \in Launches, Lose(l)
    PROVE  IInv'
<1>1. TypeOK'
  BY DEF IInv, TypeOK, OneThread, Tunnels, Lose
<1>2. LaunchesInTurn'
  BY LossesAssumption, LastIsUp DEF IInv, LaunchesInTurn, Over, TypeOK, Lose, Up,
     Launches
<1>3. RestartsFollowLosses'
  BY LossesAssumption, LastIsUp DEF IInv, RestartsFollowLosses, OneConnection, Over,
     TypeOK, Lose, Up, Launches
<1>4. BeginsClean'
  BY DEF IInv, BeginsClean, NotBegun, Idle, TypeOK, Lose, Up
<1>5. OneConnection'
  BY DEF IInv, OneConnection, Up, Over, NotBegun, LaunchesInTurn, BeginsClean,
     TypeOK, Lose
<1>6. ListenersInTurn'
  BY DEF IInv, ListenersInTurn, Up, Hears, Idle, BeginsClean, TypeOK, Lose
<1>7. TableBetween'
  BY DEF IInv, TableBetween, Between, AtWork, TypeOK, Lose
<1>8. TunnelsRecorded'
  BY DEF IInv, TunnelsRecorded, Up, BeginsClean, OneConnection, TypeOK, Lose
<1>9. ServedOnce'
  BY DEF IInv, ServedOnce, Up, Lose
<1>10. QED
  BY <1>1, <1>2, <1>3, <1>4, <1>5, <1>6, <1>7, <1>8, <1>9 DEF IInv

LEMMA ArriveStep ==
    ASSUME IInv, NEW l \in Launches, NEW u \in Threads, Comes(l, u)
    PROVE  IInv'
<1>1. TypeOK'
  BY DEF IInv, TypeOK, OneThread, Tunnels, Comes, mainVars
<1>2. BeginsClean'
  BY DEF IInv, BeginsClean, NotBegun, Idle, TypeOK, Comes, Up, Hears, mainVars
<1>3. ListenersInTurn'
  BY DEF IInv, ListenersInTurn, Up, Hears, Idle, BeginsClean, TypeOK, Comes, mainVars
<1>4. LaunchesInTurn' /\ RestartsFollowLosses' /\ OneConnection' /\ TableBetween' /\ TunnelsRecorded' /\ ServedOnce'
  BY DEF IInv, LaunchesInTurn, RestartsFollowLosses, OneConnection, TableBetween,
     TunnelsRecorded, ServedOnce, Over, Up, NotBegun, Between, AtWork, Comes, mainVars
<1>5. QED
  BY <1>1, <1>2, <1>3, <1>4 DEF IInv

-----------------------------------------------------------------------------
(* Theorems *)

LEMMA IInvInit == RelaunchInit => IInv
<1> SUFFICES ASSUME RelaunchInit
             PROVE  IInv
  OBVIOUS
<1>1. TypeOK
  BY LossesAssumption DEF RelaunchInit, TypeOK, OneThread, Launches
<1>2. LaunchesInTurn
  BY LossesAssumption DEF RelaunchInit, LaunchesInTurn, Launches
<1>3. RestartsFollowLosses /\ BeginsClean /\ OneConnection /\ ListenersInTurn
  BY LossesAssumption DEF RelaunchInit, RestartsFollowLosses, BeginsClean, OneConnection,
     ListenersInTurn, Idle, Up, Launches
<1>4. TableBetween /\ TunnelsRecorded /\ ServedOnce
  BY DEF RelaunchInit, TableBetween, TunnelsRecorded, ServedOnce, Up
<1>5. QED
  BY <1>1, <1>2, <1>3, <1>4 DEF IInv

LEMMA IInvStep == IInv /\ [RelaunchNext]_rvars => IInv'
<1> SUFFICES ASSUME IInv, [RelaunchNext]_rvars
             PROVE  IInv'
  OBVIOUS
<1>1. ASSUME NEW l \in Launches, NothingAnswers(l) \/ Connects(l) \/ ConnectThrows(l)
      PROVE  IInv'
  BY <1>1, NothingAnswersStep, ConnectsStep, ConnectThrowsStep
<1>2. ASSUME NEW l \in Launches, Main(l)
      PROVE  IInv'
  BY <1>2, SetUpStep, SetUpThrowsStep DEF Main, Login, Listen, Watch
<1>3. ASSUME NEW l \in Launches, Restart(l)
      PROVE  IInv'
  BY <1>3, CleanUpStep, LaunchAgainStep DEF Restart
<1>4. ASSUME NEW l \in Launches, Handle(l)
      PROVE  IInv'
  BY <1>4, ReceiveStep, TakeStep, OpenTunnelStep, RefuseTunnelStep DEF Handle
<1>5. ASSUME NEW l \in Launches, Lose(l)
      PROVE  IInv'
  BY <1>5, LoseStep
<1>6. ASSUME NEW l \in Launches, NEW t \in Threads, Comes(l, t)
      PROVE  IInv'
  BY <1>6, ArriveStep
<1>7. CASE UNCHANGED rvars
  <2>1. TypeOK'
    BY <1>7 DEF IInv, TypeOK, OneThread, Tunnels, rvars
  <2>2. LaunchesInTurn' /\ RestartsFollowLosses' /\ BeginsClean'
    BY <1>7 DEF IInv, LaunchesInTurn, RestartsFollowLosses, BeginsClean, NotBegun,
       Over, Idle, rvars
  <2>3. OneConnection' /\ ListenersInTurn'
    BY <1>7 DEF IInv, OneConnection, ListenersInTurn, Idle, Up, Hears, rvars
  <2>4. TableBetween' /\ TunnelsRecorded' /\ ServedOnce'
    BY <1>7 DEF IInv, TableBetween, TunnelsRecorded, ServedOnce, Between, AtWork, Up,
       rvars
  <2>5. QED
    BY <2>1, <2>2, <2>3, <2>4 DEF IInv
<1>8. QED
  BY <1>1, <1>2, <1>3, <1>4, <1>5, <1>6, <1>7 DEF RelaunchNext

\* The invariant of RelaunchInv: however many connections are lost and
\* wherever main and the listeners of lost connections are, launches follow
\* each other, one connection is up at most and the table tells of it.
THEOREM RelaunchInvariant == RelaunchSpec => []IInv
<1>1. RelaunchInit => IInv
  BY IInvInit
<1>2. IInv /\ [RelaunchNext]_rvars => IInv'
  BY IInvStep
<1>3. QED
  BY <1>1, <1>2, PTL DEF RelaunchSpec

\* A thread id whose messages are left alone is served or was refused, on the
\* present connection, and has one tunnel there, unless the listener of a
\* lost connection handled it.
THEOREM ServedOnceHolds == RelaunchSpec => []ServedOnce
<1>1. IInv => ServedOnce
  BY DEF IInv
<1>2. QED
  BY <1>1, RelaunchInvariant, PTL

\* Relaunching never leaves two connections up, and the static con, which the
\* listeners read, is the one that is.
THEOREM OneConnectionHolds == RelaunchSpec => []OneConnection
<1>1. IInv => OneConnection
  BY DEF IInv
<1>2. QED
  BY <1>1, RelaunchInvariant, PTL

=============================================================================
