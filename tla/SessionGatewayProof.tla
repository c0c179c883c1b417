-------------------------- MODULE SessionGatewayProof --------------------------
(***************************************************************************)
(* Proofs about SessionGateway, for any number of connections: its types,  *)
(* that metered connections are held, sessions watched, the books in       *)
(* agreement and the device told.  IInv says, for each task, what the      *)
(* others may have done to its session so far.  All but the types is said  *)
(* of runs in which no two tasks have crossed.                             *)
(***************************************************************************)
EXTENDS SessionGateway, TLAPS

\* No task has met another half way.
Apart == crossed = {}

\* LifecycleTypeOK without the tasks.
TypesOK ==
  /\ loop \in {"reading", "stopping", "leaving", "closing", "gone"} /\ lost \in BOOLEAN
  /\ told \in {"ended", "started", "error"}
  /\ cloud \in Ids /\ sessionId \in Ids
  /\ rows \in [Connections -> {"unused", "open", "ended"}]
  /\ sock \in [Connections -> {"none", "open", "closed"}]
  /\ reader \in [Connections -> {"none", "idle", "busy", "dead"}]
  /\ watchers \subseteq Connections /\ timerTask \in Ids
  /\ crossed \subseteq {"connect", "stop", "switch"}

\* Where the tasks are.
TasksOK == starter \in Starters /\ stopper \in Stoppers /\ switcher \in Switchers

\* What a task works on has a row in the database.
UsedOK ==
  /\ Starting => starter.of \in Connections
  /\ switcher.at \in Opening => switcher.of \in Connections
  /\ \A c \in Connections :
    /\ rows[c] = "unused" => sock[c] = "none" /\ reader[c] = "none"
    /\ c \in {cloud, starter.of, switcher.of, switcher.by} \/ InStop("reader", c)
       => rows[c] # "unused"

\* A reader runs stop() or a switch, one of them.
BusyOK ==
  Apart => \A c \in Connections :
    /\ reader[c] = "busy" <=> InStop("reader", c) \/ InSwitch(c)
    /\ ~(InStop("reader", c) /\ InSwitch(c))

\* A start has its connection to itself; only a stop may have taken it.
StartOK ==
  Apart =>
    /\ Starting => starter.of \in Connections /\ ~Switching /\ reader[starter.of] = "none"
    /\ starter.at = "announcing" => cloud \in {None, starter.of}
    /\ starter.at \in Opening => cloud = starter.of
    /\ starter.at \in {"announcing", "connecting"} => sock[starter.of] = "none"

\* The connection there is is the session's.
CloudOK == Apart /\ cloud # None => sessionId = cloud /\ rows[cloud] = "open"

\* An open row has somebody to end it.
RowsOK ==
  Apart => \A r \in Connections : rows[r] = "open" =>
    \/ r = cloud
    \/ stopper.at \in {"closing", "ending"} /\ stopper.row = r
    \/ switcher.at = "closing" /\ switcher.row = r

\* A stop ends the session there was when it began.
StopOK ==
  Apart =>
    /\ Stopping => stopper.row \in Connections
    /\ stopper.at = "clearing" /\ cloud # None => stopper.row = cloud
    /\ stopper.at \in {"closing", "ending"} => cloud = None /\ stopper.of = stopper.row

\* A switch replaces the session whose reader runs it.
SwitchOK ==
  Apart =>
    /\ Switching => switcher.by \in Connections /\ switcher.row = switcher.by
    /\ switcher.at \in {"clearing", "emptying"} => cloud = switcher.by
    /\ switcher.at = "closing" => cloud = None /\ ~Stopping
    /\ switcher.at \in Opening =>
         cloud = switcher.of /\ switcher.of # switcher.by /\ reader[switcher.of] = "none"
    /\ switcher.at = "connecting" => sock[switcher.of] = "none"

\* The property itself.
SocketsOK == SocketsAreHeld

\* The newest watcher is the session's and runs, unless a task sees to the session.
WatchOK ==
  Apart /\ cloud # None /\ ~Starting /\ switcher.at \in {"none", "clearing"} /\ ~lost /\ ~Stopping
  => timerTask = cloud /\ cloud \in watchers

\* What the device was told last, unless a task is about to tell it.
ToldOK ==
  Apart =>
    /\ cloud # None /\ ~Starting /\ switcher.at \in {"none", "clearing", "emptying"} /\ ~lost
       => told = "started"
    /\ cloud = None /\ stopper.at \notin {"closing", "ending"} /\ switcher.at # "closing" /\ ~lost
       => told # "started"

IInv ==
  /\ TypesOK /\ TasksOK /\ UsedOK /\ BusyOK /\ StartOK /\ CloudOK /\ RowsOK /\ StopOK /\ SwitchOK
  /\ SocketsOK /\ WatchOK /\ ToldOK

USE ConnectionsAssumption
USE DEF IInv, Apart, TypesOK, TasksOK, UsedOK, BusyOK, StartOK, CloudOK, RowsOK, StopOK, SwitchOK, SocketsOK,
  SocketsAreHeld, WatchOK, ToldOK,
  Ids, Connections, None, Opening, Callers, NoStart, Starters, NoStop, Stoppers, NoSwitch,
  Switchers, Starting, Stopping, Switching, InStop, InSwitch


-----------------------------------------------------------------------------

\* The steps that are not the start's, the stop's or the switch's own.
OtherStep ==
  \/ LoopStops \/ AlarmStops \/ DeviceLost \/ Close
  \/ \E c \in Connections :
       \/ RequestStart(c) \/ SpokenStop(c) \/ SwitchBegins(c) \/ CloudDrops(c)
       \/ WatcherStops(c) \/ WatcherLeaves(c)

\* A task's record keeps its type when the task moves on.
LEMMA TaskMoves ==
  /\ \A s \in Starters : [s EXCEPT !.at = "greeting"] \in Starters
  /\ \A s \in Switchers : [s EXCEPT !.at = "emptying"] \in Switchers
  OBVIOUS

LEMMA InitHolds == Init => IInv
<1> SUFFICES ASSUME Init PROVE IInv
  OBVIOUS
<1> USE DEF Init
<1>1. TypesOK
  OBVIOUS
<1>2. TasksOK
  OBVIOUS
<1>3. UsedOK /\ BusyOK
  OBVIOUS
<1>4. StartOK /\ CloudOK /\ RowsOK /\ StopOK /\ SwitchOK
  OBVIOUS
<1>5. SocketsOK /\ WatchOK /\ ToldOK
  OBVIOUS
<1> QED  BY <1>1, <1>2, <1>3, <1>4, <1>5


\* What the start task does.
LEMMA StartKeepsInv == IInv /\ StartStep => IInv'
<1> SUFFICES ASSUME IInv, StartStep PROVE IInv'
  OBVIOUS
<1>1. CASE StartAnnounced
  <2> USE <1>1 DEF StartAnnounced
  <2>1. TypesOK'
    OBVIOUS
  <2>2. TasksOK'
    OBVIOUS
  <2>3. UsedOK'
    OBVIOUS
  <2>4. StartOK'
    OBVIOUS
  <2>5. WatchOK'
    OBVIOUS
  <2>6. ToldOK'
    OBVIOUS
  <2>7. BusyOK' /\ CloudOK' /\ RowsOK' /\ StopOK' /\ SwitchOK' /\ SocketsOK'
    OBVIOUS
  <2> QED  BY <2>1, <2>2, <2>3, <2>4, <2>5, <2>6, <2>7
<1>2. CASE StartDies
  <2> USE <1>2 DEF StartDies
  <2>1. TypesOK'
    OBVIOUS
  <2>2. TasksOK'
    OBVIOUS
  <2>3. UsedOK'
    OBVIOUS
  <2>4. StartOK'
    OBVIOUS
  <2>5. WatchOK'
    OBVIOUS
  <2>6. ToldOK'
    OBVIOUS
  <2>7. BusyOK' /\ CloudOK' /\ RowsOK' /\ StopOK' /\ SwitchOK' /\ SocketsOK'
    OBVIOUS
  <2> QED  BY <2>1, <2>2, <2>3, <2>4, <2>5, <2>6, <2>7
<1>3. CASE StartConnects
  <2> USE <1>3 DEF StartConnects
  <2>1. TypesOK'
    OBVIOUS
  <2>2. TasksOK'
    BY TaskMoves
  <2>3. UsedOK'
    OBVIOUS
  <2>4. StartOK'
    OBVIOUS
  <2>5. SwitchOK'
    OBVIOUS
  <2>6. SocketsOK'
    OBVIOUS
  <2>7. WatchOK'
    OBVIOUS
  <2>8. ToldOK'
    OBVIOUS
  <2>9. BusyOK' /\ CloudOK' /\ RowsOK' /\ StopOK'
    OBVIOUS
  <2> QED  BY <2>1, <2>2, <2>3, <2>4, <2>5, <2>6, <2>7, <2>8, <2>9
<1>4. CASE StartFails
  <2> USE <1>4 DEF StartFails, Shut, Failed, Ended, Tell
  <2>1. TypesOK'
    OBVIOUS
  <2>2. TasksOK'
    OBVIOUS
  <2>3. UsedOK'
    OBVIOUS
  <2>4. StartOK'
    OBVIOUS
  <2>5. CloudOK'
    OBVIOUS
  <2>6. RowsOK'
    OBVIOUS
  <2>7. StopOK'
    OBVIOUS
  <2>8. SwitchOK'
    OBVIOUS
  <2>9. SocketsOK'
    OBVIOUS
  <2>10. WatchOK'
    OBVIOUS
  <2>11. ToldOK'
    OBVIOUS
  <2>12. BusyOK'
    OBVIOUS
  <2> QED  BY <2>1, <2>2, <2>3, <2>4, <2>5, <2>6, <2>7, <2>8, <2>9, <2>10, <2>11, <2>12
<1>5. CASE StartGreets
  <2> USE <1>5 DEF StartGreets, Tell, Watch, Read
  <2>1. TypesOK'
    <3>1. starter.of \in Connections
      OBVIOUS
    <3>2. reader' \in [Connections -> {"none", "idle", "busy", "dead"}]
      BY <3>1
    <3>3. watchers' \subseteq Connections
      <4> HIDE DEF Connections, StartGreets
      <4>1. watchers' = watchers \cup {starter.of} /\ watchers \subseteq Connections
        BY DEF StartGreets
      <4> QED  BY <3>1, <4>1
    <3>4. told' \in {"ended", "started", "error"}
      OBVIOUS
    <3> QED  BY <3>2, <3>3, <3>4
  <2>2. TasksOK'
    OBVIOUS
  <2>3. UsedOK'
    OBVIOUS
  <2>4. BusyOK'
    OBVIOUS
  <2>5. StartOK'
    OBVIOUS
  <2>6. SwitchOK'
    OBVIOUS
  <2>7. WatchOK'
    OBVIOUS
  <2>8. ToldOK'
    OBVIOUS
  <2>9. CloudOK' /\ RowsOK' /\ StopOK' /\ SocketsOK'
    OBVIOUS
  <2> QED  BY <2>1, <2>2, <2>3, <2>4, <2>5, <2>6, <2>7, <2>8, <2>9
<1> QED  BY <1>1, <1>2, <1>3, <1>4, <1>5 DEF StartStep

\* What stop() does.
LEMMA StopKeepsInv == IInv /\ StopStep => IInv'
<1> SUFFICES ASSUME IInv, StopStep PROVE IInv'
  OBVIOUS
<1>1. CASE StopTakes
  <2> USE <1>1 DEF StopTakes, CancelReader, Killed
  <2>1. TypesOK'
    OBVIOUS
  <2>2. TasksOK'
    OBVIOUS
  <2>3. UsedOK'
    OBVIOUS
  <2>4. BusyOK'
    OBVIOUS
  <2>5. StartOK'
    OBVIOUS
  <2>6. CloudOK'
    OBVIOUS
  <2>7. RowsOK'
    OBVIOUS
  <2>8. StopOK'
    OBVIOUS
  <2>9. SwitchOK'
    OBVIOUS
  <2>10. SocketsOK'
    OBVIOUS
  <2>11. WatchOK'
    OBVIOUS
  <2>12. ToldOK'
    OBVIOUS
  <2> QED  BY <2>1, <2>2, <2>3, <2>4, <2>5, <2>6, <2>7, <2>8, <2>9, <2>10, <2>11, <2>12
<1>2. CASE StopRaises
  <2> USE <1>2 DEF StopRaises, Killed, LoopGoesOn
  <2>1. TypesOK'
    OBVIOUS
  <2>2. TasksOK'
    OBVIOUS
  <2>3. UsedOK'
    OBVIOUS
  <2>4. BusyOK'
    OBVIOUS
  <2>5. StartOK'
    OBVIOUS
  <2>6. RowsOK'
    OBVIOUS
  <2>7. StopOK'
    OBVIOUS
  <2>8. SwitchOK'
    OBVIOUS
  <2>9. SocketsOK'
    OBVIOUS
  <2>10. WatchOK'
    OBVIOUS
  <2>11. ToldOK'
    OBVIOUS
  <2>12. CloudOK'
    OBVIOUS
  <2> QED  BY <2>1, <2>2, <2>3, <2>4, <2>5, <2>6, <2>7, <2>8, <2>9, <2>10, <2>11, <2>12
<1>3. CASE StopCloses
  <2> USE <1>3 DEF StopCloses, Shut
  <2>1. TypesOK'
    OBVIOUS
  <2>2. TasksOK'
    OBVIOUS
  <2>3. UsedOK'
    OBVIOUS
  <2>4. BusyOK'
    OBVIOUS
  <2>5. StartOK'
    OBVIOUS
  <2>6. RowsOK'
    OBVIOUS
  <2>7. StopOK'
    OBVIOUS
  <2>8. SwitchOK'
    OBVIOUS
  <2>9. SocketsOK'
    OBVIOUS
  <2>10. WatchOK'
    OBVIOUS
  <2>11. ToldOK'
    OBVIOUS
  <2>12. CloudOK'
    OBVIOUS
  <2> QED  BY <2>1, <2>2, <2>3, <2>4, <2>5, <2>6, <2>7, <2>8, <2>9, <2>10, <2>11, <2>12
<1>4. CASE StopEnds
  <2> USE <1>4 DEF StopEnds, Tell, Ended, Resumed, LoopGoesOn
  <2>1. TypesOK'
    OBVIOUS
  <2>2. TasksOK'
    OBVIOUS
  <2>3. UsedOK'
    OBVIOUS
  <2>4. BusyOK'
    OBVIOUS
  <2>5. StartOK'
    OBVIOUS
  <2>6. CloudOK'
    OBVIOUS
  <2>7. RowsOK'
    OBVIOUS
  <2>8. StopOK'
    OBVIOUS
  <2>9. SwitchOK'
    OBVIOUS
  <2>10. SocketsOK'
    OBVIOUS
  <2>11. WatchOK'
    OBVIOUS
  <2>12. ToldOK'
    OBVIOUS
  <2> QED  BY <2>1, <2>2, <2>3, <2>4, <2>5, <2>6, <2>7, <2>8, <2>9, <2>10, <2>11, <2>12
<1> QED  BY <1>1, <1>2, <1>3, <1>4 DEF StopStep

\* What a switch of projects does.
LEMMA SwitchKeepsInv == IInv /\ SwitchStep => IInv'
<1> SUFFICES ASSUME IInv, SwitchStep PROVE IInv'
  OBVIOUS
<1>1. CASE SwitchCancelsWatcher
  <2> USE <1>1 DEF SwitchCancelsWatcher
  <2>1. TypesOK'
    OBVIOUS
  <2>2. TasksOK'
    BY TaskMoves
  <2>3. UsedOK'
    OBVIOUS
  <2>4. BusyOK'
    OBVIOUS
  <2>5. StartOK'
    OBVIOUS
  <2>6. RowsOK'
    OBVIOUS
  <2>7. StopOK'
    OBVIOUS
  <2>8. SwitchOK'
    OBVIOUS
  <2>9. SocketsOK'
    OBVIOUS
  <2>10. WatchOK'
    OBVIOUS
  <2>11. ToldOK'
    OBVIOUS
  <2>12. CloudOK'
    OBVIOUS
  <2> QED  BY <2>1, <2>2, <2>3, <2>4, <2>5, <2>6, <2>7, <2>8, <2>9, <2>10, <2>11, <2>12
<1>2. CASE SwitchDies
  <2> USE <1>2 DEF SwitchDies, Killed
  <2>1. TypesOK'
    OBVIOUS
  <2>2. TasksOK'
    OBVIOUS
  <2>3. UsedOK'
    OBVIOUS
  <2>4. BusyOK'
    OBVIOUS
  <2>5. StartOK'
    OBVIOUS
  <2>6. RowsOK'
    OBVIOUS
  <2>7. SwitchOK'
    OBVIOUS
  <2>8. SocketsOK'
    OBVIOUS
  <2>9. WatchOK'
    OBVIOUS
  <2>10. ToldOK'
    OBVIOUS
  <2>11. CloudOK' /\ StopOK'
    OBVIOUS
  <2> QED  BY <2>1, <2>2, <2>3, <2>4, <2>5, <2>6, <2>7, <2>8, <2>9, <2>10, <2>11
<1>3. CASE SwitchTakes
  <2> USE <1>3 DEF SwitchTakes
  <2>1. TypesOK'
    OBVIOUS
  <2>2. TasksOK'
    OBVIOUS
  <2>3. UsedOK'
    OBVIOUS
  <2>4. BusyOK'
    OBVIOUS
  <2>5. StartOK'
    OBVIOUS
  <2>6. CloudOK'
    OBVIOUS
  <2>7. RowsOK'
    OBVIOUS
  <2>8. StopOK'
    OBVIOUS
  <2>9. SwitchOK'
    OBVIOUS
  <2>10. SocketsOK'
    OBVIOUS
  <2>11. WatchOK'
    OBVIOUS
  <2>12. ToldOK'
    OBVIOUS
  <2> QED  BY <2>1, <2>2, <2>3, <2>4, <2>5, <2>6, <2>7, <2>8, <2>9, <2>10, <2>11, <2>12
<1>4. CASE SwitchConnects
  <2> USE <1>4 DEF SwitchConnects
  <2>1. TypesOK'
    OBVIOUS
  <2>2. TasksOK'
    OBVIOUS
  <2>3. UsedOK'
    OBVIOUS
  <2>4. BusyOK'
    OBVIOUS
  <2>5. StartOK'
    OBVIOUS
  <2>6. RowsOK'
    OBVIOUS
  <2>7. SwitchOK'
    OBVIOUS
  <2>8. SocketsOK'
    OBVIOUS
  <2>9. WatchOK'
    OBVIOUS
  <2>10. ToldOK'
    OBVIOUS
  <2>11. CloudOK' /\ StopOK'
    OBVIOUS
  <2> QED  BY <2>1, <2>2, <2>3, <2>4, <2>5, <2>6, <2>7, <2>8, <2>9, <2>10, <2>11
<1>5. CASE SwitchFails
  <2> USE <1>5 DEF SwitchFails, Shut, Killed, Failed, Ended, Tell
  <2>1. TypesOK'
    OBVIOUS
  <2>2. TasksOK'
    OBVIOUS
  <2>3. UsedOK'
    OBVIOUS
  <2>4. BusyOK'
    OBVIOUS
  <2>5. StartOK'
    OBVIOUS
  <2>6. CloudOK'
    OBVIOUS
  <2>7. RowsOK'
    OBVIOUS
  <2>8. StopOK'
    OBVIOUS
  <2>9. SwitchOK'
    OBVIOUS
  <2>10. SocketsOK'
    OBVIOUS
  <2>11. WatchOK'
    OBVIOUS
  <2>12. ToldOK'
    OBVIOUS
  <2> QED  BY <2>1, <2>2, <2>3, <2>4, <2>5, <2>6, <2>7, <2>8, <2>9, <2>10, <2>11, <2>12
<1>6. CASE SwitchGreets
  <2> USE <1>6 DEF SwitchGreets, Tell, Watch, Read
  <2>1. TypesOK'
    <3>1. switcher.of \in Connections
      OBVIOUS
    <3>2. reader' \in [Connections -> {"none", "idle", "busy", "dead"}]
      BY <3>1
    <3>3. watchers' \subseteq Connections
      <4> HIDE DEF Connections, SwitchGreets
      <4>1. watchers' = watchers \cup {switcher.of} /\ watchers \subseteq Connections
        BY DEF SwitchGreets
      <4> QED  BY <3>1, <4>1
    <3>4. told' \in {"ended", "started", "error"}
      OBVIOUS
    <3> QED  BY <3>2, <3>3, <3>4
  <2>2. TasksOK'
    OBVIOUS
  <2>3. UsedOK'
    OBVIOUS
  <2>4. BusyOK'
    OBVIOUS
  <2>5. StartOK'
    OBVIOUS
  <2>6. RowsOK'
    OBVIOUS
  <2>7. SwitchOK'
    OBVIOUS
  <2>8. SocketsOK'
    OBVIOUS
  <2>9. WatchOK'
    OBVIOUS
  <2>10. ToldOK'
    OBVIOUS
  <2>11. CloudOK' /\ StopOK'
    OBVIOUS
  <2> QED  BY <2>1, <2>2, <2>3, <2>4, <2>5, <2>6, <2>7, <2>8, <2>9, <2>10, <2>11
<1>7. ASSUME NEW c \in Connections, SwitchOpens(c) PROVE IInv'
  <2> USE <1>7 DEF SwitchOpens, Ended, Shut, NewSession, Fresh
  <2>1. TypesOK'
    OBVIOUS
  <2>2. TasksOK'
    OBVIOUS
  <2>3. UsedOK'
    OBVIOUS
  <2>4. BusyOK'
    OBVIOUS
  <2>5. StartOK'
    OBVIOUS
  <2>6. CloudOK'
    OBVIOUS
  <2>7. RowsOK'
    <3>1. \A r \in Connections : r # c => rows'[r] = IF r = switcher.row THEN "ended" ELSE rows[r]
      OBVIOUS
    <3>2. Apart => \A r \in Connections : rows[r] = "open" => r = switcher.row
      OBVIOUS
    <3> HIDE DEF SwitchOpens
    <3>3. cloud' = c /\ crossed' = crossed
      BY DEF SwitchOpens
    <3> QED  BY <3>1, <3>2, <3>3
  <2>8. StopOK'
    OBVIOUS
  <2>9. SwitchOK'
    OBVIOUS
  <2>10. SocketsOK'
    <3>1. \A d \in Connections : sock'[d] = "open" => sock[d] = "open" /\ d # switcher.by
      OBVIOUS
    <3>2. Apart => \A d \in Connections : sock[d] = "open" => d = switcher.by
      OBVIOUS
    <3> HIDE DEF SwitchOpens
    <3>3. crossed' = crossed
      BY DEF SwitchOpens
    <3> QED  BY <3>1, <3>2, <3>3
  <2>11. WatchOK'
    OBVIOUS
  <2>12. ToldOK'
    OBVIOUS
  <2> QED  BY <2>1, <2>2, <2>3, <2>4, <2>5, <2>6, <2>7, <2>8, <2>9, <2>10, <2>11, <2>12
<1> QED  BY <1>1, <1>2, <1>3, <1>4, <1>5, <1>6, <1>7 DEF SwitchStep

\* How stops, starts and switches begin, and how connections are lost.
LEMMA RestKeepsInv == IInv /\ OtherStep => IInv'
<1> SUFFICES ASSUME IInv, OtherStep PROVE IInv'
  OBVIOUS
<1>1. CASE LoopStops
  <2> USE <1>1 DEF LoopStops, StopBegins, NotStop
  <2>1. TypesOK'
    OBVIOUS
  <2>2. TasksOK'
    OBVIOUS
  <2>3. UsedOK'
    OBVIOUS
  <2>4. BusyOK'
    OBVIOUS
  <2>5. RowsOK'
    OBVIOUS
  <2>6. StopOK'
    OBVIOUS
  <2>7. SwitchOK'
    OBVIOUS
  <2>8. SocketsOK'
    OBVIOUS
  <2>9. WatchOK'
    OBVIOUS
  <2>10. ToldOK'
    OBVIOUS
  <2>11. StartOK' /\ CloudOK'
    OBVIOUS
  <2> QED  BY <2>1, <2>2, <2>3, <2>4, <2>5, <2>6, <2>7, <2>8, <2>9, <2>10, <2>11
<1>2. CASE AlarmStops
  <2> USE <1>2 DEF AlarmStops, StopBegins, NotStop
  <2>1. TypesOK'
    OBVIOUS
  <2>2. TasksOK'
    OBVIOUS
  <2>3. UsedOK'
    OBVIOUS
  <2>4. BusyOK'
    OBVIOUS
  <2>5. RowsOK'
    OBVIOUS
  <2>6. StopOK'
    OBVIOUS
  <2>7. SwitchOK'
    OBVIOUS
  <2>8. SocketsOK'
    OBVIOUS
  <2>9. WatchOK'
    OBVIOUS
  <2>10. ToldOK'
    OBVIOUS
  <2>11. StartOK' /\ CloudOK'
    OBVIOUS
  <2> QED  BY <2>1, <2>2, <2>3, <2>4, <2>5, <2>6, <2>7, <2>8, <2>9, <2>10, <2>11
<1>3. CASE DeviceLost
  <2> USE <1>3 DEF DeviceLost
  <2>1. TypesOK'
    OBVIOUS
  <2>2. TasksOK'
    OBVIOUS
  <2>3. WatchOK'
    OBVIOUS
  <2>4. ToldOK'
    OBVIOUS
  <2>5. UsedOK' /\ BusyOK' /\ StartOK' /\ CloudOK' /\ RowsOK' /\ StopOK' /\ SwitchOK' /\ SocketsOK'
    OBVIOUS
  <2> QED  BY <2>1, <2>2, <2>3, <2>4, <2>5
<1>4. CASE Close
  <2> USE <1>4 DEF Close, StopBegins
  <2>1. TypesOK'
    OBVIOUS
  <2>2. TasksOK'
    OBVIOUS
  <2>3. UsedOK'
    OBVIOUS
  <2>4. BusyOK'
    OBVIOUS
  <2>5. StartOK'
    OBVIOUS
  <2>6. RowsOK'
    OBVIOUS
  <2>7. StopOK'
    OBVIOUS
  <2>8. SwitchOK'
    OBVIOUS
  <2>9. SocketsOK'
    OBVIOUS
  <2>10. WatchOK'
    OBVIOUS
  <2>11. ToldOK'
    OBVIOUS
  <2>12. CloudOK'
    OBVIOUS
  <2> QED  BY <2>1, <2>2, <2>3, <2>4, <2>5, <2>6, <2>7, <2>8, <2>9, <2>10, <2>11, <2>12
<1>5. ASSUME NEW c \in Connections, RequestStart(c) PROVE IInv'
  <2> USE <1>5 DEF RequestStart, NewSession, Fresh
  <2>1. TypesOK'
    OBVIOUS
  <2>2. TasksOK'
    OBVIOUS
  <2>3. UsedOK'
    OBVIOUS
  <2>4. StartOK'
    OBVIOUS
  <2>5. CloudOK'
    OBVIOUS
  <2>6. RowsOK'
    OBVIOUS
  <2>7. StopOK'
    OBVIOUS
  <2>8. SwitchOK'
    OBVIOUS
  <2>9. SocketsOK'
    OBVIOUS
  <2>10. WatchOK'
    OBVIOUS
  <2>11. ToldOK'
    OBVIOUS
  <2>12. BusyOK'
    OBVIOUS
  <2> QED  BY <2>1, <2>2, <2>3, <2>4, <2>5, <2>6, <2>7, <2>8, <2>9, <2>10, <2>11, <2>12
<1>6. ASSUME NEW c \in Connections, SpokenStop(c) PROVE IInv'
  <2> USE <1>6 DEF SpokenStop, StopBegins, NotStop
  <2>1. TypesOK'
    OBVIOUS
  <2>2. TasksOK'
    OBVIOUS
  <2>3. UsedOK'
    OBVIOUS
  <2>4. BusyOK'
    OBVIOUS
  <2>5. StartOK'
    OBVIOUS
  <2>6. RowsOK'
    OBVIOUS
  <2>7. StopOK'
    OBVIOUS
  <2>8. SwitchOK'
    OBVIOUS
  <2>9. SocketsOK'
    OBVIOUS
  <2>10. WatchOK'
    OBVIOUS
  <2>11. ToldOK'
    OBVIOUS
  <2>12. CloudOK'
    OBVIOUS
  <2> QED  BY <2>1, <2>2, <2>3, <2>4, <2>5, <2>6, <2>7, <2>8, <2>9, <2>10, <2>11, <2>12
<1>7. ASSUME NEW c \in Connections, SwitchBegins(c) PROVE IInv'
  <2> USE <1>7 DEF SwitchBegins
  <2>1. TypesOK'
    OBVIOUS
  <2>2. TasksOK'
    OBVIOUS
  <2>3. UsedOK'
    OBVIOUS
  <2>4. BusyOK'
    OBVIOUS
  <2>5. StartOK'
    OBVIOUS
  <2>6. RowsOK'
    OBVIOUS
  <2>7. SwitchOK'
    OBVIOUS
  <2>8. SocketsOK'
    OBVIOUS
  <2>9. WatchOK'
    OBVIOUS
  <2>10. ToldOK'
    OBVIOUS
  <2>11. CloudOK' /\ StopOK'
    OBVIOUS
  <2> QED  BY <2>1, <2>2, <2>3, <2>4, <2>5, <2>6, <2>7, <2>8, <2>9, <2>10, <2>11
<1>8. ASSUME NEW c \in Connections, CloudDrops(c) PROVE IInv'
  <2> USE <1>8 DEF CloudDrops, Killed
  <2>1. TypesOK'
    OBVIOUS
  <2>2. TasksOK'
    OBVIOUS
  <2>3. UsedOK'
    OBVIOUS
  <2>4. BusyOK'
    OBVIOUS
  <2>5. StartOK'
    OBVIOUS
  <2>6. SwitchOK'
    OBVIOUS
  <2>7. SocketsOK'
    OBVIOUS
  <2>8. CloudOK' /\ RowsOK' /\ StopOK' /\ WatchOK' /\ ToldOK'
    OBVIOUS
  <2> QED  BY <2>1, <2>2, <2>3, <2>4, <2>5, <2>6, <2>7, <2>8
<1>9. ASSUME NEW c \in Connections, WatcherStops(c) PROVE IInv'
  <2> USE <1>9 DEF WatcherStops, StopBegins, NotStop
  <2>1. TypesOK'
    OBVIOUS
  <2>2. TasksOK'
    OBVIOUS
  <2>3. UsedOK'
    OBVIOUS
  <2>4. BusyOK'
    OBVIOUS
  <2>5. RowsOK'
    OBVIOUS
  <2>6. StopOK'
    OBVIOUS
  <2>7. SwitchOK'
    OBVIOUS
  <2>8. SocketsOK'
    OBVIOUS
  <2>9. WatchOK'
    OBVIOUS
  <2>10. ToldOK'
    OBVIOUS
  <2>11. StartOK' /\ CloudOK'
    OBVIOUS
  <2> QED  BY <2>1, <2>2, <2>3, <2>4, <2>5, <2>6, <2>7, <2>8, <2>9, <2>10, <2>11
<1>10. ASSUME NEW c \in Connections, WatcherLeaves(c) PROVE IInv'
  <2> USE <1>10 DEF WatcherLeaves, NotStop
  <2>1. TypesOK'
    OBVIOUS
  <2>2. TasksOK'
    OBVIOUS
  <2>3. WatchOK'
    OBVIOUS
  <2>4. UsedOK' /\ BusyOK' /\ StartOK' /\ CloudOK' /\ RowsOK' /\ StopOK' /\ SwitchOK' /\ SocketsOK' /\ ToldOK'
    OBVIOUS
  <2> QED  BY <2>1, <2>2, <2>3, <2>4
<1> QED  BY <1>1, <1>2, <1>3, <1>4, <1>5, <1>6, <1>7, <1>8, <1>9, <1>10 DEF OtherStep

HIDE DEF IInv, Apart, TypesOK, TasksOK, UsedOK, BusyOK, StartOK, CloudOK, RowsOK, StopOK, SwitchOK, SocketsOK,
  SocketsAreHeld, WatchOK, ToldOK,
  Ids, Connections, None, Opening, Callers, NoStart, Starters, NoStop, Stoppers, NoSwitch,
  Switchers, Starting, Stopping, Switching, InStop, InSwitch

LEMMA InvHolds == Spec => []IInv
<1>1. IInv /\ [Next]_vars => IInv'
  <2> SUFFICES ASSUME IInv, [Next]_vars PROVE IInv'
    OBVIOUS
  <2>1. CASE StartStep
    BY <2>1, StartKeepsInv
  <2>2. CASE StopStep
    BY <2>2, StopKeepsInv
  <2>3. CASE SwitchStep
    BY <2>3, SwitchKeepsInv
  <2>4. CASE OtherStep
    BY <2>4, RestKeepsInv
  <2>5. CASE UNCHANGED vars
    BY <2>5 DEF vars, IInv, Apart, TypesOK, TasksOK, UsedOK, BusyOK, StartOK, CloudOK, RowsOK,
       StopOK, SwitchOK, SocketsOK, SocketsAreHeld, WatchOK, ToldOK, Starting, Stopping, Switching,
       InStop, InSwitch
  <2> QED  BY <2>1, <2>2, <2>3, <2>4, <2>5 DEF Next, OtherStep
<1> QED  BY InitHolds, <1>1, PTL DEF Spec

-----------------------------------------------------------------------------

\* The lifecycle's state has its types; a connection that is used has a row, and
\* a reader is busy only in the stop() or the switch it runs.
THEOREM LifecycleTypeCorrect == Spec => []LifecycleTypeOK
<1>1. IInv => LifecycleTypeOK
  BY DEF IInv, TypesOK, TasksOK, UsedOK, BusyOK, Apart, LifecycleTypeOK
<1> QED  BY InvHolds, <1>1, PTL

\* Every open cloud connection is the session's or being closed, unless tasks
\* have crossed.
THEOREM SocketsAlwaysHeld == Spec => []SocketsAreHeld
<1>1. IInv => SocketsAreHeld
  BY DEF IInv, SocketsOK
<1> QED  BY InvHolds, <1>1, PTL

\* A session at rest has a running watcher for its limits.
THEOREM SessionAlwaysWatched == Spec => []HeldIsWatched
<1>1. IInv => HeldIsWatched
  BY DEF IInv, WatchOK, TypesOK, Apart, HeldIsWatched, Quiet, Switching
<1> QED  BY InvHolds, <1>1, PTL

\* Database, session_id and connection agree on the one session there is.
THEOREM BooksAlwaysAgree == Spec => []BooksAgree
<1>1. IInv => BooksAgree
  BY DEF IInv, CloudOK, RowsOK, TypesOK, Apart, BooksAgree, Quiet, Stopping, Switching, Ids,
         Connections, None
<1> QED  BY InvHolds, <1>1, PTL

\* The device was last told of a start exactly when it has a session.
THEOREM DeviceAlwaysTold == Spec => []DeviceIsTold
<1>1. IInv => DeviceIsTold
  BY DEF IInv, ToldOK, TypesOK, Apart, DeviceIsTold, Quiet, Stopping, Switching
<1> QED  BY InvHolds, <1>1, PTL

=============================================================================
