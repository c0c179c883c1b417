----------------------------- MODULE SessionGateway -----------------------------
(***************************************************************************)
(* The life of a voice session in the gateway (DeviceSession): the socket  *)
(* loop, the start task, the timeout watchers, the readers of the cloud    *)
(* connections and the timer alarm all start, switch and end it, and any   *)
(* of them may run while another awaits.  One action is what a task does   *)
(* between two awaits.                                                     *)
(*                                                                         *)
(* A connection object and the row of its session in the database are made *)
(* together, so the two share their number.                                *)
(***************************************************************************)
EXTENDS Naturals

CONSTANT MaxConnections    \* bound: cloud connections made, by starts and by switches

ASSUME ConnectionsAssumption == MaxConnections \in Nat \ {0}

Connections == 1 .. MaxConnections
None == 0

VARIABLES
  loop,      \* device_socket: "reading", "stopping" (in stop()), "leaving" (close() next),
             \* "closing" (in close()'s stop()), "gone"
  lost,      \* the device's WebSocket is lost: what is sent raises
  told,      \* the last the device was told of a session: "ended", "started" or "error"
  cloud,     \* self.cloud
  sessionId, \* self.session_id
  rows,      \* the sessions in the database
  sock,      \* the connections' sockets
  reader,    \* their reader tasks; "busy" in stop() or _switch_project()
  watchers,  \* the _watch_timeouts() that run, by the connection they were made for
  timerTask, \* self.timer_task
  starter,   \* the start task
  stopper,   \* the task in stop(); self.stopping
  switcher,  \* the reader in _switch_project()
  crossed    \* where one task met another half way: "connect", "stop", "switch"

vars == <<loop, lost, told, cloud, sessionId, rows, sock, reader, watchers, timerTask, starter,
          stopper, switcher, crossed>>

Ids == {None} \cup Connections
Callers == {"loop", "alarm", "watcher", "reader"}
Opening == {"connecting", "greeting"}    \* within connect(): no socket yet, no reader yet

NoStart == [at |-> "none", of |-> None]
Starters == [at : {"none", "announcing"} \cup Opening, of : Ids]
NoStop == [at |-> "none", by |-> "loop", who |-> None, row |-> None, of |-> None]
Stoppers == [at : {"none", "clearing", "closing", "ending"}, by : Callers, who : Ids, row : Ids,
             of : Ids]
NoSwitch == [at |-> "none", by |-> None, row |-> None, of |-> None]
Switchers == [at : {"none", "clearing", "emptying", "closing"} \cup Opening, by : Ids, row : Ids,
              of : Ids]

Starting == starter.at # "none"
Stopping == stopper.at # "none"
Switching == switcher.at # "none"

InStop(by, who) == Stopping /\ stopper.by = by /\ stopper.who = who
InSwitch(c) == Switching /\ switcher.by = c

\* Types, and what ties a connection to its row and a reader to what it runs.
LifecycleTypeOK ==
  /\ loop \in {"reading", "stopping", "leaving", "closing", "gone"} /\ lost \in BOOLEAN
  /\ told \in {"ended", "started", "error"}
  /\ cloud \in Ids /\ sessionId \in Ids
  /\ rows \in [Connections -> {"unused", "open", "ended"}]
  /\ sock \in [Connections -> {"none", "open", "closed"}]
  /\ reader \in [Connections -> {"none", "idle", "busy", "dead"}]
  /\ watchers \subseteq Connections /\ timerTask \in Ids
  /\ starter \in Starters /\ stopper \in Stoppers /\ switcher \in Switchers
  /\ crossed \subseteq {"connect", "stop", "switch"}
  /\ \A c \in Connections : rows[c] = "unused" => sock[c] = "none" /\ reader[c] = "none"
  /\ crossed = {} =>
       \A c \in Connections : reader[c] = "busy" <=> InStop("reader", c) \/ InSwitch(c)

Init ==
  /\ loop = "reading" /\ lost = FALSE /\ told = "ended"
  /\ cloud = None /\ sessionId = None
  /\ rows = [c \in Connections |-> "unused"] /\ sock = [c \in Connections |-> "none"]
  /\ reader = [c \in Connections |-> "none"]
  /\ watchers = {} /\ timerTask = None
  /\ starter = NoStart /\ stopper = NoStop /\ switcher = NoSwitch /\ crossed = {}

-----------------------------------------------------------------------------

\* What is sent is heard while the WebSocket lasts.
Tell(what) == told' = IF lost THEN told ELSE what

\* end_session() on a row, if there is one.
Ended(row) == [r \in Connections |-> IF r = row THEN "ended" ELSE rows[r]]

\* Mutant of Shut: the socket is left open.
LeftOpen(c) == sock

\* close() on a connection's socket, which does nothing before there is one.
Shut(c) == [d \in Connections |-> IF d = c /\ sock[d] = "open" THEN "closed" ELSE sock[d]]

\* A reader looks for the next event and ends when its socket is closed.
Resumed(c) == [reader EXCEPT ![c] = IF sock[c] = "open" THEN "idle" ELSE "dead"]
Killed(c) == [reader EXCEPT ![c] = "dead"]

\* A new row and its connection, in the order of their numbers; from here the
\* session is this one.
Fresh(c) == rows[c] = "unused" /\ \A b \in 1 .. c - 1 : rows[b] # "unused"
NewSession(c) == Fresh(c) /\ cloud' = c /\ sessionId' = c

\* Mutant of Watch: nobody watches the session.
Unwatched(c) == watchers' = watchers /\ timerTask' = c

Watch(c) == watchers' = watchers \cup {c} /\ timerTask' = c

\* The new connection's reader; its socket may have been closed under it.
Read(c) == [reader EXCEPT ![c] = IF sock[c] = "open" THEN "idle" ELSE "dead"]

-----------------------------------------------------------------------------
(* The start task: request_start, start and the connection's connect().    *)

\* Refused while there is a connection or a start task.
RequestStart(c) ==
  /\ loop = "reading" /\ cloud = None /\ ~Starting
  /\ NewSession(c) /\ rows' = [rows EXCEPT ![c] = "open"]
  /\ starter' = [at |-> "announcing", of |-> c]
  /\ crossed' = crossed \cup (IF Stopping THEN {"stop"} ELSE {})
                        \cup (IF Switching THEN {"switch"} ELSE {})
  /\ UNCHANGED <<loop, lost, told, sock, reader, watchers, timerTask, stopper, switcher>>

\* What a failing connect leaves, whatever the session is by now.
Failed == rows' = Ended(sessionId) /\ cloud' = None /\ Tell("error")

\* The state is sent, and connect() is called on what is then the connection.
StartAnnounced ==
  /\ starter.at = "announcing" /\ cloud # None
  /\ starter' = [at |-> "connecting", of |-> cloud]
  /\ UNCHANGED <<loop, lost, told, cloud, sessionId, rows, sock, reader, watchers, timerTask,
                 stopper, switcher, crossed>>

\* Sending the state raises, outside what start() catches.
StartDies ==
  /\ starter.at = "announcing" /\ lost /\ starter' = NoStart
  /\ UNCHANGED <<loop, lost, told, cloud, sessionId, rows, sock, reader, watchers, timerTask,
                 stopper, switcher, crossed>>

StartConnects ==
  /\ starter.at = "connecting"
  /\ starter' = [starter EXCEPT !.at = "greeting"] /\ sock' = [sock EXCEPT ![starter.of] = "open"]
  /\ UNCHANGED <<loop, lost, told, cloud, sessionId, rows, reader, watchers, timerTask, stopper,
                 switcher, crossed>>

\* Mutant of StartFails: the session in the database is left open.
StartFailsQuietly ==
  /\ \/ starter.at = "announcing" /\ (cloud = None \/ lost)
     \/ starter.at \in Opening
  /\ cloud' = None /\ Tell("error") /\ sock' = Shut(starter.of) /\ starter' = NoStart
  /\ UNCHANGED <<loop, lost, sessionId, rows, reader, watchers, timerTask, stopper, switcher,
                 crossed>>

\* A connection taken away is an error too; a greeting fails with its socket.
StartFails ==
  /\ \/ starter.at = "announcing" /\ (cloud = None \/ lost)
     \/ starter.at \in Opening
  /\ Failed /\ sock' = Shut(starter.of) /\ starter' = NoStart
  /\ UNCHANGED <<loop, lost, sessionId, reader, watchers, timerTask, stopper, switcher, crossed>>

\* The session is open. session.started is two turns of the send lock later, and
\* a stop needs more of them before session.ended, so it is sent here.
StartGreets ==
  /\ starter.at = "greeting" /\ starter' = NoStart
  /\ reader' = Read(starter.of) /\ Watch(starter.of) /\ Tell("started")
  /\ UNCHANGED <<loop, lost, cloud, sessionId, rows, sock, stopper, switcher, crossed>>

-----------------------------------------------------------------------------
(* stop(), whoever calls it.                                               *)

\* Only one task stops, and only what has a connection.
StopBegins(by, who) ==
  /\ ~Stopping /\ cloud # None
  /\ stopper' = [at |-> "clearing", by |-> by, who |-> who, row |-> sessionId,
                of |-> None]

\* The socket loop goes on after its stop: it reads, or close() is over.
LoopGoesOn(raised) ==
  loop' = IF stopper.by # "loop" THEN loop
          ELSE IF loop = "closing" THEN "gone"
          ELSE IF raised THEN "leaving" ELSE "reading"

\* Mutant of CancelReader: a reader cancels itself.
CancelAnyReader(c) ==
  reader' = IF reader[c] = "none" THEN reader ELSE Killed(c)

\* close() cancels the connection's reader, unless it is the caller.
CancelReader(c) ==
  reader' = IF reader[c] = "none" \/ InStop("reader", c) THEN reader ELSE Killed(c)

\* The connection is taken and its reader cancelled, with the switch it is in.
StopTakes ==
  /\ stopper.at = "clearing" /\ cloud # None /\ cloud' = None
  /\ stopper' = [stopper EXCEPT !.at = "closing", !.of = cloud] /\ CancelReader(cloud)
  /\ switcher' = IF InSwitch(cloud) /\ ~InStop("reader", cloud) THEN NoSwitch ELSE switcher
  /\ crossed' = IF starter.at \in Opening \/ switcher.at \in Opening
                THEN crossed \cup {"connect"} ELSE crossed
  /\ UNCHANGED <<loop, lost, told, sessionId, rows, sock, watchers, timerTask, starter>>

\* There is none any more: None.close() raises in whoever called stop().
StopRaises ==
  /\ stopper.at = "clearing" /\ cloud = None /\ stopper' = NoStop /\ LoopGoesOn(TRUE)
  /\ reader' = IF stopper.by = "reader" THEN Killed(stopper.who) ELSE reader
  /\ watchers' = IF stopper.by = "watcher" THEN watchers \ {stopper.who} ELSE watchers
  /\ UNCHANGED <<lost, told, cloud, sessionId, rows, sock, timerTask, starter, switcher, crossed>>

\* The socket is closed, and the newest watcher cancelled unless it is the caller.
StopCloses ==
  /\ stopper.at = "closing" /\ stopper' = [stopper EXCEPT !.at = "ending"]
  /\ sock' = Shut(stopper.of)
  /\ watchers' = IF InStop("watcher", timerTask) THEN watchers ELSE watchers \ {timerTask}
  /\ UNCHANGED <<loop, lost, told, cloud, sessionId, rows, reader, timerTask, starter, switcher,
                 crossed>>

\* Mutant of StopEnds: the device is not told.
StopEndsQuietly ==
  /\ stopper.at = "ending" /\ stopper' = NoStop /\ LoopGoesOn(FALSE)
  /\ rows' = Ended(stopper.row) /\ sessionId' = None
  /\ reader' = IF stopper.by = "reader" THEN Resumed(stopper.who) ELSE reader
  /\ watchers' = IF stopper.by = "watcher" THEN watchers \ {stopper.who} ELSE watchers
  /\ UNCHANGED <<lost, told, cloud, sock, timerTask, starter, switcher, crossed>>

StopEnds ==
  /\ stopper.at = "ending" /\ stopper' = NoStop /\ LoopGoesOn(FALSE)
  /\ rows' = Ended(stopper.row) /\ sessionId' = None /\ Tell("ended")
  /\ reader' = IF stopper.by = "reader" THEN Resumed(stopper.who) ELSE reader
  /\ watchers' = IF stopper.by = "watcher" THEN watchers \ {stopper.who} ELSE watchers
  /\ UNCHANGED <<lost, cloud, sock, timerTask, starter, switcher, crossed>>

-----------------------------------------------------------------------------
(* Who calls it: the socket loop, the alarm, a watcher, a reader.          *)

NotStop == <<lost, told, cloud, sessionId, rows, sock, timerTask, starter, switcher, crossed>>

\* session.stop; without a connection or in another's stop it does nothing.
LoopStops ==
  /\ loop = "reading" /\ StopBegins("loop", None) /\ loop' = "stopping"
  /\ UNCHANGED <<NotStop, reader, watchers>>

AlarmStops ==
  /\ loop \notin {"closing", "gone"} /\ StopBegins("alarm", None)
  /\ UNCHANGED <<NotStop, loop, reader, watchers>>

\* The idle timeout or the hard limit of the session there is now.
WatcherStops(w) ==
  /\ w \in watchers /\ StopBegins("watcher", w)
  /\ UNCHANGED <<NotStop, loop, reader, watchers>>

\* It ends without a connection to watch, when its stop() does nothing, or when
\* what it sends raises.
WatcherLeaves(w) ==
  /\ w \in watchers /\ ~InStop("watcher", w) /\ (cloud = None \/ Stopping \/ lost)
  /\ watchers' = watchers \ {w}
  /\ UNCHANGED <<NotStop, loop, reader, stopper>>

\* The user asked for the end, and the goodbye is over. Only the session's own
\* connection is sent audio, so only its reader gets here.
SpokenStop(c) ==
  /\ reader[c] = "idle" /\ c = cloud /\ StopBegins("reader", c)
  /\ reader' = [reader EXCEPT ![c] = "busy"]
  /\ UNCHANGED <<NotStop, loop, watchers>>

-----------------------------------------------------------------------------
(* _switch_project(), in the reader of the connection it replaces.         *)

SwitchBegins(c) ==
  /\ reader[c] = "idle" /\ c = cloud /\ ~Switching /\ \E d \in Connections : rows[d] = "unused"
  /\ switcher' = [at |-> "clearing", by |-> c, row |-> sessionId, of |-> None]
  /\ reader' = [reader EXCEPT ![c] = "busy"]
  /\ UNCHANGED <<loop, lost, told, cloud, sessionId, rows, sock, watchers, timerTask, starter,
                 stopper, crossed>>

\* The watcher is cancelled, with the stop it is in.
SwitchCancelsWatcher ==
  /\ switcher.at = "clearing" /\ switcher' = [switcher EXCEPT !.at = "emptying"]
  /\ watchers' = watchers \ {timerTask} /\ timerTask' = None
  /\ IF timerTask # None /\ InStop("watcher", timerTask)
     THEN stopper' = NoStop /\ crossed' = crossed \cup {"switch"}
     ELSE UNCHANGED <<stopper, crossed>>
  /\ UNCHANGED <<loop, lost, told, cloud, sessionId, rows, sock, reader, starter>>

SwitchDies ==
  /\ switcher.at = "clearing" /\ lost /\ switcher' = NoSwitch /\ reader' = Killed(switcher.by)
  /\ UNCHANGED <<loop, lost, told, cloud, sessionId, rows, sock, watchers, timerTask, starter,
                 stopper, crossed>>

SwitchTakes ==
  /\ switcher.at = "emptying" /\ switcher' = [switcher EXCEPT !.at = "closing"]
  /\ cloud' = None /\ crossed' = IF Stopping THEN crossed \cup {"switch"} ELSE crossed
  /\ UNCHANGED <<loop, lost, told, sessionId, rows, sock, reader, watchers, timerTask, starter,
                 stopper>>

\* Mutant of SwitchOpens: the old session is left open in the database.
SwitchOpensOnly(c) ==
  /\ switcher.at = "closing" /\ switcher' = [switcher EXCEPT !.at = "connecting", !.of = c]
  /\ NewSession(c) /\ rows' = [rows EXCEPT ![c] = "open"] /\ sock' = Shut(switcher.by)
  /\ UNCHANGED <<loop, lost, told, reader, watchers, timerTask, starter, stopper, crossed>>

SwitchOpens(c) ==
  /\ switcher.at = "closing" /\ switcher' = [switcher EXCEPT !.at = "connecting", !.of = c]
  /\ NewSession(c) /\ rows' = [Ended(switcher.row) EXCEPT ![c] = "open"]
  /\ sock' = Shut(switcher.by)
  /\ UNCHANGED <<loop, lost, told, reader, watchers, timerTask, starter, stopper, crossed>>

SwitchConnects ==
  /\ switcher.at = "connecting" /\ switcher' = [switcher EXCEPT !.at = "greeting"]
  /\ sock' = [sock EXCEPT ![switcher.of] = "open"]
  /\ UNCHANGED <<loop, lost, told, cloud, sessionId, rows, reader, watchers, timerTask, starter,
                 stopper, crossed>>

SwitchFails ==
  /\ switcher.at \in Opening /\ switcher' = NoSwitch
  /\ Failed /\ sock' = Shut(switcher.of) /\ reader' = Killed(switcher.by)
  /\ UNCHANGED <<loop, lost, sessionId, watchers, timerTask, starter, stopper, crossed>>

\* The old connection's reader finds its socket closed and ends.
SwitchGreets ==
  /\ switcher.at = "greeting" /\ switcher' = NoSwitch
  /\ reader' = [Read(switcher.of) EXCEPT ![switcher.by] = "dead"]
  /\ Watch(switcher.of) /\ Tell("started")
  /\ UNCHANGED <<loop, lost, cloud, sessionId, rows, sock, starter, stopper, crossed>>

-----------------------------------------------------------------------------
(* Connections are lost, and close().                                      *)

\* The cloud's end: the session stays, in the state ERROR, until its limit.
CloudDrops(c) ==
  /\ sock[c] = "open" /\ sock' = [sock EXCEPT ![c] = "closed"]
  /\ reader' = IF reader[c] = "idle" THEN Killed(c) ELSE reader
  /\ UNCHANGED <<loop, lost, told, cloud, sessionId, rows, watchers, timerTask, starter, stopper,
                 switcher, crossed>>

DeviceLost ==
  /\ ~lost /\ lost' = TRUE
  /\ UNCHANGED <<loop, told, cloud, sessionId, rows, sock, reader, watchers, timerTask, starter,
                 stopper, switcher, crossed>>

\* close(): the start task is cancelled, and the session stopped if there is one.
Close ==
  /\ loop = "leaving" \/ (loop = "reading" /\ lost)
  /\ lost' = TRUE /\ starter' = NoStart
  /\ \/ StopBegins("loop", None) /\ loop' = "closing"
     \/ (Stopping \/ cloud = None) /\ loop' = "gone" /\ UNCHANGED stopper
  /\ crossed' = IF Switching /\ cloud = None THEN crossed \cup {"switch"} ELSE crossed
  /\ UNCHANGED <<told, cloud, sessionId, rows, sock, reader, watchers, timerTask, switcher>>

-----------------------------------------------------------------------------

StartStep ==
  StartAnnounced \/ StartDies \/ StartConnects \/ StartFails \/ StartGreets
StopStep == StopTakes \/ StopRaises \/ StopCloses \/ StopEnds
SwitchStep ==
  \/ SwitchCancelsWatcher \/ SwitchDies \/ SwitchTakes \/ SwitchConnects \/ SwitchFails
  \/ SwitchGreets \/ \E c \in Connections : SwitchOpens(c)

Next ==
  \/ StartStep \/ StopStep \/ SwitchStep
  \/ LoopStops \/ AlarmStops \/ DeviceLost \/ Close
  \/ \E c \in Connections :
       \/ RequestStart(c) \/ SpokenStop(c) \/ SwitchBegins(c) \/ CloudDrops(c)
       \/ WatcherStops(c) \/ WatcherLeaves(c)

Spec == Init /\ [][Next]_vars

\* Every task goes on: a connect or a close ends, a lost WebSocket is noticed,
\* and a session comes to its hard limit.
Fairness ==
  /\ WF_vars(StartStep) /\ WF_vars(StopStep) /\ WF_vars(SwitchStep) /\ WF_vars(Close)
  /\ WF_vars(\E c \in Connections : WatcherStops(c))

FairSpec == Spec /\ Fairness

-----------------------------------------------------------------------------

\* Nothing is under way in a gateway whose device is there.
Quiet == loop = "reading" /\ ~lost /\ ~Starting /\ ~Stopping /\ ~Switching

\* A metered connection is the session's, or is being closed, whatever task
\* meets another; only a connect that is stopped, and a start or a stop within
\* a switch, can leave one that nobody holds.
SocketsAreHeld ==
  \A c \in Connections : sock[c] = "open" =>
    \/ c = cloud
    \/ stopper.at = "closing" /\ stopper.of = c
    \/ switcher.at = "closing" /\ switcher.by = c
    \/ crossed # {}

\* The session there is has a watcher for its limits, over switches, stops that
\* did nothing and watchers cancelled in the middle.
HeldIsWatched ==
  Quiet /\ cloud # None => watchers # {} \/ crossed # {}

\* The database, self.session_id and the connection agree on the session there
\* is; no other is left open, also not by connects that fail.
BooksAgree ==
  Quiet /\ crossed = {} =>
    /\ \A r \in Connections : rows[r] = "open" <=> r = cloud
    /\ cloud # None => sessionId = cloud

\* The device knows whether it has a session.
DeviceIsTold ==
  Quiet /\ crossed = {} => (cloud # None <=> told = "started")

\* Every session is ended in the database, also when the cloud's connection or
\* the device is lost while it starts, stops or switches projects.
SessionsEnd ==
  \A r \in Connections : rows[r] = "open" ~> (rows[r] = "ended" \/ crossed # {})

\* What the hard limit promises: a connection that is open is the session's and
\* has a watcher, whatever was started, stopped or switched meanwhile.
OpenIsLimited ==
  Quiet => \A c \in Connections : sock[c] = "open" => c = cloud /\ watchers # {}

=============================================================================
