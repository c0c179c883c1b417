---------------------------- MODULE SessionSystem -----------------------------
(***************************************************************************)
(* The firmware's session (SessionDevice) against the gateway as the       *)
(* device meets it: it authenticates, opens a session in a task of its own *)
(* while it goes on reading the socket, waits for the ready word, and ends *)
(* the session when told to or by itself.  SessionGateway has the details. *)
(*                                                                         *)
(* The socket keeps the order of what it carries and loses all of it when  *)
(* the connection goes; the gateway then ends the session.                 *)
(***************************************************************************)
EXTENDS SessionDevice

CONSTANT MaxDrops    \* bound: times the connection is lost

ASSUME SystemAssumption == MaxDrops \in Nat

VARIABLES
  gateway,   \* its session: "off", "opening", "orphan" (ended while it opens), "on",
             \* "waiting" (for the ready word), "switching" (projects), "closing"
  told,      \* the session whose session.start the gateway serves; 0 is none
  known,     \* the volume it was told: "volume.up", "volume.off", or "unknown" before that
  drops,     \* times the connection was lost
  crossed    \* what met a start or a stop under way: another "press", a "switch" of projects

gatewayVars == <<gateway, told, known>>
vars == <<deviceVars, gatewayVars, drops, crossed>>

SessionTypeOK ==
  /\ DeviceTypeOK
  /\ gateway \in {"off", "opening", "orphan", "on", "waiting", "switching", "closing"}
  /\ told \in 0 .. MaxSessions /\ known \in {"unknown", "volume.up", "volume.off"}
  /\ drops \in 0 .. MaxDrops
  /\ crossed \subseteq {"press", "switch"}

Init ==
  /\ DeviceInit
  /\ gateway = "off" /\ told = 0 /\ known = "unknown"
  /\ drops = 0 /\ crossed = {}

-----------------------------------------------------------------------------
(* The gateway.                                                            *)

NotDevice == <<link, authVars, flagVars, muted, sessionVars, loud, chime, asking, micVars, capture,
               controlVars, senderVars>>

\* Commands of these kinds are still on their way to the gateway.
Asked(kinds) ==
  \E q \in {control, toGateway} : \E i \in DOMAIN q : q[i].kind \in kinds

\* A session asked for or ended, and not yet answered.
Outstanding ==
  \/ Asked({"session.start", "session.stop"})
  \/ gateway \in {"opening", "orphan", "switching", "closing"}
  \/ \E i \in DOMAIN toDevice : toDevice[i] \in {"session.started", "session.ended"}

Say(answers) == toDevice' = toDevice \o answers

Take(kind) ==
  /\ toGateway # <<>> /\ Head(toGateway).kind = kind
  /\ toGateway' = Tail(toGateway)
  /\ UNCHANGED <<NotDevice, events, drops, crossed>>

GatewayAuth ==
  /\ Take("auth") /\ Say(<<"auth.ok">>) /\ UNCHANGED gatewayVars

\* request_start(): refused (with an answer the device does not know) while a
\* session is open or a start is under way.
GatewayStart ==
  /\ Take("session.start")
  /\ IF gateway = "off" THEN gateway' = "opening" /\ told' = Head(toGateway).of
     ELSE UNCHANGED <<gateway, told>>
  /\ UNCHANGED <<toDevice, known>>

\* stop() does nothing without a cloud connection object; while start() awaits
\* the connection it ends the session, and start() goes on all the same.
GatewayStop ==
  /\ Take("session.stop") /\ UNCHANGED known
  /\ \/ /\ gateway \in {"off", "opening", "orphan", "switching", "closing"}
        /\ UNCHANGED <<gateway, told, toDevice>>
     \/ /\ gateway = "opening"
        /\ gateway' = "orphan" /\ told' = 0 /\ Say(<<"keyword.wake", "session.ended">>)
     \/ /\ gateway \in {"on", "waiting", "switching"}
        /\ gateway' = "closing" /\ UNCHANGED <<told, toDevice>>

GatewayAudio ==
  /\ Take("audio") /\ UNCHANGED <<gatewayVars, toDevice>>

GatewayReady ==
  /\ Take("ready.detected")
  /\ IF gateway = "waiting" THEN gateway' = "on" /\ Say(<<"keyword.wake">>)
     ELSE UNCHANGED <<gateway, toDevice>>
  /\ UNCHANGED <<told, known>>

GatewayReport ==
  /\ \/ Take("state") /\ UNCHANGED known
     \/ \E kind \in {"volume.up", "volume.off"} : Take(kind) /\ known' = kind
  /\ UNCHANGED <<gateway, told, toDevice>>

GatewayReads ==
  \/ GatewayAuth \/ GatewayStart \/ GatewayStop \/ GatewayAudio \/ GatewayReady \/ GatewayReport

\* What the gateway does of its own accord, while the socket is open.
Acts ==
  /\ link \in {"opening", "up"}
  /\ UNCHANGED <<NotDevice, toGateway, known, drops>>

GatewayOpened ==
  /\ Acts /\ gateway \in {"opening", "switching", "orphan"}
  /\ gateway' = (IF gateway = "orphan" THEN "off" ELSE "on")
  /\ Say(<<"session.started", "keyword.wake">>) /\ UNCHANGED <<told, events, crossed>>

GatewayFails ==
  /\ Acts /\ gateway \in {"opening", "switching", "orphan"}
  /\ gateway' = "off" /\ told' = 0 /\ UNCHANGED <<toDevice, events, crossed>>

GatewayCloses ==
  /\ Acts /\ gateway = "closing"
  /\ gateway' = "off" /\ told' = 0 /\ Say(<<"keyword.wake", "session.ended">>)
  /\ UNCHANGED <<events, crossed>>

GatewayEnds ==
  /\ Acts /\ gateway \in {"on", "waiting"} /\ gateway' = "closing"
  /\ UNCHANGED <<told, toDevice, events, crossed>>

GatewayWaits ==
  /\ Acts /\ gateway = "on" /\ events < MaxEvents
  /\ gateway' = "waiting" /\ Say(<<"keyword.ready">>) /\ events' = events + 1
  /\ UNCHANGED <<told, crossed>>

\* A project switch closes one cloud connection and opens another; a stop that
\* comes meanwhile finds none and does nothing.
GatewaySwitches ==
  /\ Acts /\ gateway = "on" /\ events < MaxEvents
  /\ gateway' = "switching" /\ Say(<<"keyword.wake">>) /\ events' = events + 1
  /\ crossed' = crossed \cup (IF Asked({"session.stop"}) THEN {"switch"} ELSE {})
  /\ UNCHANGED <<told>>

GatewaySetsVolume ==
  /\ Acts /\ (authenticated \/ \E i \in DOMAIN toDevice : toDevice[i] = "auth.ok")
  /\ events < MaxEvents /\ events' = events + 1
  /\ \E level \in {"volume.up", "volume.off"} : Say(<<level>>)
  /\ UNCHANGED <<gateway, told, crossed>>

-----------------------------------------------------------------------------
(* The connection.                                                         *)

LinkLost ==
  /\ Connected /\ drops < MaxDrops /\ drops' = drops + 1
  /\ link' = IF link = "opening" THEN "down" ELSE "closing"
  /\ toGateway' = <<>> /\ toDevice' = <<>>
  /\ gateway' = "off" /\ told' = 0
  /\ UNCHANGED <<authVars, flagVars, userVars, loud, chime, asking, micVars, capture, controlVars,
                 senderVars, known, crossed>>

\* Not within a frame's write, which is given up sooner than the client tries again.
LinkOpens ==
  /\ link = "down" /\ sending = <<>> /\ link' = "opening"
  /\ UNCHANGED <<authVars, flagVars, userVars, loud, chime, asking, micVars, capture, controlVars,
                 senderVars, toGateway, toDevice, gatewayVars, drops, crossed>>

-----------------------------------------------------------------------------

User ==
  /\ UserStep
  /\ crossed' = crossed \cup (IF Outstanding /\ active' # active
                             THEN {IF gateway = "switching" THEN "switch" ELSE "press"}
                             ELSE {})
  /\ UNCHANGED <<gatewayVars, drops>>

Elsewhere == UNCHANGED <<gatewayVars, drops, crossed>>

Tasks == (LoopStep \/ MicStep \/ SenderStep \/ WebSocketStep) /\ Elsewhere

GatewayStep ==
  \/ GatewayReads \/ GatewayOpened \/ GatewayFails \/ GatewayCloses \/ GatewayEnds
  \/ GatewayWaits \/ GatewaySwitches \/ GatewaySetsVolume

Next == User \/ Tasks \/ GatewayStep \/ LinkLost \/ LinkOpens

Spec == Init /\ [][Next]_vars

\* As long as the main loop, the sender or the WebSocket task can run, the client
\* reconnect, or the gateway read or end a connect or a close, one of them does; the user,
\* the faults and the gateway's own ends are free.
Fairness ==
  WF_vars(((LoopStep \/ SenderStep \/ WebSocketStep) /\ Elsewhere)
          \/ LinkOpens \/ GatewayReads \/ GatewayOpened \/ GatewayFails \/ GatewayCloses)

FairSpec == Spec /\ Fairness

-----------------------------------------------------------------------------

\* The gateway serves session n when it reads the i-th message on the socket.
Serves(i, n) ==
  LET Turn(j) == toGateway[j].kind \in {"session.start", "session.stop"}
  IN \/ n = told /\ \A j \in 1 .. i - 1 : ~Turn(j)
     \/ \E j \in 1 .. i - 1 : /\ toGateway[j].kind = "session.start" /\ toGateway[j].of = n
                              /\ \A k \in j + 1 .. i - 1 : ~Turn(k)

\* Something of a session before n: a frame that is sent, or about to be, or being made.
Older(q, n) == \E i \in DOMAIN q : q[i].kind = "audio" /\ q[i].of < n

\* What was said before a session was asked for is not sent into it, whatever was left in
\* the queues or in the sender's hands - but for the one frame that a half-filled one
\* becomes, and that only if the session began before the microphone task's next callback.
OldSpeechIsDropped ==
  \A i \in DOMAIN toGateway, n \in 0 .. MaxSessions :
    Serves(i, n) /\ Older(<<toGateway[i]>>, n) =>
      /\ n \in hasty
      /\ \A q \in {SubSeq(toGateway, i + 1, Len(toGateway)), sending, capture, building, sample} :
           ~Older(q, n)

\* Each start and each stop was settled before the next, and no stop was lost on the way.
Apart == crossed = {} /\ "session.stop" \notin lost

\* The chime's own sound is never sent as the user's first words, while starts and stops
\* are apart.
EchoStaysHome ==
  \A i \in DOMAIN toGateway : toGateway[i].echo => ~Apart

\* Every message is in, and the gateway holds a session the device takes no
\* part in: it runs, and costs, until it times out.
Unattended ==
  /\ gateway \in {"on", "waiting"} /\ ~(active /\ streamReady)
  /\ control = <<>> /\ toGateway = <<>> /\ toDevice = <<>> /\ ~asking

\* A session the gateway holds open is one the device takes part in, unless a
\* start or a stop met another, or a switch of projects, under way, or a stop was lost.
SessionIsAttended == Unattended => ~Apart

\* The button ends a session whose start is settled, whatever the gateway is
\* doing at the time, once the gateway has been told.
StopEndsTheSession == Unattended => "press" \in crossed \/ "session.stop" \in lost

\* At most one ready word is on its way, however often it is said, while starts and stops
\* are apart: else the word of the session before may still be on its way.
ReadyOnce ==
  LET Ready(q) == {i \in DOMAIN q : q[i].kind = "ready.detected"}
  IN Apart => \A i, j \in Ready(control \o toGateway) : i = j

\* Once nothing is on its way, the gateway shows the volume the device has, unless it is
\* the last report that was lost: the next one, or the next connection, makes up for it.
VolumeAgrees ==
  (link = "up" /\ authenticated /\ toDevice = <<>> /\ toGateway = <<>> /\ control = <<>>
   /\ lost \cap Reports = {})
  => known = (IF loud THEN "volume.up" ELSE "volume.off")

\* A session the user starts reaches the gateway, over chimes and lost connections, unless
\* it ends first, it was not apart from the last one, or what asks for it is lost on a
\* connection that stays: nobody asks twice on one connection.
WakeIsHeard ==
  (active /\ ~streamReady /\ ~asking) ~>
    (told = session \/ ~active \/ ~Apart \/ {"auth", "session.start"} \cap lost # {})

=============================================================================
