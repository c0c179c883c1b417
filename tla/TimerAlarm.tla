------------------------------ MODULE TimerAlarm ------------------------------
(***************************************************************************)
(* Countdown timers: rows of the timers table (gateway/db.py), the gateway *)
(* tasks that announce them to a device (app.py, session.py), and the      *)
(* firmware that rings and dismisses (realtime_companion.cpp).  One        *)
(* device; its connection may drop and come back, which also stands for a  *)
(* gateway that restarts, as rows are all that survives.                   *)
(*                                                                         *)
(* In the gateway an action is the code between two awaits; what a session *)
(* does after its connection is gone is lost with it, and is left out.     *)
(***************************************************************************)
EXTENDS Naturals, Sequences, SequencesExt

CONSTANTS
  MaxTimers,    \* bound: timers created
  MaxWakes,     \* bound: voice sessions the user starts
  MaxDrops,     \* bound: times the connection is lost
  MaxLosses,    \* bound: sends of the device that fail on a connection that stays
  ControlQueue  \* slots of control_queue_

ASSUME TimerAssumption ==
  /\ MaxTimers \in Nat /\ MaxWakes \in Nat /\ MaxDrops \in Nat
  /\ MaxLosses \in Nat /\ ControlQueue \in Nat \ {0}

Timers == 1 .. MaxTimers
None == 0                                     \* no timer: Python's None, id 0
Tasks == {"scheduler", "socket", "session"}   \* of the gateway, for one device
Alarms == [kind : {"alarm", "stop"}, timer : Timers]
ToDevice == Alarms \cup [kind : {"auth.ok", "ended"}, timer : {None}]
ToGateway == [kind : {"auth", "start", "stop"}, timer : {None}]
               \cup [kind : {"dismissed"}, timer : Timers]

VARIABLES
  status,         \* timers.status of each id
  fired,          \* ids in the order of due_at, once due
  link,           \* the device's connection: "down", "open", "up" once authenticated
  drops, losses,  \* times it was lost, and times a send failed on it
  cloud,          \* whether the session holds a cloud connection
  starting,       \* whether start_task runs: it opens the cloud connection
  stopping,       \* DeviceSession.stopping
  sent,           \* timer_alarm_sent_id
  at,             \* where each task is suspended
  held,           \* the timer a task holds in notify_pending_timer
  toDevice, toGateway,   \* the two directions of the WebSocket
  control,        \* control_queue_
  authPending, authenticated, startPending, sessionActive, \* the device's flags
  alarmId,        \* timer_alarm_id_
  handledId,      \* timer_alarm_handled_id_
  dismissPending, \* timer_dismiss_pending_id_
  chime,          \* wake_ack_pending_: the alarm's chime, or the wake chime
  wakes,          \* voice sessions started so far
  sounded,        \* the timers whose chime has been heard
  silenced        \* the timers the user dismissed at the device

rows == <<status, fired>>
gateway == <<cloud, starting, stopping, sent, at, held>>
linkVars == <<link, drops, losses>>
wires == <<toDevice, toGateway>>
session == <<authPending, authenticated, startPending, sessionActive, wakes>>
alarm == <<alarmId, handledId, dismissPending, chime>>
history == <<sounded, silenced>>
device == <<control, session, alarm, history>>
vars == <<rows, gateway, linkVars, wires, device>>

\* The types, those of the flags first.
FlagsOK ==
  /\ cloud \in BOOLEAN /\ starting \in BOOLEAN /\ stopping \in BOOLEAN
  /\ authPending \in BOOLEAN /\ authenticated \in BOOLEAN
  /\ startPending \in BOOLEAN /\ sessionActive \in BOOLEAN /\ chime \in BOOLEAN

DataOK ==
  /\ status \in [Timers -> {"none", "active", "ringing", "dismissed", "cancelled"}]
  /\ fired \in Seq(Timers)
  /\ link \in {"down", "open", "up"} /\ drops \in 0 .. MaxDrops /\ losses \in 0 .. MaxLosses
  /\ sent \in Timers \cup {None}
  /\ at \in [Tasks -> {"idle", "stopping", "closed", "ended", "sending", "replying"}]
  /\ held \in [Tasks -> Timers \cup {None}]
  /\ toDevice \in Seq(ToDevice) /\ toGateway \in Seq(ToGateway)
  /\ control \in Seq(ToGateway) /\ Len(control) <= ControlQueue
  /\ alarmId \in Timers \cup {None} /\ handledId \in Timers \cup {None}
  /\ dismissPending \in Timers \cup {None}
  /\ wakes \in 0 .. MaxWakes
  /\ sounded \subseteq Timers /\ silenced \subseteq Timers

TimerTypeOK == FlagsOK /\ DataOK

Init ==
  /\ status = [t \in Timers |-> "none"] /\ fired = <<>>
  /\ link = "down" /\ drops = 0 /\ losses = 0
  /\ cloud = FALSE /\ starting = FALSE /\ stopping = FALSE /\ sent = None
  /\ at = [k \in Tasks |-> "idle"] /\ held = [k \in Tasks |-> None]
  /\ toDevice = <<>> /\ toGateway = <<>> /\ control = <<>>
  /\ authPending = FALSE /\ authenticated = FALSE
  /\ startPending = FALSE /\ sessionActive = FALSE
  /\ alarmId = None /\ handledId = None /\ dismissPending = None /\ chime = FALSE
  /\ wakes = 0 /\ sounded = {} /\ silenced = {}

-----------------------------------------------------------------------------
(* The table.                                                              *)

\* _voice_set_timer: a tool call of the voice session.
SetTimer(t) ==
  /\ cloud /\ ~starting /\ status[t] = "none"
  /\ \A u \in 1 .. t - 1 : status[u] # "none"
  /\ status' = [status EXCEPT ![t] = "active"]
  /\ UNCHANGED <<fired, gateway, linkVars, wires, device>>

\* fire_due_timers; timers due at the same poll fire in the order of due_at.
FireDue(t) ==
  /\ status[t] = "active"
  /\ status' = [status EXCEPT ![t] = "ringing"]
  /\ fired' = Append(fired, t)
  /\ UNCHANGED <<gateway, linkVars, wires, device>>

\* next_ringing_timer: the oldest that rings, or None, with the table's contents st.
Oldest(st, t) ==
  \E i \in DOMAIN fired :
    /\ fired[i] = t /\ st[t] = "ringing"
    /\ \A j \in 1 .. i - 1 : st[fired[j]] # "ringing"

NextRinging(st) ==
  IF \E t \in Timers : Oldest(st, t) THEN CHOOSE t \in Timers : Oldest(st, t) ELSE None

-----------------------------------------------------------------------------
(* The gateway.                                                            *)

Message(kind, t) == [kind |-> kind, timer |-> t]
Suspend(k, where, t) == at' = [at EXCEPT ![k] = where] /\ held' = [held EXCEPT ![k] = t]

\* A send reaches the device only on the connection it has now.
SendUp(kind, t) ==
  toDevice' = IF link = "up" THEN Append(toDevice, Message(kind, t)) ELSE toDevice

\* A handler that sends nothing returns.
Return(k) == Suspend(k, "idle", None)

\* notify_pending_timer from its start to its first await, with the table's
\* contents st and the id last sent.
NotifyPending(k, st, id) ==
  LET t == NextRinging(st) IN
  IF stopping \/ t = None \/ t = id
  THEN Return(k) /\ UNCHANGED <<cloud, starting, stopping, toDevice>>
  ELSE IF cloud
  THEN Suspend(k, "stopping", t) /\ stopping' = TRUE
       /\ UNCHANGED <<cloud, starting, toDevice>>
  ELSE Suspend(k, "sending", t) /\ toDevice' = Append(toDevice, Message("alarm", t))
       /\ UNCHANGED <<cloud, starting, stopping>>

\* _run_timers polls.
SchedulerPolls ==
  /\ link = "up" /\ at["scheduler"] = "idle"
  /\ NextRinging(status) \notin {None, sent} /\ ~stopping
  /\ NotifyPending("scheduler", status, sent)
  /\ UNCHANGED <<rows, sent, linkVars, toGateway, device>>

\* The session ends itself: spoken end, idle timeout, hard limit.
SessionStops ==
  /\ link = "up" /\ at["session"] = "idle" /\ cloud /\ ~starting /\ ~stopping
  /\ Suspend("session", "stopping", None) /\ stopping' = TRUE
  /\ UNCHANGED <<rows, cloud, starting, sent, linkVars, wires, device>>

\* stop(): its sends and tasks, then the cloud is dropped and closed...
StopCloses(k) ==
  /\ link = "up" /\ at[k] = "stopping"
  /\ cloud' = FALSE /\ Suspend(k, "closed", held[k])
  /\ UNCHANGED <<rows, starting, stopping, sent, linkVars, wires, device>>

\* ...and session.ended is sent.
StopSends(k) ==
  /\ link = "up" /\ at[k] = "closed"
  /\ Suspend(k, "ended", held[k])
  /\ toDevice' = Append(toDevice, Message("ended", None))
  /\ UNCHANGED <<rows, cloud, starting, stopping, sent, linkVars, toGateway, device>>

\* stop() returns; in notify_pending_timer the alarm is sent next.
StopReturns(k) ==
  /\ link = "up" /\ at[k] = "ended"
  /\ stopping' = FALSE
  /\ IF held[k] = None
     THEN Return(k) /\ UNCHANGED toDevice
     ELSE Suspend(k, "sending", held[k])
          /\ toDevice' = Append(toDevice, Message("alarm", held[k]))
  /\ UNCHANGED <<rows, cloud, starting, sent, linkVars, toGateway, device>>

\* The alarm is out.
AlarmSent(k) ==
  /\ link = "up" /\ at[k] = "sending"
  /\ sent' = held[k] /\ Return(k)
  /\ UNCHANGED <<rows, cloud, starting, stopping, linkVars, wires, device>>

\* auth.ok or a timer.stop is out: notify_pending_timer is next.
ReplySent ==
  /\ link = "up" /\ at["socket"] = "replying"
  /\ NotifyPending("socket", status, sent)
  /\ UNCHANGED <<rows, sent, linkVars, toGateway, device>>

\* _voice_cancel_timer, by the cloud's reader
CancelTimer(t) ==
  /\ cloud /\ ~starting /\ status[t] \in {"active", "ringing"}
  /\ status' = [status EXCEPT ![t] = "cancelled"]
  /\ IF sent = t
     THEN sent' = None /\ SendUp("stop", t)
     ELSE UNCHANGED <<sent, toDevice>>
  /\ UNCHANGED <<fired, cloud, starting, stopping, at, held, linkVars, toGateway, device>>

\* device_socket reads its next message.
Read(kind) ==
  /\ at["socket"] = "idle"
  /\ toGateway # <<>> /\ Head(toGateway).kind = kind
  /\ toGateway' = Tail(toGateway)

\* The first message of a connection must be auth: a new DeviceSession replaces
\* the one before and answers auth.ok.
ReadAuth ==
  /\ link = "open" /\ toGateway # <<>> /\ Head(toGateway).kind = "auth"
  /\ toGateway' = Tail(toGateway)
  /\ link' = "up" /\ cloud' = FALSE /\ starting' = FALSE /\ stopping' = FALSE
  /\ sent' = None
  /\ at' = [k \in Tasks |-> IF k = "socket" THEN "replying" ELSE "idle"]
  /\ held' = [k \in Tasks |-> None]
  /\ toDevice' = <<Message("auth.ok", None)>>
  /\ UNCHANGED <<rows, drops, losses, device>>

\* session.start: request_start, with start up to its first await; answered
\* session.active when there is a cloud already, or start_task still runs.
ReadStart ==
  /\ link = "up" /\ Read("start")
  /\ cloud' = (cloud \/ ~starting) /\ starting' = (starting \/ ~cloud)
  /\ UNCHANGED <<rows, stopping, sent, at, held, linkVars, toDevice, device>>

\* start returns, or finds no cloud: no session.ended then.
StartReturns ==
  /\ link = "up" /\ starting /\ starting' = FALSE
  /\ cloud' \in {cloud, FALSE}
  /\ UNCHANGED <<rows, stopping, sent, at, held, linkVars, wires, device>>

\* session.stop
ReadStop ==
  /\ link = "up" /\ Read("stop")
  /\ IF stopping \/ ~cloud
     THEN UNCHANGED <<stopping, at, held>>
     ELSE Suspend("socket", "stopping", None) /\ stopping' = TRUE
  /\ UNCHANGED <<rows, cloud, starting, sent, linkVars, toDevice, device>>

\* timer_dismissed: only a ringing row is closed; then the next alarm, if any.
ReadDismissed ==
  /\ link = "up" /\ Read("dismissed")
  /\ LET t == Head(toGateway).timer
         closed == [status EXCEPT ![t] = "dismissed"] IN
     IF status[t] # "ringing"
     THEN UNCHANGED <<status, gateway, toDevice>>
     ELSE /\ status' = closed
          /\ IF sent = t
             THEN /\ sent' = None /\ Suspend("socket", "replying", None)
                  /\ toDevice' = Append(toDevice, Message("stop", t))
                  /\ UNCHANGED <<cloud, starting, stopping>>
             ELSE NotifyPending("socket", closed, sent) /\ UNCHANGED sent
  /\ UNCHANGED <<fired, linkVars, device>>

GatewayStep ==
  \/ SchedulerPolls \/ SessionStops \/ ReplySent
  \/ \E k \in Tasks : StopCloses(k) \/ StopSends(k) \/ StopReturns(k) \/ AlarmSent(k)
  \/ ReadAuth \/ ReadStart \/ StartReturns \/ ReadStop \/ ReadDismissed

-----------------------------------------------------------------------------
(* The connection.                                                         *)

\* WEBSOCKET_EVENT_DISCONNECTED
Disconnected ==
  /\ link' = "down" /\ toDevice' = <<>> /\ toGateway' = <<>>
  /\ authenticated' = FALSE /\ authPending' = FALSE /\ startPending' = FALSE
  /\ control' = <<>> /\ chime' = FALSE
  /\ UNCHANGED <<sessionActive, wakes, alarmId, handledId, dismissPending, history>>

Drop ==
  /\ link # "down" /\ drops < MaxDrops /\ drops' = drops + 1
  /\ Disconnected
  /\ UNCHANGED <<rows, gateway, losses>>

\* A gateway that reads anything else first, or nothing for 5 s, closes: time enough
\* for an auth that is not lost.
RejectFirst ==
  /\ link = "open"
  /\ IF toGateway # <<>>
     THEN Head(toGateway).kind # "auth"
     ELSE ~authPending /\ Message("auth", None) \notin ToSet(control)
  /\ Disconnected
  /\ UNCHANGED <<rows, gateway, drops, losses>>

\* The WebSocket client reconnects: WEBSOCKET_EVENT_CONNECTED.
Connected ==
  /\ link = "down" /\ link' = "open"
  /\ control' = <<>> /\ authenticated' = FALSE /\ authPending' = TRUE
  /\ UNCHANGED <<rows, gateway, drops, losses, wires, startPending, sessionActive, wakes, alarm,
                 history>>

-----------------------------------------------------------------------------
(* The device: the WebSocket task.                                         *)

Receive(kind) ==
  /\ toDevice # <<>> /\ Head(toDevice).kind = kind
  /\ toDevice' = Tail(toDevice)
  /\ UNCHANGED <<rows, gateway, linkVars, toGateway, control, history>>

ReceiveAuthOk ==
  /\ Receive("auth.ok")
  /\ authenticated' = TRUE
  /\ startPending' = (startPending \/ sessionActive)
  /\ UNCHANGED <<authPending, sessionActive, wakes, alarm>>

\* Mutant of ReceiveEnded: takes what rings with it.
EndedEndsAlarm ==
  /\ Receive("ended")
  /\ sessionActive' = FALSE /\ chime' = FALSE /\ alarmId' = None
  /\ UNCHANGED <<authPending, authenticated, startPending, wakes, handledId, dismissPending>>

\* session.ended flushes playback, which takes the chime with it.
ReceiveEnded ==
  /\ Receive("ended")
  /\ sessionActive' = FALSE /\ chime' = FALSE
  /\ UNCHANGED <<authPending, authenticated, startPending, wakes, alarmId, handledId,
                 dismissPending>>

ReceiveAlarm ==
  /\ Receive("alarm")
  /\ alarmId' = Head(toDevice).timer
  /\ UNCHANGED <<session, handledId, dismissPending, chime>>

\* timer.stop, of the alarm that rings
ReceiveStop ==
  /\ Receive("stop")
  /\ alarmId' = IF alarmId = Head(toDevice).timer THEN None ELSE alarmId
  /\ UNCHANGED <<session, handledId, dismissPending, chime>>

-----------------------------------------------------------------------------
(* The device: the main loop, the sender task, the user.                   *)

\* Mutant of CanQueue: does not look for a slot.
CanQueueUnbounded == link # "down"

\* send_json: queued when the client is connected and a slot is free.
CanQueue == link # "down" /\ Len(control) < ControlQueue
Queue(kind, t) == control' = Append(control, Message(kind, t))

SendAuth ==
  /\ authPending /\ CanQueue /\ Queue("auth", None)
  /\ authPending' = FALSE
  /\ UNCHANGED <<rows, gateway, linkVars, wires, authenticated, startPending, sessionActive,
                 wakes, alarm, history>>

\* process_timer_alarm: a new alarm, or none any more
HandleAlarm ==
  /\ alarmId # handledId
  /\ handledId' = alarmId /\ chime' = FALSE
  /\ UNCHANGED <<rows, gateway, linkVars, wires, control, session, alarmId, dismissPending,
                 history>>

\* A chime is due; never during a voice session.
StartChime ==
  /\ alarmId # None /\ alarmId = handledId /\ ~chime /\ ~sessionActive
  /\ chime' = TRUE
  /\ UNCHANGED <<rows, gateway, linkVars, wires, control, session, alarmId, handledId,
                 dismissPending, history>>

\* process_wake_ack: the chime sounds.
PlayChime ==
  /\ chime /\ chime' = FALSE
  /\ sounded' = IF alarmId = handledId THEN sounded \cup ({alarmId} \ {None}) ELSE sounded
  /\ UNCHANGED <<rows, gateway, linkVars, wires, control, session, alarmId, handledId,
                 dismissPending, silenced>>

\* dismiss_timer_alarm
DismissAlarm ==
  /\ alarmId # None
  /\ alarmId' = None /\ dismissPending' = alarmId /\ chime' = FALSE
  /\ UNCHANGED <<rows, gateway, linkVars, wires, control, session, handledId, sounded>>

\* A minute has passed: time for a chime, unless a voice session went on.
AlarmTimeout ==
  /\ alarmId = handledId
  /\ alarmId \in sounded \/ sessionActive
  /\ DismissAlarm /\ UNCHANGED silenced

\* Mutant of SendDismissal: forgets the dismissal though no slot was free.
SendDismissalOnce ==
  /\ dismissPending # None
  /\ IF CanQueue THEN Queue("dismissed", dismissPending) ELSE UNCHANGED control
  /\ dismissPending' = None
  /\ UNCHANGED <<rows, gateway, linkVars, wires, session, alarmId, handledId, chime, history>>

\* A dismissal waits for a slot, and for the connection.
SendDismissal ==
  /\ dismissPending # None /\ CanQueue /\ Queue("dismissed", dismissPending)
  /\ dismissPending' = None
  /\ UNCHANGED <<rows, gateway, linkVars, wires, session, alarmId, handledId, chime, history>>

SendStart ==
  /\ startPending /\ authenticated /\ sessionActive /\ ~chime
  /\ CanQueue /\ Queue("start", None)
  /\ startPending' = FALSE
  /\ UNCHANGED <<rows, gateway, linkVars, wires, authPending, authenticated, sessionActive,
                 wakes, alarm, history>>

\* run_audio_sender.  A send that times out loses its message.
SendControl(lost) ==
  /\ control # <<>> /\ control' = Tail(control) /\ link # "down"
  /\ IF lost
     THEN losses < MaxLosses /\ losses' = losses + 1 /\ UNCHANGED toGateway
     ELSE toGateway' = Append(toGateway, Head(control)) /\ UNCHANGED losses
  /\ UNCHANGED <<rows, gateway, link, drops, toDevice, session, alarm, history>>

\* The wake word or USER: dismisses an alarm...
UserDismisses ==
  /\ DismissAlarm
  /\ silenced' = silenced \cup {alarmId}

\* ...or starts a session, after the wake chime when it was the wake word...
UserStarts(withChime) ==
  /\ alarmId = None /\ ~sessionActive
  /\ wakes < MaxWakes /\ wakes' = wakes + 1
  /\ sessionActive' = TRUE
  /\ startPending' = (startPending \/ authenticated)
  /\ chime' = (chime \/ withChime)
  /\ UNCHANGED <<rows, gateway, linkVars, wires, control, authPending, authenticated,
                 alarmId, handledId, dismissPending, history>>

\* ...or ends one; the message is not sent again when it finds no room.
UserStops ==
  /\ alarmId = None /\ sessionActive
  /\ sessionActive' = FALSE /\ chime' = FALSE
  /\ IF CanQueue THEN Queue("stop", None) ELSE UNCHANGED control
  /\ UNCHANGED <<rows, gateway, linkVars, wires, authPending, authenticated, startPending,
                 wakes, alarmId, handledId, dismissPending, history>>

WebSocketTask == ReceiveAuthOk \/ ReceiveEnded \/ ReceiveAlarm \/ ReceiveStop

DeviceStep ==
  \/ WebSocketTask
  \/ SendAuth \/ HandleAlarm \/ StartChime \/ PlayChime \/ AlarmTimeout
  \/ SendDismissal \/ SendStart
  \/ UserDismisses \/ UserStops
  \/ \E b \in BOOLEAN : SendControl(b) \/ UserStarts(b)

TableStep == \E t \in Timers : SetTimer(t) \/ FireDue(t) \/ CancelTimer(t)

Next == TableStep \/ GatewayStep \/ Drop \/ RejectFirst \/ Connected \/ DeviceStep

Spec == Init /\ [][Next]_vars

\* Tasks and loops go on, the client reconnects; nothing is asked of the user.
Fairness ==
  /\ WF_vars(SchedulerPolls)
  /\ WF_vars(ReadAuth \/ ReadStart \/ ReadStop \/ ReadDismissed \/ ReplySent)
  /\ \A k \in Tasks : WF_vars(StopCloses(k) \/ StopSends(k) \/ StopReturns(k) \/ AlarmSent(k))
  /\ WF_vars(Connected) /\ WF_vars(RejectFirst) /\ WF_vars(WebSocketTask)
  /\ WF_vars(SendAuth) /\ WF_vars(HandleAlarm) /\ WF_vars(StartChime) /\ WF_vars(PlayChime)
  /\ WF_vars(AlarmTimeout) /\ WF_vars(SendDismissal)
  /\ WF_vars(\E b \in BOOLEAN : SendControl(b))

FairSpec == Spec /\ Fairness

-----------------------------------------------------------------------------
(* Properties.                                                             *)

\* What the gateway believes it has announced has been: unless the device has
\* dismissed it, the alarm it last sent is on its way or rings, whichever task sent
\* it and whatever it was stopping meanwhile.  Nothing sends it again.
AnnouncedRings ==
  link = "up" /\ sent # None /\ status[sent] = "ringing" =>
    \/ alarmId = sent \/ dismissPending = sent
    \/ Message("alarm", sent) \in ToSet(toDevice)
    \/ Message("dismissed", sent) \in ToSet(control \o toGateway)

\* A timer that has come due does not stay ringing for ever: it is cancelled, dismissed
\* by the user, or by the device after a minute, through a lost connection and a voice
\* session that starts meanwhile.
EveryAlarmEnds == \A t \in Timers : (status[t] = "ringing") ~> (status[t] # "ringing")

\* "The device rings when it expires" (voice_commands.py): a timer that has come due is
\* heard or dismissed at the device some time, unless it ends before, whatever became
\* of the timers before it.
DueTimerRings ==
  \A t \in Timers : (status[t] = "ringing") ~>
    (t \in sounded \cup silenced \/ status[t] # "ringing")

=============================================================================
