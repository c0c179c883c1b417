--------------------------- MODULE TimerAlarmProof ---------------------------
(***************************************************************************)
(* TimerAlarm is type correct, for every value of its constants (the flags *)
(* are kept apart from the rest, and proved with Zenon), and what the      *)
(* gateway has announced rings, as long as no send of the device fails on  *)
(* a connection that stays: for any number of timers, sessions, lost       *)
(* connections and slots.                                                  *)
(*                                                                         *)
(* AnnouncedRings speaks of timer_alarm_sent_id, set after the alarm went  *)
(* out; in between other tasks run.  The invariant therefore follows every *)
(* timer that some task has sent or is sending.  Bookkeeping: there is one *)
(* such timer, the oldest that rings, because a task picks it and sends it *)
(* under stopping or without an await.  Delivery: its alarm is the last on *)
(* the wire, or it rings, or its dismissal comes back; no timer.stop takes *)
(* it away, as those are of closed timers.                                 *)
(***************************************************************************)
EXTENDS TimerAlarm, TLAPS

\* Every message the gateway or the device builds is one of the protocol.
LEMMA MessageType ==
  ASSUME NEW t
  PROVE  /\ \A kind \in {"alarm", "stop"} : t \in Timers => Message(kind, t) \in ToDevice
         /\ \A kind \in {"auth.ok", "ended"} : Message(kind, None) \in ToDevice
         /\ \A kind \in {"auth", "start", "stop"} : Message(kind, None) \in ToGateway
         /\ t \in Timers => Message("dismissed", t) \in ToGateway
  BY DEF Message, ToDevice, ToGateway, Alarms

\* The id that stands for no timer is not one.
LEMMA NoneIsNoTimer == None \notin Timers
  BY DEF None, Timers

\* next_ringing_timer gives the oldest timer that rings, or none.
LEMMA NextRingingIsOldest ==
  ASSUME NEW st
  PROVE  /\ NextRinging(st) \in Timers \cup {None}
         /\ NextRinging(st) # None => NextRinging(st) \in Timers /\ Oldest(st, NextRinging(st))
<1> HIDE DEF Timers, Oldest
<1>1. CASE \E t \in Timers : Oldest(st, t)
  BY <1>1 DEF NextRinging
<1>2. CASE ~ \E t \in Timers : Oldest(st, t)
  BY <1>2 DEF NextRinging
<1> QED BY <1>1, <1>2

\* notify_pending_timer returns, stops the session first, or sends the alarm.
LEMMA NotifyCases ==
  ASSUME NEW k, NEW st, NEW id, NotifyPending(k, st, id)
  PROVE  \/ Return(k) /\ UNCHANGED <<cloud, starting, stopping, toDevice>>
         \/ /\ NextRinging(st) # None /\ ~stopping /\ cloud
            /\ Suspend(k, "stopping", NextRinging(st))
            /\ stopping' = TRUE /\ UNCHANGED <<cloud, starting, toDevice>>
         \/ /\ NextRinging(st) # None /\ ~stopping /\ ~cloud
            /\ Suspend(k, "sending", NextRinging(st))
            /\ toDevice' = Append(toDevice, Message("alarm", NextRinging(st)))
            /\ UNCHANGED <<cloud, starting, stopping>>
  BY Zenon DEF NotifyPending

\* Whichever it does, what it changes keeps its type.
LEMMA NotifyType ==
  ASSUME TimerTypeOK, NEW k \in Tasks, NEW st, NEW id, NotifyPending(k, st, id)
  PROVE  /\ cloud' \in BOOLEAN /\ starting' \in BOOLEAN /\ stopping' \in BOOLEAN
         /\ at' \in [Tasks -> {"idle", "stopping", "closed", "ended", "sending", "replying"}]
         /\ held' \in [Tasks -> Timers \cup {None}]
         /\ toDevice' \in Seq(ToDevice)
<1>1. cloud' \in BOOLEAN /\ starting' \in BOOLEAN /\ stopping' \in BOOLEAN
  BY NotifyCases, Zenon DEF TimerTypeOK, FlagsOK
<1>2. /\ at' \in [Tasks -> {"idle", "stopping", "closed", "ended", "sending", "replying"}]
      /\ held' \in [Tasks -> Timers \cup {None}]
      /\ toDevice' \in Seq(ToDevice)
  <2> DEFINE t == NextRinging(st)
  <2>1. t # None => t \in Timers /\ Message("alarm", t) \in ToDevice
    BY NextRingingIsOldest, MessageType
  <2>2. CASE Return(k) /\ UNCHANGED toDevice
    BY <2>2 DEF TimerTypeOK, DataOK, Suspend, Return
  <2>3. CASE t # None /\ Suspend(k, "stopping", t) /\ UNCHANGED toDevice
    BY <2>1, <2>3 DEF TimerTypeOK, DataOK, Suspend
  <2>4. CASE t # None /\ Suspend(k, "sending", t)
             /\ toDevice' = Append(toDevice, Message("alarm", t))
    <3> HIDE DEF t
    <3> QED BY <2>1, <2>4 DEF TimerTypeOK, DataOK, Suspend
  <2> QED BY NotifyCases, <2>2, <2>3, <2>4
<1> QED BY <1>1, <1>2

\* The tuples of variables are abbreviations.
USE DEF rows, gateway, linkVars, wires, session, alarm, history, device

\* A change of the table keeps the types.
LEMMA TableType == ASSUME TimerTypeOK, TableStep PROVE TimerTypeOK'
<1>1. ASSUME NEW t \in Timers, SetTimer(t) PROVE TimerTypeOK'
  <2>1. DataOK'
    BY <1>1 DEF SetTimer, TimerTypeOK, DataOK
  <2>2. FlagsOK'
    BY <1>1, Zenon DEF SetTimer, TimerTypeOK, FlagsOK
  <2> QED BY <2>1, <2>2 DEF TimerTypeOK
<1>2. ASSUME NEW t \in Timers, FireDue(t) PROVE TimerTypeOK'
  <2>1. DataOK'
    BY <1>2 DEF FireDue, TimerTypeOK, DataOK
  <2>2. FlagsOK'
    BY <1>2, Zenon DEF FireDue, TimerTypeOK, FlagsOK
  <2> QED BY <2>1, <2>2 DEF TimerTypeOK
<1>3. ASSUME NEW t \in Timers, CancelTimer(t) PROVE TimerTypeOK'
  <2>1. DataOK'
    <3>1. sent' \in Timers \cup {None} /\ status' = [status EXCEPT ![t] = "cancelled"]
      BY <1>3 DEF CancelTimer, TimerTypeOK, DataOK
    <3>2. toDevice' \in {toDevice, Append(toDevice, Message("stop", t))}
      BY <1>3 DEF CancelTimer, SendUp
    <3>3. toDevice' \in Seq(ToDevice)
      <4>1. Message("stop", t) \in ToDevice
        BY MessageType
      <4>2. Append(toDevice, Message("stop", t)) \in Seq(ToDevice)
        <5> HIDE DEF Message, ToDevice
        <5> QED BY <4>1 DEF TimerTypeOK, DataOK
      <4> QED BY <3>2, <4>2 DEF TimerTypeOK, DataOK
    <3>4. UNCHANGED <<fired, at, held, linkVars, toGateway, device>>
      BY <1>3 DEF CancelTimer
    <3> QED BY <3>1, <3>3, <3>4 DEF TimerTypeOK, DataOK
  <2>2. FlagsOK'
    BY <1>3, Zenon DEF CancelTimer, SendUp, TimerTypeOK, FlagsOK
  <2> QED BY <2>1, <2>2 DEF TimerTypeOK
<1> QED BY <1>1, <1>2, <1>3 DEF TableStep

\* A step of a gateway task keeps the types.
LEMMA GatewayType == ASSUME TimerTypeOK, GatewayStep PROVE TimerTypeOK'
<1>1. CASE SchedulerPolls
  <2>1. DataOK'
    BY <1>1, NotifyType DEF SchedulerPolls, Tasks, TimerTypeOK, DataOK
  <2>2. FlagsOK'
    <3>1. NotifyPending("scheduler", status, sent) /\ "scheduler" \in Tasks
      BY <1>1 DEF SchedulerPolls, Tasks
    <3>2. cloud' \in BOOLEAN /\ starting' \in BOOLEAN /\ stopping' \in BOOLEAN
      BY <3>1, NotifyType
    <3> QED BY <1>1, <3>2, Zenon DEF SchedulerPolls, TimerTypeOK, FlagsOK
  <2> QED BY <2>1, <2>2 DEF TimerTypeOK
<1>2. CASE SessionStops
  <2>1. DataOK'
    BY <1>2 DEF SessionStops, Suspend, TimerTypeOK, DataOK
  <2>2. FlagsOK'
    BY <1>2, Zenon DEF SessionStops, Suspend, TimerTypeOK, FlagsOK
  <2> QED BY <2>1, <2>2 DEF TimerTypeOK
<1>3. CASE ReplySent
  <2>1. DataOK'
    BY <1>3, NotifyType DEF ReplySent, Tasks, TimerTypeOK, DataOK
  <2>2. FlagsOK'
    <3>1. NotifyPending("socket", status, sent) /\ "socket" \in Tasks
      BY <1>3 DEF ReplySent, Tasks
    <3>2. cloud' \in BOOLEAN /\ starting' \in BOOLEAN /\ stopping' \in BOOLEAN
      BY <3>1, NotifyType
    <3> QED BY <1>3, <3>2, Zenon DEF ReplySent, TimerTypeOK, FlagsOK
  <2> QED BY <2>1, <2>2 DEF TimerTypeOK
<1>4. ASSUME NEW k \in Tasks, StopCloses(k) PROVE TimerTypeOK'
  <2>1. DataOK'
    BY <1>4 DEF StopCloses, Suspend, TimerTypeOK, DataOK
  <2>2. FlagsOK'
    BY <1>4, Zenon DEF StopCloses, Suspend, TimerTypeOK, FlagsOK
  <2> QED BY <2>1, <2>2 DEF TimerTypeOK
<1>5. ASSUME NEW k \in Tasks, StopSends(k) PROVE TimerTypeOK'
  <2>1. DataOK'
    BY <1>5, MessageType DEF StopSends, Suspend, TimerTypeOK, DataOK
  <2>2. FlagsOK'
    BY <1>5, Zenon DEF StopSends, Suspend, TimerTypeOK, FlagsOK
  <2> QED BY <2>1, <2>2 DEF TimerTypeOK
<1>6. ASSUME NEW k \in Tasks, StopReturns(k) PROVE TimerTypeOK'
  <2>1. DataOK'
    <3>1. CASE held[k] = None /\ Return(k) /\ UNCHANGED toDevice
      BY <1>6, <3>1 DEF StopReturns, Suspend, Return, TimerTypeOK, DataOK
    <3>2. CASE /\ held[k] # None /\ Suspend(k, "sending", held[k])
               /\ toDevice' = Append(toDevice, Message("alarm", held[k]))
      <4>1. held[k] \in Timers /\ Message("alarm", held[k]) \in ToDevice
        BY <3>2, MessageType DEF TimerTypeOK, DataOK
      <4>2. UNCHANGED <<rows, sent, linkVars, toGateway, device>>
        BY <1>6 DEF StopReturns
      <4> QED BY <3>2, <4>1, <4>2 DEF Suspend, TimerTypeOK, DataOK
    <3> QED BY <1>6, <3>1, <3>2 DEF StopReturns
  <2>2. FlagsOK'
    BY <1>6, Zenon DEF StopReturns, Suspend, Return, TimerTypeOK, FlagsOK
  <2> QED BY <2>1, <2>2 DEF TimerTypeOK
<1>7. ASSUME NEW k \in Tasks, AlarmSent(k) PROVE TimerTypeOK'
  <2>1. DataOK'
    BY <1>7 DEF AlarmSent, Suspend, Return, TimerTypeOK, DataOK
  <2>2. FlagsOK'
    BY <1>7, Zenon DEF AlarmSent, Suspend, Return, TimerTypeOK, FlagsOK
  <2> QED BY <2>1, <2>2 DEF TimerTypeOK
<1>8. CASE ReadAuth
  <2>1. DataOK'
    BY <1>8, MessageType DEF ReadAuth, TimerTypeOK, DataOK
  <2>2. FlagsOK'
    BY <1>8, Zenon DEF ReadAuth, TimerTypeOK, FlagsOK
  <2> QED BY <2>1, <2>2 DEF TimerTypeOK
<1>9. CASE ReadStart
  <2>1. DataOK'
    BY <1>9 DEF ReadStart, Read, TimerTypeOK, DataOK
  <2>2. FlagsOK'
    BY <1>9, Zenon DEF ReadStart, Read, TimerTypeOK, FlagsOK
  <2> QED BY <2>1, <2>2 DEF TimerTypeOK
<1>10. CASE StartReturns
  <2>1. DataOK'
    BY <1>10 DEF StartReturns, TimerTypeOK, DataOK
  <2>2. FlagsOK'
    BY <1>10, Zenon DEF StartReturns, TimerTypeOK, FlagsOK
  <2> QED BY <2>1, <2>2 DEF TimerTypeOK
<1>11. CASE ReadStop
  <2>1. DataOK'
    <3>1. UNCHANGED <<at, held>> \/ Suspend("socket", "stopping", None)
      BY <1>11 DEF ReadStop
    <3>2. toGateway # <<>> /\ toGateway' = Tail(toGateway)
      BY <1>11 DEF ReadStop, Read
    <3>3. UNCHANGED <<rows, sent, linkVars, toDevice, device>>
      BY <1>11 DEF ReadStop
    <3> QED BY <3>1, <3>2, <3>3 DEF Suspend, Tasks, TimerTypeOK, DataOK
  <2>2. FlagsOK'
    BY <1>11, Zenon DEF ReadStop, Read, Suspend, TimerTypeOK, FlagsOK
  <2> QED BY <2>1, <2>2 DEF TimerTypeOK
<1>12. CASE ReadDismissed
  <2> DEFINE t == Head(toGateway).timer
             closed == [status EXCEPT ![t] = "dismissed"]
  <2>1. DataOK'
    <3>1. t \in Timers
      <4>1. Head(toGateway) \in ToGateway /\ Head(toGateway).kind = "dismissed"
        BY <1>12 DEF ReadDismissed, Read, TimerTypeOK, DataOK
      <4> QED BY <4>1 DEF ToGateway
    <3>2. /\ toGateway # <<>> /\ toGateway' = Tail(toGateway)
          /\ UNCHANGED <<fired, linkVars, device>> /\ "socket" \in Tasks
      BY <1>12 DEF ReadDismissed, Read, Tasks
    <3>3. CASE UNCHANGED <<status, gateway, toDevice>>
      BY <3>2, <3>3 DEF TimerTypeOK, DataOK
    <3>4. CASE /\ status' = closed /\ sent' = None /\ Suspend("socket", "replying", None)
               /\ toDevice' = Append(toDevice, Message("stop", t))
      <4>1. Message("stop", t) \in ToDevice
        BY <3>1, MessageType
      <4> HIDE DEF t
      <4> QED BY <3>1, <3>2, <3>4, <4>1 DEF Suspend, TimerTypeOK, DataOK
    <3>5. CASE status' = closed /\ NotifyPending("socket", closed, sent) /\ UNCHANGED sent
      <4> HIDE DEF t
      <4> QED BY <3>1, <3>2, <3>5, NotifyType DEF TimerTypeOK, DataOK
    <3> QED BY <1>12, <3>3, <3>4, <3>5, Zenon DEF ReadDismissed
  <2>2. FlagsOK'
    <3>1. "socket" \in Tasks
      BY DEF Tasks
    <3>2. cloud' \in BOOLEAN /\ starting' \in BOOLEAN /\ stopping' \in BOOLEAN
      <4>1. CASE NotifyPending("socket", closed, sent)
        BY <3>1, <4>1, NotifyType
      <4>2. CASE UNCHANGED <<cloud, starting, stopping>>
        BY <4>2, Zenon DEF TimerTypeOK, FlagsOK
      <4> QED BY <1>12, <4>1, <4>2, Zenon DEF ReadDismissed
    <3>3. UNCHANGED device
      BY <1>12 DEF ReadDismissed
    <3> QED BY <3>2, <3>3, Zenon DEF TimerTypeOK, FlagsOK
  <2> QED BY <2>1, <2>2 DEF TimerTypeOK
<1> QED BY <1>1, <1>2, <1>3, <1>4, <1>5, <1>6, <1>7, <1>8, <1>9, <1>10, <1>11, <1>12
       DEF GatewayStep

\* Losing or opening the connection keeps the types.
LEMMA ConnectionType ==
  ASSUME TimerTypeOK, Drop \/ RejectFirst \/ Connected PROVE TimerTypeOK'
<1>1. CASE Drop
  <2>1. DataOK'
    BY <1>1, TimerAssumption DEF Drop, Disconnected, TimerTypeOK, DataOK
  <2>2. FlagsOK'
    BY <1>1, Zenon DEF Drop, Disconnected, TimerTypeOK, FlagsOK
  <2> QED BY <2>1, <2>2 DEF TimerTypeOK
<1>2. CASE RejectFirst
  <2>1. DataOK'
    BY <1>2, TimerAssumption DEF RejectFirst, Disconnected, TimerTypeOK, DataOK
  <2>2. FlagsOK'
    BY <1>2, Zenon DEF RejectFirst, Disconnected, TimerTypeOK, FlagsOK
  <2> QED BY <2>1, <2>2 DEF TimerTypeOK
<1>3. CASE Connected
  <2>1. DataOK'
    BY <1>3, TimerAssumption DEF Connected, TimerTypeOK, DataOK
  <2>2. FlagsOK'
    BY <1>3, Zenon DEF Connected, TimerTypeOK, FlagsOK
  <2> QED BY <2>1, <2>2 DEF TimerTypeOK
<1> QED BY <1>1, <1>2, <1>3

\* A slot is free when a message is queued.
LEMMA QueueType ==
  ASSUME TimerTypeOK, NEW kind, NEW t, Message(kind, t) \in ToGateway, CanQueue, Queue(kind, t)
  PROVE  control' \in Seq(ToGateway) /\ Len(control') <= ControlQueue
  BY TimerAssumption DEF TimerTypeOK, DataOK, CanQueue, Queue

\* A step of the device keeps the types.
LEMMA DeviceType == ASSUME TimerTypeOK, DeviceStep PROVE TimerTypeOK'
<1>1. CASE ReceiveAuthOk
  <2>1. DataOK'
    BY <1>1 DEF ReceiveAuthOk, Receive, TimerTypeOK, DataOK
  <2>2. FlagsOK'
    BY <1>1, Zenon DEF ReceiveAuthOk, Receive, TimerTypeOK, FlagsOK
  <2> QED BY <2>1, <2>2 DEF TimerTypeOK
<1>2. CASE ReceiveEnded
  <2>1. DataOK'
    BY <1>2 DEF ReceiveEnded, Receive, TimerTypeOK, DataOK
  <2>2. FlagsOK'
    BY <1>2, Zenon DEF ReceiveEnded, Receive, TimerTypeOK, FlagsOK
  <2> QED BY <2>1, <2>2 DEF TimerTypeOK
<1>3. CASE ReceiveAlarm
  <2>1. DataOK'
    BY <1>3 DEF ReceiveAlarm, Receive, ToDevice, Alarms, TimerTypeOK, DataOK
  <2>2. FlagsOK'
    BY <1>3, Zenon DEF ReceiveAlarm, Receive, TimerTypeOK, FlagsOK
  <2> QED BY <2>1, <2>2 DEF TimerTypeOK
<1>4. CASE ReceiveStop
  <2>1. DataOK'
    BY <1>4 DEF ReceiveStop, Receive, TimerTypeOK, DataOK
  <2>2. FlagsOK'
    BY <1>4, Zenon DEF ReceiveStop, Receive, TimerTypeOK, FlagsOK
  <2> QED BY <2>1, <2>2 DEF TimerTypeOK
<1>5. CASE SendAuth
  <2>1. DataOK'
    BY <1>5, QueueType, MessageType DEF SendAuth, TimerTypeOK, DataOK
  <2>2. FlagsOK'
    BY <1>5, Zenon DEF SendAuth, TimerTypeOK, FlagsOK
  <2> QED BY <2>1, <2>2 DEF TimerTypeOK
<1>6. CASE HandleAlarm
  <2>1. DataOK'
    BY <1>6 DEF HandleAlarm, TimerTypeOK, DataOK
  <2>2. FlagsOK'
    BY <1>6, Zenon DEF HandleAlarm, TimerTypeOK, FlagsOK
  <2> QED BY <2>1, <2>2 DEF TimerTypeOK
<1>7. CASE StartChime
  <2>1. DataOK'
    BY <1>7 DEF StartChime, TimerTypeOK, DataOK
  <2>2. FlagsOK'
    BY <1>7, Zenon DEF StartChime, TimerTypeOK, FlagsOK
  <2> QED BY <2>1, <2>2 DEF TimerTypeOK
<1>8. CASE PlayChime
  <2>1. DataOK'
    BY <1>8 DEF PlayChime, TimerTypeOK, DataOK
  <2>2. FlagsOK'
    BY <1>8, Zenon DEF PlayChime, TimerTypeOK, FlagsOK
  <2> QED BY <2>1, <2>2 DEF TimerTypeOK
<1>9. CASE AlarmTimeout
  <2>1. DataOK'
    BY <1>9 DEF AlarmTimeout, DismissAlarm, TimerTypeOK, DataOK
  <2>2. FlagsOK'
    BY <1>9, Zenon DEF AlarmTimeout, DismissAlarm, TimerTypeOK, FlagsOK
  <2> QED BY <2>1, <2>2 DEF TimerTypeOK
<1>10. CASE SendDismissal
  <2>1. DataOK'
    BY <1>10, QueueType, MessageType DEF SendDismissal, TimerTypeOK, DataOK
  <2>2. FlagsOK'
    BY <1>10, Zenon DEF SendDismissal, TimerTypeOK, FlagsOK
  <2> QED BY <2>1, <2>2 DEF TimerTypeOK
<1>11. CASE SendStart
  <2>1. DataOK'
    BY <1>11, QueueType, MessageType DEF SendStart, TimerTypeOK, DataOK
  <2>2. FlagsOK'
    BY <1>11, Zenon DEF SendStart, TimerTypeOK, FlagsOK
  <2> QED BY <2>1, <2>2 DEF TimerTypeOK
<1>12. CASE UserDismisses
  <2>1. DataOK'
    BY <1>12 DEF UserDismisses, DismissAlarm, TimerTypeOK, DataOK
  <2>2. FlagsOK'
    BY <1>12, Zenon DEF UserDismisses, DismissAlarm, TimerTypeOK, FlagsOK
  <2> QED BY <2>1, <2>2 DEF TimerTypeOK
<1>13. CASE UserStops
  <2>1. DataOK'
    BY <1>13, QueueType, MessageType DEF UserStops, TimerTypeOK, DataOK
  <2>2. FlagsOK'
    BY <1>13, Zenon DEF UserStops, TimerTypeOK, FlagsOK
  <2> QED BY <2>1, <2>2 DEF TimerTypeOK
<1>14. ASSUME NEW b \in BOOLEAN, SendControl(b) PROVE TimerTypeOK'
  <2>1. DataOK'
    <3>1. /\ control # <<>> /\ control' = Tail(control)
          /\ UNCHANGED <<rows, gateway, link, drops, toDevice, session, alarm, history>>
      BY <1>14 DEF SendControl
    <3>2. CASE losses < MaxLosses /\ losses' = losses + 1 /\ UNCHANGED toGateway
      BY <3>1, <3>2, TimerAssumption DEF TimerTypeOK, DataOK
    <3>3. CASE toGateway' = Append(toGateway, Head(control)) /\ UNCHANGED losses
      BY <3>1, <3>3, TimerAssumption DEF TimerTypeOK, DataOK
    <3> QED BY <1>14, <3>2, <3>3 DEF SendControl
  <2>2. FlagsOK'
    BY <1>14, Zenon DEF SendControl, TimerTypeOK, FlagsOK
  <2> QED BY <2>1, <2>2 DEF TimerTypeOK
<1>15. ASSUME NEW b \in BOOLEAN, UserStarts(b) PROVE TimerTypeOK'
  <2>1. DataOK'
    BY <1>15, TimerAssumption DEF UserStarts, TimerTypeOK, DataOK
  <2>2. FlagsOK'
    BY <1>15, Zenon DEF UserStarts, TimerTypeOK, FlagsOK
  <2> QED BY <2>1, <2>2 DEF TimerTypeOK
<1> QED BY <1>1, <1>2, <1>3, <1>4, <1>5, <1>6, <1>7, <1>8, <1>9, <1>10, <1>11, <1>12, <1>13,
           <1>14, <1>15 DEF DeviceStep, WebSocketTask

\* Every variable keeps its type, for any number of timers, sessions, losses and slots;
\* control_queue_ never holds more than its slots.
THEOREM TimerTypeCorrect == Spec => []TimerTypeOK
<1>1. Init => TimerTypeOK
  <2>1. Init => FlagsOK
    BY Zenon DEF Init, FlagsOK
  <2>2. Init => DataOK
    BY TimerAssumption DEF Init, DataOK
  <2> QED BY <2>1, <2>2 DEF TimerTypeOK
<1>2. TimerTypeOK /\ [Next]_vars => TimerTypeOK'
  <2> SUFFICES ASSUME TimerTypeOK, [Next]_vars PROVE TimerTypeOK'
    OBVIOUS
  <2>1. CASE UNCHANGED vars
    <3>1. DataOK'
      BY <2>1 DEF vars, TimerTypeOK, DataOK
    <3>2. FlagsOK'
      BY <2>1, Zenon DEF vars, TimerTypeOK, FlagsOK
    <3> QED BY <3>1, <3>2 DEF TimerTypeOK
  <2> QED BY <2>1, TableType, GatewayType, ConnectionType, DeviceType DEF Next
<1> QED BY <1>1, <1>2, PTL DEF Spec

-----------------------------------------------------------------------------
\* The ringing timers some task has sent, or is sending.
Announced ==
  {t \in Timers : /\ status[t] = "ringing"
                  /\ sent = t \/ \E k \in Tasks : at[k] = "sending" /\ held[k] = t}

Stopper(k) == at[k] \in {"stopping", "closed", "ended"}

\* Only timers that have come due are in fired, are sent or held.
FiredAreDue == \A i \in DOMAIN fired : status[fired[i]] \notin {"none", "active"}

PickedAreDue ==
  \A t \in Timers : (sent = t \/ \E k \in Tasks : held[k] = t) =>
    status[t] \notin {"none", "active"}

\* stopping is a lock.
OneStopper ==
  /\ stopping <=> \E k \in Tasks : Stopper(k)
  /\ \A k, l \in Tasks : Stopper(k) /\ Stopper(l) => k = l
  /\ \A k \in Tasks : at[k] = "sending" => held[k] # None

\* What is held or announced has been the oldest since it was read.
HeldIsOldest ==
  \A k \in Tasks : Stopper(k) /\ held[k] # None /\ status[held[k]] = "ringing" =>
    Oldest(status, held[k])

AnnouncedIsOldest == \A t \in Announced : Oldest(status, t)

\* A task that ends the session for an alarm finds no other announced when it is done.
StopperHolds ==
  \A k \in Tasks : Stopper(k) /\ held[k] # None => Announced \subseteq {held[k]}

Bookkeeping ==
  /\ FiredAreDue /\ PickedAreDue /\ OneStopper
  /\ HeldIsOldest /\ AnnouncedIsOldest /\ StopperHolds

\* A timer.stop is of a timer that is closed.
Closed == {"dismissed", "cancelled"}

StopsAreClosed ==
  \A i \in DOMAIN toDevice : toDevice[i].kind = "stop" => status[toDevice[i].timer] \in Closed

\* No other alarm is on the wire, from place i on.
NoOther(t, i) ==
  \A j \in i .. Len(toDevice) : toDevice[j].kind = "alarm" => toDevice[j].timer = t

\* t is the last alarm that will have reached the device, or its dismissal comes back.
ComesBack(t) ==
  \/ \E i \in DOMAIN control : control[i] = Message("dismissed", t)
  \/ \E i \in DOMAIN toGateway : toGateway[i] = Message("dismissed", t)

Rings(t) == NoOther(t, 1) /\ (alarmId = t \/ (dismissPending = t /\ alarmId = None))

Comes(t) == \E i \in DOMAIN toDevice : toDevice[i] = Message("alarm", t) /\ NoOther(t, i)

Reaches(t) == ComesBack(t) \/ Rings(t) \/ Comes(t)

AnnouncedReach == link = "up" => \A t \in Announced : Reaches(t)

Delivery == StopsAreClosed /\ AnnouncedReach

AnnouncedInv == Bookkeeping /\ Delivery

-----------------------------------------------------------------------------
(* The oldest ringing timer.                                               *)

\* One timer is the oldest.
LEMMA OldestIsOne ==
  ASSUME DataOK, NEW st, NEW t, NEW u, Oldest(st, t), Oldest(st, u)
  PROVE  t = u
<1>1. PICK i \in DOMAIN fired : /\ fired[i] = t /\ st[t] = "ringing"
                                /\ \A j \in 1 .. i - 1 : st[fired[j]] # "ringing"
  BY DEF Oldest
<1>2. PICK l \in DOMAIN fired : /\ fired[l] = u /\ st[u] = "ringing"
                                /\ \A j \in 1 .. l - 1 : st[fired[j]] # "ringing"
  BY DEF Oldest
<1>3. i \in 1 .. Len(fired) /\ l \in 1 .. Len(fired) /\ Len(fired) \in Nat
  BY DEF DataOK
<1>4. ~(i < l) /\ ~(l < i)
  BY <1>1, <1>2, <1>3
<1> QED BY <1>1, <1>2, <1>3, <1>4

\* It stays so while it rings, as timers that come due later are behind it.
LEMMA OldestStays ==
  ASSUME DataOK, NEW u, Oldest(status, u), status'[u] = "ringing",
         fired' = fired \/ \E t \in Timers : fired' = Append(fired, t),
         \A i \in DOMAIN fired : status'[fired[i]] = "ringing" => status[fired[i]] = "ringing"
  PROVE  Oldest(status, u)'
<1>1. PICK i \in DOMAIN fired : /\ fired[i] = u
                                /\ \A j \in 1 .. i - 1 : status[fired[j]] # "ringing"
  BY DEF Oldest
<1>2. DOMAIN fired = 1 .. Len(fired) /\ Len(fired) \in Nat
  BY DEF DataOK
<1>3. i \in DOMAIN fired' /\ \A j \in 1 .. i : fired'[j] = fired[j]
  <2>1. CASE fired' = fired
    BY <1>2, <2>1
  <2>2. ASSUME NEW t \in Timers, fired' = Append(fired, t)
        PROVE  i \in DOMAIN fired' /\ \A j \in 1 .. i : fired'[j] = fired[j]
    <3>1. Len(fired') = Len(fired) + 1 /\ DOMAIN fired' = 1 .. Len(fired) + 1
      BY <2>2 DEF DataOK
    <3>2. \A j \in 1 .. Len(fired) : fired'[j] = fired[j]
      BY <2>2 DEF DataOK
    <3> QED BY <1>2, <3>1, <3>2
  <2> QED BY <2>1, <2>2
<1>4. \A j \in 1 .. i - 1 : status'[fired'[j]] # "ringing"
  BY <1>1, <1>2, <1>3
<1> QED BY <1>1, <1>2, <1>3, <1>4, SMTT(30) DEF Oldest
-----------------------------------------------------------------------------
(* The gateway's bookkeeping.                                              *)

\* It does not look at anything else.
LEMMA BookkeepingSame ==
  ASSUME Bookkeeping, UNCHANGED <<status, fired, stopping, sent, at, held>>
  PROVE  Bookkeeping' /\ Announced' = Announced
<1>1. Announced' = Announced
  BY DEF Announced
<1>2. FiredAreDue' /\ PickedAreDue'
  BY DEF Bookkeeping, FiredAreDue, PickedAreDue
<1>3. OneStopper'
  BY DEF Bookkeeping, OneStopper, Stopper
<1>4. \A t : Oldest(status, t)' <=> Oldest(status, t)
  BY DEF Oldest
<1>5. HeldIsOldest' /\ AnnouncedIsOldest' /\ StopperHolds'
  BY <1>1, <1>4 DEF Bookkeeping, HeldIsOldest, AnnouncedIsOldest, StopperHolds, Stopper
<1> QED BY <1>1, <1>2, <1>3, <1>5 DEF Bookkeeping

\* A row changes: rows that are due stay so, and what was due rings only if it rang.
RowsMove ==
  /\ fired' = fired \/ \E t \in Timers : fired' = Append(fired, t)
  /\ \A i \in DOMAIN fired' : status'[fired'[i]] \notin {"none", "active"}
  /\ \A t \in Timers : status[t] \notin {"none", "active"} =>
       /\ status'[t] \notin {"none", "active"}
       /\ status'[t] = "ringing" => status[t] = "ringing"

\* The oldest ringing timer stays the oldest while it rings.
LEMMA OldestAfterRowsMove ==
  ASSUME DataOK, Bookkeeping, RowsMove, NEW t, Oldest(status, t), status'[t] = "ringing"
  PROVE  Oldest(status, t)'
<1>1. \A i \in DOMAIN fired : status'[fired[i]] = "ringing" => status[fired[i]] = "ringing"
  BY DEF DataOK, RowsMove, Bookkeeping, FiredAreDue
<1> QED BY <1>1, OldestStays DEF RowsMove

\* When rows change and no task moves, the bookkeeping holds and nothing is announced
\* that was not; a stop may reset timer_alarm_sent_id.
LEMMA BookkeepingRows ==
  ASSUME DataOK, DataOK', Bookkeeping, RowsMove,
         UNCHANGED <<stopping, at, held>>, sent' = sent \/ sent' = None
  PROVE  Bookkeeping' /\ Announced' \subseteq Announced
<1>1. Announced' \subseteq Announced
  BY NoneIsNoTimer DEF Announced, Bookkeeping, PickedAreDue, RowsMove
<1>2. FiredAreDue'
  BY DEF FiredAreDue, RowsMove
<1>3. PickedAreDue'
  BY NoneIsNoTimer DEF PickedAreDue, Bookkeeping, RowsMove
<1>4. OneStopper'
  BY DEF Bookkeeping, OneStopper, Stopper
<1>5. HeldIsOldest'
  <2> SUFFICES ASSUME NEW k \in Tasks, Stopper(k)', held'[k] # None, status'[held'[k]] = "ringing"
               PROVE  Oldest(status, held[k])'
    BY DEF HeldIsOldest
  <2>1. PICK u \in Timers : u = held[k] /\ u = held'[k]
    BY DEF DataOK
  <2>2. status[u] = "ringing"
    BY <2>1 DEF Bookkeeping, PickedAreDue, RowsMove
  <2>3. Oldest(status, u)
    BY <2>1, <2>2 DEF Bookkeeping, HeldIsOldest, Stopper
  <2>4. Oldest(status, u)'
    BY <2>1, <2>3, OldestAfterRowsMove
  <2> QED BY <2>1, <2>4
<1>6. AnnouncedIsOldest'
  BY <1>1, OldestAfterRowsMove DEF Bookkeeping, AnnouncedIsOldest, Announced
<1>7. StopperHolds'
  BY <1>1 DEF Bookkeeping, StopperHolds, Stopper
<1> QED BY <1>1, <1>2, <1>3, <1>4, <1>5, <1>6, <1>7 DEF Bookkeeping

\* A task lets go: it returns, or has another reply to send.
LEMMA TaskLeaves ==
  ASSUME DataOK, DataOK', Bookkeeping, RowsMove, NEW k \in Tasks,
         NEW where \in {"idle", "replying"},
         Suspend(k, where, None), stopping' <=> stopping /\ ~Stopper(k),
         sent' = sent \/ sent' = None \/ (at[k] = "sending" /\ sent' = held[k])
  PROVE  Bookkeeping' /\ Announced' \subseteq Announced
<1>1. /\ at'[k] \in {"idle", "replying"} /\ held'[k] = None
      /\ \A l \in Tasks : l # k => at'[l] = at[l] /\ held'[l] = held[l]
  BY DEF Suspend, DataOK
<1>2. Announced' \subseteq Announced
  <2> SUFFICES ASSUME NEW t \in Timers, t \in Announced' PROVE t \in Announced
    BY DEF Announced
  <2>1. \/ t = sent \/ \E l \in Tasks : at[l] = "sending" /\ held[l] = t
    BY <1>1, NoneIsNoTimer DEF Announced
  <2>2. status[t] = "ringing"
    BY <2>1 DEF Announced, Bookkeeping, PickedAreDue, RowsMove
  <2> QED BY <2>1, <2>2 DEF Announced
<1>3. FiredAreDue'
  BY DEF FiredAreDue, RowsMove
<1>4. PickedAreDue'
  <2> SUFFICES ASSUME NEW t \in Timers, sent' = t \/ \E l \in Tasks : held'[l] = t
               PROVE  status'[t] \notin {"none", "active"}
    BY DEF PickedAreDue
  <2>1. sent = t \/ \E l \in Tasks : held[l] = t
    BY <1>1, NoneIsNoTimer
  <2> QED BY <2>1 DEF Bookkeeping, PickedAreDue, RowsMove
<1>5. OneStopper'
  <2>1. \A l \in Tasks : Stopper(l)' <=> l # k /\ Stopper(l)
    BY <1>1 DEF Stopper
  <2>2. stopping' <=> \E l \in Tasks : Stopper(l)'
    BY <2>1 DEF Bookkeeping, OneStopper
  <2>3. \A l \in Tasks : at'[l] = "sending" => held'[l] # None
    BY <1>1 DEF Bookkeeping, OneStopper
  <2> QED BY <2>1, <2>2, <2>3 DEF Bookkeeping, OneStopper
<1>6. HeldIsOldest'
  <2> SUFFICES ASSUME NEW l \in Tasks, Stopper(l)', held'[l] # None, status'[held'[l]] = "ringing"
               PROVE  Oldest(status, held[l])'
    BY DEF HeldIsOldest
  <2>1. PICK u \in Timers : u = held[l] /\ u = held'[l]
    BY <1>1 DEF DataOK, Stopper
  <2>2. status[u] = "ringing"
    BY <2>1 DEF Bookkeeping, PickedAreDue, RowsMove
  <2>3. Oldest(status, u)
    BY <1>1, <2>1, <2>2 DEF Bookkeeping, HeldIsOldest, Stopper
  <2>4. Oldest(status, u)'
    BY <2>1, <2>3, OldestAfterRowsMove
  <2> QED BY <2>1, <2>4
<1>7. AnnouncedIsOldest'
  BY <1>2, OldestAfterRowsMove DEF Bookkeeping, AnnouncedIsOldest, Announced
<1>8. StopperHolds'
  BY <1>1, <1>2 DEF Bookkeeping, StopperHolds, Stopper
<1> QED BY <1>2, <1>3, <1>4, <1>5, <1>6, <1>7, <1>8 DEF Bookkeeping

\* A task begins to end the session, for the oldest alarm or for none.
LEMMA TaskStops ==
  ASSUME DataOK, DataOK', Bookkeeping, RowsMove, NEW k \in Tasks, NEW t \in Timers \cup {None},
         at[k] \in {"idle", "replying"}, Suspend(k, "stopping", t), ~stopping, stopping' = TRUE,
         sent' = sent, fired' = fired, t # None => Oldest(status, t)'
  PROVE  Bookkeeping' /\ Announced' \subseteq Announced
<1>1. /\ at'[k] = "stopping" /\ held'[k] = t
      /\ \A l \in Tasks : l # k => at'[l] = at[l] /\ held'[l] = held[l]
  BY DEF Suspend, DataOK
<1>2. \A l \in Tasks : ~Stopper(l) /\ (Stopper(l)' <=> l = k)
  BY <1>1 DEF Bookkeeping, OneStopper, Stopper
<1>3. t # None => t \in Timers /\ status'[t] = "ringing"
  BY DEF Oldest
<1>4. Announced' \subseteq Announced
  <2> SUFFICES ASSUME NEW u \in Timers, u \in Announced' PROVE u \in Announced
    BY DEF Announced
  <2>1. u = sent \/ \E l \in Tasks : at[l] = "sending" /\ held[l] = u
    BY <1>1 DEF Announced
  <2>2. status[u] = "ringing"
    BY <2>1 DEF Announced, Bookkeeping, PickedAreDue, RowsMove
  <2> QED BY <2>1, <2>2 DEF Announced
<1>5. FiredAreDue'
  BY DEF FiredAreDue, RowsMove
<1>6. PickedAreDue'
  <2> SUFFICES ASSUME NEW u \in Timers, sent' = u \/ \E l \in Tasks : held'[l] = u
               PROVE  status'[u] \notin {"none", "active"}
    BY DEF PickedAreDue
  <2>1. u = t \/ sent = u \/ \E l \in Tasks : held[l] = u
    BY <1>1
  <2> QED BY <1>3, <2>1, NoneIsNoTimer DEF Bookkeeping, PickedAreDue, RowsMove
<1>7. OneStopper'
  BY <1>1, <1>2 DEF Bookkeeping, OneStopper
<1>8. HeldIsOldest'
  BY <1>1, <1>2 DEF HeldIsOldest
<1>9. AnnouncedIsOldest'
  BY <1>4, OldestAfterRowsMove DEF Bookkeeping, AnnouncedIsOldest, Announced
<1>10. StopperHolds'
  <2>1. \A u : Oldest(status, u)' => Oldest(status', u)
    BY DEF Oldest
  <2>2. t # None => Announced' \subseteq {t}
    BY <1>9, <2>1, OldestIsOne DEF AnnouncedIsOldest
  <2> QED BY <1>1, <1>2, <2>2 DEF StopperHolds
<1> QED BY <1>4, <1>5, <1>6, <1>7, <1>8, <1>9, <1>10 DEF Bookkeeping

\* It goes on ending it.
LEMMA TaskAdvances ==
  ASSUME DataOK, DataOK', Bookkeeping, NEW k \in Tasks, NEW where \in {"closed", "ended"},
         Stopper(k), Suspend(k, where, held[k]), UNCHANGED <<status, fired, stopping, sent>>
  PROVE  Bookkeeping' /\ Announced' = Announced
<1>1. /\ held' = held
      /\ \A l \in Tasks : Stopper(l)' <=> Stopper(l)
      /\ \A l \in Tasks : at'[l] = "sending" <=> at[l] = "sending"
  BY DEF Suspend, DataOK, Stopper
<1>2. Announced' = Announced
  BY <1>1 DEF Announced
<1>3. FiredAreDue' /\ PickedAreDue'
  BY <1>1 DEF Bookkeeping, FiredAreDue, PickedAreDue
<1>4. OneStopper'
  BY <1>1 DEF Bookkeeping, OneStopper
<1>5. \A t : Oldest(status, t)' <=> Oldest(status, t)
  BY DEF Oldest
<1>6. HeldIsOldest' /\ AnnouncedIsOldest' /\ StopperHolds'
  BY <1>1, <1>2, <1>5 DEF Bookkeeping, HeldIsOldest, AnnouncedIsOldest, StopperHolds
<1> QED BY <1>2, <1>3, <1>4, <1>6 DEF Bookkeeping

\* A task sends an alarm, and no task ends the session.
LEMMA TaskAnnounces ==
  ASSUME DataOK, DataOK', Bookkeeping, RowsMove, NEW k \in Tasks, NEW t \in Timers,
         Suspend(k, "sending", t), ~stopping', \A l \in Tasks \ {k} : ~Stopper(l),
         sent' = sent, fired' = fired, status'[t] \notin {"none", "active"},
         status'[t] = "ringing" => Oldest(status, t)',
         Announced \subseteq {t} \/ status'[t] = "ringing"
  PROVE  Bookkeeping' /\ Announced' \subseteq {t}
<1>1. /\ at'[k] = "sending" /\ held'[k] = t
      /\ \A l \in Tasks : l # k => at'[l] = at[l] /\ held'[l] = held[l]
  BY DEF Suspend, DataOK
<1>2. \A l \in Tasks : ~Stopper(l)'
  BY <1>1 DEF Stopper
<1>3. Announced' \subseteq Announced \cup {t}
  <2> SUFFICES ASSUME NEW u \in Timers, u \in Announced', u # t PROVE u \in Announced
    BY DEF Announced
  <2>1. u = sent \/ \E l \in Tasks : at[l] = "sending" /\ held[l] = u
    BY <1>1 DEF Announced
  <2>2. status[u] = "ringing"
    BY <2>1 DEF Announced, Bookkeeping, PickedAreDue, RowsMove
  <2> QED BY <2>1, <2>2 DEF Announced
<1>4. AnnouncedIsOldest'
  BY <1>3, OldestAfterRowsMove DEF Bookkeeping, AnnouncedIsOldest, Announced
<1>5. Announced' \subseteq {t}
  <2>1. \A u : Oldest(status, u)' => Oldest(status', u)
    BY DEF Oldest
  <2>2. CASE Announced \subseteq {t}
    BY <1>3, <2>2
  <2>3. CASE status'[t] = "ringing"
    BY <1>4, <2>1, <2>3, OldestIsOne DEF AnnouncedIsOldest
  <2> QED BY <2>2, <2>3
<1>6. FiredAreDue'
  BY DEF FiredAreDue, RowsMove
<1>7. PickedAreDue'
  <2> SUFFICES ASSUME NEW u \in Timers, sent' = u \/ \E l \in Tasks : held'[l] = u
               PROVE  status'[u] \notin {"none", "active"}
    BY DEF PickedAreDue
  <2>1. u = t \/ sent = u \/ \E l \in Tasks : held[l] = u
    BY <1>1
  <2> QED BY <2>1 DEF Bookkeeping, PickedAreDue, RowsMove
<1>8. OneStopper'
  BY <1>1, <1>2, NoneIsNoTimer DEF Bookkeeping, OneStopper
<1>9. HeldIsOldest' /\ StopperHolds'
  BY <1>2 DEF HeldIsOldest, StopperHolds
<1> QED BY <1>4, <1>5, <1>6, <1>7, <1>8, <1>9 DEF Bookkeeping

-----------------------------------------------------------------------------
(* The steps of the gateway, and what each puts on the wire.               *)

USE DEF rows, gateway, linkVars, wires, session, alarm, history, device

\* Nothing new is announced, and what is sent is no alarm...
Quiet ==
  /\ Announced' \subseteq Announced
  /\ \/ toDevice' = toDevice
     \/ \E m \in ToDevice : /\ toDevice' = Append(toDevice, m) /\ m.kind # "alarm"
                            /\ m.kind = "stop" => status'[m.timer] \in Closed

\* ...or an alarm is sent, and no other is announced.
Announces ==
  \E u \in Timers : toDevice' = Append(toDevice, Message("alarm", u)) /\ Announced' \subseteq {u}

\* An unchanged table is a special case.
LEMMA SameRowsMove ==
  ASSUME DataOK, Bookkeeping, UNCHANGED rows PROVE RowsMove
BY DEF RowsMove, Bookkeeping, FiredAreDue

\* notify_pending_timer keeps the bookkeeping, and announces what it sends alone.
LEMMA NotifyBook ==
  ASSUME DataOK, DataOK', Bookkeeping, RowsMove, NEW k \in Tasks, at[k] \in {"idle", "replying"},
         NEW st, st = status', fired' = fired, sent' = sent, NotifyPending(k, st, sent)
  PROVE  Bookkeeping' /\ (Quiet \/ Announces)
<1>1. ASSUME NEW u, u = NextRinging(st), u # None
      PROVE  u \in Timers /\ Oldest(status, u)' /\ status'[u] = "ringing"
  <2>1. u \in Timers /\ Oldest(st, u)
    BY <1>1, NextRingingIsOldest
  <2> QED BY <2>1 DEF Oldest
<1>2. CASE Return(k) /\ UNCHANGED <<cloud, starting, stopping, toDevice>>
  <2>1. stopping' <=> stopping /\ ~Stopper(k)
    BY <1>2, Zenon DEF Stopper
  <2> QED BY <1>2, <2>1, TaskLeaves DEF Return, Quiet
<1>3. ASSUME NEW u, u = NextRinging(st), u # None, ~stopping,
             Suspend(k, "stopping", u), stopping' = TRUE, UNCHANGED toDevice
      PROVE  Bookkeeping' /\ Quiet
  BY <1>1, <1>3, TaskStops DEF Quiet
<1>4. ASSUME NEW u, u = NextRinging(st), u # None, ~stopping, stopping' = stopping,
             Suspend(k, "sending", u), toDevice' = Append(toDevice, Message("alarm", u))
      PROVE  Bookkeeping' /\ Announces
  <2>1. ~stopping' /\ \A l \in Tasks : ~Stopper(l)
    <3>1. ~stopping'
      BY <1>4, Zenon
    <3>2. \A l \in Tasks : ~Stopper(l)
      BY <1>4 DEF Bookkeeping, OneStopper
    <3> QED BY <3>1, <3>2
  <2>2. Bookkeeping' /\ Announced' \subseteq {u}
    BY <1>1, <1>4, <2>1, TaskAnnounces
  <2> QED BY <1>1, <1>4, <2>2 DEF Announces
<1>5. PICK u : u = NextRinging(st)
  OBVIOUS
<1> QED BY <1>2, <1>3, <1>4, <1>5, NotifyCases, Zenon

\* What a step of the gateway may do to what is on its way.  A dismissal it reads is of
\* a timer that is not announced any more.
Moves ==
  /\ Bookkeeping' /\ (Quiet \/ Announces)
  /\ UNCHANGED <<link, control, alarmId, dismissPending>>
  /\ \A t \in Timers : status[t] \in Closed => status'[t] \in Closed
  /\ \/ toGateway' = toGateway
     \/ /\ toGateway # <<>> /\ toGateway' = Tail(toGateway)
        /\ \A t \in Announced' : Head(toGateway) # Message("dismissed", t)

\* The scheduler and the tools of the cloud.
LEMMA TableMoves == ASSUME DataOK, DataOK', Bookkeeping, TableStep PROVE Moves
<1>1. ASSUME NEW t \in Timers, SetTimer(t) PROVE Moves
  <2>1. RowsMove
    BY <1>1 DEF SetTimer, RowsMove, DataOK, Bookkeeping, FiredAreDue
  <2>2. Bookkeeping' /\ Quiet
    BY <1>1, <2>1, BookkeepingRows DEF SetTimer, Quiet
  <2> QED BY <1>1, <2>2 DEF SetTimer, Moves, Closed, DataOK
<1>2. ASSUME NEW t \in Timers, FireDue(t) PROVE Moves
  <2>1. RowsMove
    <3>1. /\ \A i \in DOMAIN fired :
               fired[i] \in Timers /\ status[fired[i]] \notin {"none", "active"}
          /\ \A i \in DOMAIN fired' : fired'[i] = t \/ \E j \in DOMAIN fired : fired'[i] = fired[j]
      BY <1>2 DEF FireDue, DataOK, Bookkeeping, FiredAreDue
    <3> QED BY <1>2, <3>1 DEF FireDue, RowsMove, DataOK
  <2>2. Bookkeeping' /\ Quiet
    BY <1>2, <2>1, BookkeepingRows DEF FireDue, Quiet
  <2> QED BY <1>2, <2>2 DEF FireDue, Moves, Closed, DataOK
<1>3. ASSUME NEW t \in Timers, CancelTimer(t) PROVE Moves
  <2>1. RowsMove
    BY <1>3 DEF CancelTimer, RowsMove, DataOK, Bookkeeping, FiredAreDue
  <2>2. Bookkeeping' /\ Announced' \subseteq Announced
    BY <1>3, <2>1, BookkeepingRows DEF CancelTimer
  <2>3. toDevice' = toDevice \/ toDevice' = Append(toDevice, Message("stop", t))
    BY <1>3 DEF CancelTimer, SendUp
  <2>4. /\ Message("stop", t) \in ToDevice /\ Message("stop", t).kind # "alarm"
        /\ status'[Message("stop", t).timer] \in Closed
    <3>1. Message("stop", t).timer = t /\ Message("stop", t).kind = "stop"
      BY DEF Message
    <3>2. status'[t] = "cancelled"
      BY <1>3 DEF CancelTimer, DataOK
    <3> QED BY <3>1, <3>2, MessageType DEF Closed
  <2>5. Quiet
    BY <2>2, <2>3, <2>4 DEF Quiet
  <2> QED BY <1>3, <2>2, <2>5 DEF CancelTimer, Moves, Closed, DataOK
<1> QED BY <1>1, <1>2, <1>3 DEF TableStep

\* stop() and the send that follows it, in whichever task.
LEMMA TaskMoves ==
  ASSUME DataOK, DataOK', Bookkeeping, NEW k \in Tasks,
         StopCloses(k) \/ StopSends(k) \/ StopReturns(k) \/ AlarmSent(k)
  PROVE  Moves
<1>1. RowsMove
  BY SameRowsMove DEF StopCloses, StopSends, StopReturns, AlarmSent
<1>2. CASE StopCloses(k)
  <2>1. Bookkeeping' /\ Quiet
    BY <1>2, TaskAdvances DEF StopCloses, Stopper, Quiet
  <2> QED BY <1>2, <2>1 DEF StopCloses, Moves
<1>3. CASE StopSends(k)
  <2>1. Bookkeeping' /\ Announced' = Announced
    BY <1>3, TaskAdvances DEF StopSends, Stopper
  <2>2. /\ Message("ended", None) \in ToDevice
        /\ Message("ended", None).kind \notin {"alarm", "stop"}
    BY MessageType DEF Message
  <2>3. Quiet
    BY <1>3, <2>1, <2>2 DEF StopSends, Quiet
  <2> QED BY <1>3, <2>1, <2>3 DEF StopSends, Moves
<1>4. CASE StopReturns(k)
  <2>1. Bookkeeping' /\ (Quiet \/ Announces)
    <3>1. Stopper(k) /\ ~stopping' /\ \A l \in Tasks \ {k} : ~Stopper(l)
      BY <1>4 DEF StopReturns, Stopper, Bookkeeping, OneStopper
    <3>2. CASE held[k] = None /\ Return(k) /\ UNCHANGED toDevice
      BY <1>1, <1>4, <3>1, <3>2, TaskLeaves DEF StopReturns, Return, Quiet
    <3>3. CASE /\ held[k] # None /\ Suspend(k, "sending", held[k])
               /\ toDevice' = Append(toDevice, Message("alarm", held[k]))
      <4>1. PICK u \in Timers : u = held[k]
        BY <3>3 DEF DataOK
      <4>2. UNCHANGED <<status, fired, sent>>
        BY <1>4 DEF StopReturns
      <4>3. status'[u] \notin {"none", "active"}
        BY <4>1, <4>2 DEF Bookkeeping, PickedAreDue
      <4>4. status'[u] = "ringing" => Oldest(status, u)'
        BY <3>1, <3>3, <4>1, <4>2 DEF Bookkeeping, HeldIsOldest, Oldest
      <4>5. Announced \subseteq {u}
        BY <3>1, <3>3, <4>1 DEF Bookkeeping, StopperHolds
      <4>6. Bookkeeping' /\ Announced' \subseteq {u}
        BY <1>1, <3>1, <3>3, <4>1, <4>2, <4>3, <4>4, <4>5, TaskAnnounces
      <4> QED BY <3>3, <4>1, <4>6 DEF Announces
    <3> QED BY <1>4, <3>2, <3>3 DEF StopReturns
  <2> QED BY <1>4, <2>1 DEF StopReturns, Moves
<1>5. CASE AlarmSent(k)
  <2>1. Bookkeeping' /\ Quiet
    <3>1. stopping' <=> stopping /\ ~Stopper(k)
      BY <1>5, Zenon DEF AlarmSent, Stopper
    <3> QED BY <1>1, <1>5, <3>1, TaskLeaves DEF AlarmSent, Return, Quiet
  <2> QED BY <1>5, <2>1 DEF AlarmSent, Moves
<1> QED BY <1>2, <1>3, <1>4, <1>5

\* A dismissal: its timer is no longer announced when it has been read.
LEMMA DismissedMoves == ASSUME DataOK, DataOK', Bookkeeping, ReadDismissed PROVE Moves
<1>1. /\ at["socket"] = "idle" /\ "socket" \in Tasks
      /\ toGateway # <<>> /\ toGateway' = Tail(toGateway) /\ Head(toGateway).kind = "dismissed"
      /\ UNCHANGED <<fired, link, control, alarmId, dismissPending>>
  BY DEF ReadDismissed, Read, Tasks
<1>2. PICK t \in Timers : t = Head(toGateway).timer
  <2>1. Head(toGateway) \in ToGateway
    BY <1>1 DEF DataOK
  <2> QED BY <1>1, <2>1 DEF ToGateway
<1> DEFINE closed == [status EXCEPT ![t] = "dismissed"]
<1>3. \A u : Head(toGateway) = Message("dismissed", u) => u = t
  BY <1>2 DEF Message
<1>4. CASE status[t] # "ringing" /\ UNCHANGED <<status, gateway, toDevice>>
  <2>1. Bookkeeping' /\ Quiet
    BY <1>1, <1>4, BookkeepingSame DEF Quiet
  <2>2. t \notin Announced'
    BY <1>4 DEF Announced
  <2> QED BY <1>1, <1>3, <1>4, <2>1, <2>2 DEF Moves
<1>5. CASE status[t] = "ringing" /\ status' = closed
  <2>1. RowsMove
    BY <1>1, <1>2, <1>5 DEF RowsMove, DataOK, Bookkeeping, FiredAreDue
  <2>2. status'[t] = "dismissed" /\ \A u \in Timers : status[u] \in Closed => status'[u] \in Closed
    BY <1>2, <1>5 DEF DataOK, Closed
  <2>3. ASSUME sent' = None, Suspend("socket", "replying", None), stopping' = stopping,
               toDevice' = Append(toDevice, Message("stop", t))
        PROVE  Bookkeeping' /\ Quiet
    <3>1. stopping' <=> stopping /\ ~Stopper("socket")
      BY <1>1, <2>3, Zenon DEF Stopper
    <3>2. Bookkeeping' /\ Announced' \subseteq Announced
      BY <1>1, <2>1, <2>3, <3>1, TaskLeaves
    <3>3. /\ Message("stop", t) \in ToDevice /\ Message("stop", t).kind # "alarm"
          /\ Message("stop", t).timer = t
      BY <1>2, MessageType DEF Message
    <3>4. toDevice' = Append(toDevice, Message("stop", t)) /\ status'[t] \in Closed
      BY <2>2, <2>3 DEF Closed
    <3>5. PICK m \in ToDevice : m = Message("stop", t)
      BY <3>3
    <3> HIDE DEF Message
    <3>6. /\ toDevice' = Append(toDevice, m) /\ m.kind # "alarm"
          /\ m.kind = "stop" => status'[m.timer] \in Closed
      BY <3>3, <3>4, <3>5
    <3> QED BY <3>2, <3>6 DEF Quiet
  <2>4. ASSUME NotifyPending("socket", closed, sent), UNCHANGED sent
        PROVE  Bookkeeping' /\ (Quiet \/ Announces)
    <3>1. PICK st : st = closed
      OBVIOUS
    <3>2. NotifyPending("socket", st, sent) /\ st = status'
      BY <1>5, <2>4, <3>1
    <3> HIDE DEF closed
    <3> QED BY <1>1, <2>1, <2>4, <3>2, NotifyBook
  <2>5. Bookkeeping' /\ (Quiet \/ Announces)
    <3>1. \/ /\ sent' = None /\ Suspend("socket", "replying", None) /\ stopping' = stopping
             /\ toDevice' = Append(toDevice, Message("stop", t))
          \/ NotifyPending("socket", closed, sent) /\ UNCHANGED sent
      BY <1>2, <1>5, Zenon DEF ReadDismissed
    <3> QED BY <2>3, <2>4, <3>1
  <2>6. t \notin Announced'
    BY <2>2 DEF Announced
  <2> QED BY <1>1, <1>3, <2>2, <2>5, <2>6 DEF Moves
<1> QED BY <1>2, <1>4, <1>5, Zenon DEF ReadDismissed

\* Every step of the gateway, except that a new connection starts afresh.
LEMMA GatewayMoves ==
  ASSUME DataOK, DataOK', Bookkeeping, GatewayStep PROVE Moves \/ ReadAuth
<1>1. UNCHANGED rows => RowsMove
  BY SameRowsMove
<1>2. "socket" \in Tasks /\ "scheduler" \in Tasks /\ "session" \in Tasks
  BY DEF Tasks
<1>3. CASE SchedulerPolls
  <2>1. Bookkeeping' /\ (Quiet \/ Announces)
    BY <1>1, <1>2, <1>3, NotifyBook DEF SchedulerPolls
  <2> QED BY <1>3, <2>1 DEF SchedulerPolls, Moves
<1>4. CASE ReplySent
  <2>1. Bookkeeping' /\ (Quiet \/ Announces)
    BY <1>1, <1>2, <1>4, NotifyBook DEF ReplySent
  <2> QED BY <1>4, <2>1 DEF ReplySent, Moves
<1>5. CASE SessionStops
  <2>1. Bookkeeping' /\ Quiet
    BY <1>1, <1>2, <1>5, TaskStops, NoneIsNoTimer DEF SessionStops, Quiet
  <2> QED BY <1>5, <2>1 DEF SessionStops, Moves
<1>6. CASE ReadStart
  <2>1. Bookkeeping' /\ Quiet
    BY <1>6, BookkeepingSame DEF ReadStart, Read, Quiet
  <2>2. \A t \in Timers : Head(toGateway) # Message("dismissed", t)
    BY <1>6 DEF ReadStart, Read, Message
  <2> QED BY <1>6, <2>1, <2>2 DEF ReadStart, Read, Moves, Announced
<1>7. CASE StartReturns
  <2>1. Bookkeeping' /\ Quiet
    BY <1>7, BookkeepingSame DEF StartReturns, Quiet
  <2> QED BY <1>7, <2>1 DEF StartReturns, Moves
<1>8. CASE ReadStop
  <2>1. Bookkeeping' /\ Quiet
    <3>1. CASE UNCHANGED <<stopping, at, held>>
      BY <1>8, <3>1, BookkeepingSame DEF ReadStop, Quiet
    <3>2. CASE ~stopping /\ Suspend("socket", "stopping", None) /\ stopping' = TRUE
      BY <1>1, <1>2, <1>8, <3>2, TaskStops, NoneIsNoTimer DEF ReadStop, Read, Quiet
    <3> QED BY <1>8, <3>1, <3>2, Zenon DEF ReadStop
  <2>2. \A t \in Timers : Head(toGateway) # Message("dismissed", t)
    BY <1>8 DEF ReadStop, Read, Message
  <2> QED BY <1>8, <2>1, <2>2 DEF ReadStop, Read, Moves, Announced
<1> QED BY <1>3, <1>4, <1>5, <1>6, <1>7, <1>8, TaskMoves, DismissedMoves DEF GatewayStep

-----------------------------------------------------------------------------
(* Deliveries.                                                             *)

\* Taking the first element moves the others down.
LEMMA BehindHead ==
  ASSUME NEW S, NEW s \in Seq(S), NEW i \in DOMAIN s, s[i] # Head(s)
  PROVE  i # 1 /\ i - 1 \in DOMAIN Tail(s) /\ Tail(s)[i - 1] = s[i]
OBVIOUS

\* The wire after its first message is taken...
LEMMA Taken ==
  ASSUME DataOK, toDevice # <<>>, toDevice' = Tail(toDevice)
  PROVE  /\ Len(toDevice') = Len(toDevice) - 1 /\ DOMAIN toDevice' = 1 .. Len(toDevice) - 1
         /\ Len(toDevice) \in Nat \ {0} /\ DOMAIN toDevice = 1 .. Len(toDevice)
         /\ Head(toDevice) = toDevice[1]
         /\ \A j \in 1 .. Len(toDevice) - 1 : toDevice'[j] = toDevice[j + 1]
BY DEF DataOK

\* ...and after one more is sent.
LEMMA Sent ==
  ASSUME DataOK, NEW m, toDevice' = Append(toDevice, m)
  PROVE  /\ Len(toDevice') = Len(toDevice) + 1 /\ DOMAIN toDevice' = 1 .. Len(toDevice) + 1
         /\ Len(toDevice) \in Nat /\ DOMAIN toDevice = 1 .. Len(toDevice)
         /\ toDevice'[Len(toDevice) + 1] = m
         /\ \A j \in 1 .. Len(toDevice) : toDevice'[j] = toDevice[j]
BY DEF DataOK

\* An alarm that is the last on the wire stays the last when a message is taken...
LEMMA NoOtherTaken ==
  ASSUME DataOK, toDevice # <<>>, toDevice' = Tail(toDevice), NEW t
  PROVE  /\ NoOther(t, 1) => NoOther(t, 1)'
         /\ \A i \in DOMAIN toDevice : i # 1 /\ NoOther(t, i) =>
              /\ i - 1 \in DOMAIN toDevice' /\ NoOther(t, i - 1)'
              /\ toDevice'[i - 1] = toDevice[i]
BY Taken DEF NoOther

\* ...and when one is sent that is no alarm; an alarm sent is the last.
LEMMA NoOtherSent ==
  ASSUME DataOK, NEW m, toDevice' = Append(toDevice, m), NEW t
  PROVE  /\ m.kind # "alarm" => \A i \in Nat \ {0} : NoOther(t, i) => NoOther(t, i)'
         /\ m = Message("alarm", t) => \A i : i = Len(toDevice) + 1 => NoOther(t, i)'
         /\ \A i \in DOMAIN toDevice : i \in DOMAIN toDevice' /\ toDevice'[i] = toDevice[i]
<1>1. ASSUME m.kind # "alarm", NEW i \in Nat \ {0}, NoOther(t, i) PROVE NoOther(t, i)'
  <2> SUFFICES ASSUME NEW j \in i .. Len(toDevice'), toDevice'[j].kind = "alarm"
               PROVE  toDevice'[j].timer = t
    BY DEF NoOther
  <2>1. j # Len(toDevice) + 1
    BY <1>1, Sent
  <2>2. j \in i .. Len(toDevice) /\ j \in 1 .. Len(toDevice)
    BY <2>1, Sent
  <2> QED BY <1>1, <2>2, Sent DEF NoOther
<1>2. ASSUME m = Message("alarm", t), NEW i, i = Len(toDevice) + 1 PROVE NoOther(t, i)'
  BY <1>2, Sent DEF NoOther, Message
<1>3. \A i \in DOMAIN toDevice : i \in DOMAIN toDevice' /\ toDevice'[i] = toDevice[i]
  BY Sent
<1> QED BY <1>1, <1>2, <1>3

\* The gateway's steps deliver.
LEMMA MovesDeliver ==
  ASSUME DataOK, DataOK', Delivery, Moves
  PROVE  Delivery'
<1>1. \A i \in DOMAIN toDevice : toDevice[i] \in ToDevice
  BY DEF DataOK
<1>2. ASSUME NEW m \in ToDevice, toDevice' = Append(toDevice, m),
             m.kind = "stop" => status'[m.timer] \in Closed
      PROVE  StopsAreClosed'
  <2> SUFFICES ASSUME NEW i \in DOMAIN toDevice', toDevice'[i].kind = "stop"
               PROVE  status'[toDevice'[i].timer] \in Closed
    BY DEF StopsAreClosed
  <2>1. CASE i = Len(toDevice) + 1
    BY <1>2, <2>1, Sent
  <2>2. CASE i \in DOMAIN toDevice
    <3>1. toDevice'[i] = toDevice[i] /\ toDevice[i].timer \in Timers
      BY <1>1, <1>2, <2>2, Sent DEF ToDevice, Alarms
    <3> QED BY <2>2, <3>1 DEF Delivery, StopsAreClosed, Moves
  <2> QED BY <1>2, <2>1, <2>2, Sent
<1>3. ASSUME NEW t \in Announced', ComesBack(t) PROVE ComesBack(t)'
  <2>1. CASE \E i \in DOMAIN control : control[i] = Message("dismissed", t)
    BY <2>1 DEF Moves, ComesBack
  <2>2. ASSUME NEW i \in DOMAIN toGateway, toGateway[i] = Message("dismissed", t)
        PROVE  ComesBack(t)'
    <3>1. CASE toGateway' = toGateway
      BY <2>2, <3>1 DEF ComesBack
    <3>2. CASE /\ toGateway # <<>> /\ toGateway' = Tail(toGateway)
               /\ Head(toGateway) # Message("dismissed", t)
      <4>1. i # 1 /\ i - 1 \in DOMAIN toGateway' /\ toGateway'[i - 1] = toGateway[i]
        <5> HIDE DEF Message
        <5> QED BY <2>2, <3>2, BehindHead DEF DataOK
      <4> QED BY <2>2, <4>1 DEF ComesBack
    <3> QED BY <3>1, <3>2 DEF Moves
  <2> QED BY <1>3, <2>1, <2>2 DEF ComesBack
<1>4. CASE Quiet
  <2>1. StopsAreClosed'
    <3>1. CASE toDevice' = toDevice
      BY <1>1, <3>1 DEF Delivery, StopsAreClosed, Moves, ToDevice, Alarms
    <3> QED BY <1>2, <1>4, <3>1 DEF Quiet
  <2>2. ASSUME NEW t \in Announced', link' = "up" PROVE Reaches(t)'
    <3>1. Reaches(t)
      BY <1>4, <2>2 DEF Quiet, Delivery, AnnouncedReach, Moves
    <3>2. CASE toDevice' = toDevice
      BY <1>3, <3>1, <3>2 DEF Reaches, Rings, Comes, NoOther, Moves
    <3>3. ASSUME NEW m, toDevice' = Append(toDevice, m), m.kind # "alarm" PROVE Reaches(t)'
      <4>1. CASE Rings(t)
        <5>1. 1 \in Nat \ {0} /\ NoOther(t, 1)
          BY <4>1 DEF Rings
        <5>2. \A i \in Nat \ {0} : NoOther(t, i) => NoOther(t, i)'
          BY <3>3, NoOtherSent
        <5>3. NoOther(t, 1)'
          BY <5>1, <5>2
        <5> QED BY <4>1, <5>3 DEF Reaches, Rings, Moves
      <4>2. CASE Comes(t)
        <5>1. PICK i \in DOMAIN toDevice : toDevice[i] = Message("alarm", t) /\ NoOther(t, i)
          BY <4>2 DEF Comes
        <5>2. i \in Nat \ {0}
          BY <3>3, Sent
        <5> QED BY <3>3, <5>1, <5>2, NoOtherSent DEF Reaches, Comes
      <4> QED BY <1>3, <3>1, <4>1, <4>2 DEF Reaches
    <3> QED BY <1>4, <3>2, <3>3 DEF Quiet
  <2> QED BY <2>1, <2>2 DEF Delivery, AnnouncedReach
<1>5. CASE Announces
  <2>1. PICK u \in Timers : /\ toDevice' = Append(toDevice, Message("alarm", u))
                            /\ Announced' \subseteq {u}
    BY <1>5 DEF Announces
  <2>2. StopsAreClosed'
    <3>1. Message("alarm", u) \in ToDevice /\ Message("alarm", u).kind # "stop"
      BY MessageType DEF Message
    <3> QED BY <1>2, <2>1, <3>1
  <2>3. Reaches(u)'
    <3>1. PICK i : i = Len(toDevice) + 1
      OBVIOUS
    <3>2. i \in DOMAIN toDevice' /\ toDevice'[i] = Message("alarm", u)
      BY <2>1, <3>1, Sent
    <3>3. NoOther(u, i)'
      BY <2>1, <3>1, NoOtherSent
    <3> QED BY <3>2, <3>3 DEF Reaches, Comes
  <2> QED BY <2>1, <2>2, <2>3 DEF Delivery, AnnouncedReach
<1> QED BY <1>4, <1>5 DEF Moves

\* Of one step of the device: what is announced still reaches it.
KeepsReach == \A t \in Announced : Reaches(t) => Reaches(t)'

\* The device takes a message that does not concern t.
LEMMA NotAnnouncedTaken ==
  ASSUME DataOK, toDevice # <<>>, toDevice' = Tail(toDevice),
         UNCHANGED <<control, toGateway, dismissPending>>, NEW t, Reaches(t),
         Head(toDevice) # Message("alarm", t), Rings(t) => alarmId' = alarmId
  PROVE  Reaches(t)'
<1>1. CASE ComesBack(t)
  BY <1>1 DEF Reaches, ComesBack
<1>2. CASE Rings(t)
  <2>1. NoOther(t, 1)'
    BY <1>2, NoOtherTaken DEF Rings
  <2> QED BY <1>2, <2>1 DEF Reaches, Rings
<1>3. CASE Comes(t)
  <2>1. PICK i \in DOMAIN toDevice : toDevice[i] = Message("alarm", t) /\ NoOther(t, i)
    BY <1>3 DEF Comes
  <2>2. i # 1
    BY <2>1, Taken
  <2>3. i - 1 \in DOMAIN toDevice' /\ NoOther(t, i - 1)' /\ toDevice'[i - 1] = toDevice[i]
    BY <2>1, <2>2, NoOtherTaken
  <2> QED BY <2>1, <2>3 DEF Reaches, Comes
<1> QED BY <1>1, <1>2, <1>3 DEF Reaches

\* What the WebSocket task of the device takes, it applies: an alarm rings, and a
\* timer.stop ends only an alarm that is closed.
LEMMA WebSocketReach ==
  ASSUME DataOK, DataOK', Delivery, WebSocketTask
  PROVE  KeepsReach /\ toDevice # <<>> /\ toDevice' = Tail(toDevice)
<1>1. /\ toDevice # <<>> /\ toDevice' = Tail(toDevice)
      /\ UNCHANGED <<control, toGateway, dismissPending>>
  BY DEF WebSocketTask, ReceiveAuthOk, ReceiveEnded, ReceiveAlarm, ReceiveStop, Receive
<1> SUFFICES ASSUME NEW t \in Announced, Reaches(t) PROVE Reaches(t)'
  BY <1>1 DEF KeepsReach
<1>2. t \in Timers /\ status[t] = "ringing"
  BY DEF Announced
<1>3. CASE Head(toDevice).kind # "alarm"
  <2>1. Head(toDevice) # Message("alarm", t)
    BY <1>3 DEF Message
  <2>2. ASSUME Rings(t) PROVE alarmId' = alarmId
    <3>1. CASE ReceiveStop
      <4>1. status[Head(toDevice).timer] \in Closed
        BY <1>1, <3>1, Taken DEF ReceiveStop, Receive, Delivery, StopsAreClosed
      <4>2. Head(toDevice).timer # t
        BY <1>2, <4>1 DEF Closed
      <4> QED BY <2>2, <3>1, <4>2 DEF ReceiveStop, Rings
    <3> QED BY <1>3, <3>1
            DEF WebSocketTask, ReceiveAuthOk, ReceiveEnded, ReceiveAlarm, ReceiveStop, Receive
  <2> QED BY <1>1, <2>1, <2>2, NotAnnouncedTaken
<1>4. CASE Head(toDevice).kind = "alarm"
  <2>1. alarmId' = Head(toDevice).timer
    BY <1>4 DEF WebSocketTask, ReceiveAuthOk, ReceiveEnded, ReceiveAlarm, ReceiveStop, Receive
  <2>2. CASE Head(toDevice) = Message("alarm", t)
    <3>1. alarmId' = t
      BY <2>1, <2>2 DEF Message
    <3>2. CASE ComesBack(t)
      BY <1>1, <3>2 DEF Reaches, ComesBack
    <3>3. CASE NoOther(t, 1)
      <4>1. NoOther(t, 1)'
        BY <1>1, <3>3, NoOtherTaken
      <4> QED BY <3>1, <4>1 DEF Reaches, Rings
    <3>4. ASSUME NEW i \in DOMAIN toDevice, i # 1, toDevice[i] = Message("alarm", t), NoOther(t, i)
          PROVE  Reaches(t)'
      <4>1. i - 1 \in DOMAIN toDevice' /\ NoOther(t, i - 1)' /\ toDevice'[i - 1] = toDevice[i]
        BY <1>1, <3>4, NoOtherTaken
      <4> QED BY <3>4, <4>1 DEF Reaches, Comes
    <3> QED BY <3>2, <3>3, <3>4 DEF Reaches, Rings, Comes
  <2>3. CASE Head(toDevice) # Message("alarm", t)
    <3>1. Head(toDevice) \in ToDevice
      BY <1>1 DEF DataOK
    <3>2. Head(toDevice).timer # t
      BY <1>4, <2>3, <3>1 DEF ToDevice, Alarms, Message
    <3>3. ~Rings(t)
      BY <1>1, <1>4, <3>2, Taken DEF Rings, NoOther
    <3> QED BY <1>1, <2>3, <3>3, NotAnnouncedTaken
  <2> QED BY <2>2, <2>3
<1> QED BY <1>3, <1>4

\* A dismissed alarm is remembered until its message is queued...
LEMMA DismissReach ==
  ASSUME DataOK, DismissAlarm, NEW t \in Timers, Reaches(t) PROVE Reaches(t)'
<1>1. /\ alarmId # None /\ alarmId' = None /\ dismissPending' = alarmId
      /\ UNCHANGED <<control, toGateway, toDevice>>
  BY DEF DismissAlarm
<1>2. Rings(t) => Rings(t)'
  BY <1>1 DEF Rings, NoOther
<1> QED BY <1>1, <1>2 DEF Reaches, ComesBack, Comes, NoOther

\* ...where it stays...
LEMMA QueueReach ==
  ASSUME DataOK, NEW kind, NEW u, Queue(kind, u), UNCHANGED <<toGateway, toDevice, alarmId>>,
         NEW t \in Timers, Reaches(t),
         dismissPending' = dismissPending \/ (kind = "dismissed" /\ u = dismissPending)
  PROVE  Reaches(t)'
<1>1. /\ \A i \in DOMAIN control : i \in DOMAIN control' /\ control'[i] = control[i]
      /\ Len(control) + 1 \in DOMAIN control' /\ control'[Len(control) + 1] = Message(kind, u)
  BY DEF Queue, DataOK
<1>2. CASE ComesBack(t)
  BY <1>1, <1>2 DEF Reaches, ComesBack
<1>3. CASE Rings(t)
  <2>1. CASE alarmId = t \/ dismissPending' = dismissPending
    BY <1>3, <2>1 DEF Reaches, Rings, NoOther
  <2>2. CASE u = t /\ kind = "dismissed"
    BY <1>1, <2>2 DEF Reaches, ComesBack
  <2> QED BY <1>3, <2>1, <2>2 DEF Rings
<1>4. CASE Comes(t)
  BY <1>4 DEF Reaches, Comes, NoOther
<1> QED BY <1>2, <1>3, <1>4 DEF Reaches

\* ...until it is sent, as long as no send fails.
LEMMA SendReach ==
  ASSUME MaxLosses = 0, DataOK, NEW lost \in BOOLEAN, SendControl(lost),
         NEW t \in Timers, Reaches(t)
  PROVE  Reaches(t)'
<1>1. /\ control # <<>> /\ control' = Tail(control) /\ toGateway' = Append(toGateway, Head(control))
      /\ UNCHANGED <<toDevice, alarmId, dismissPending>>
  BY DEF SendControl, DataOK
<1>2. /\ \A i \in DOMAIN toGateway : i \in DOMAIN toGateway' /\ toGateway'[i] = toGateway[i]
      /\ Len(toGateway) + 1 \in DOMAIN toGateway'
      /\ toGateway'[Len(toGateway) + 1] = Head(control)
  BY <1>1 DEF DataOK
<1>3. ASSUME NEW i \in DOMAIN control, control[i] = Message("dismissed", t) PROVE ComesBack(t)'
  <2>1. CASE control[i] = Head(control)
    BY <1>2, <1>3, <2>1 DEF ComesBack
  <2>2. CASE control[i] # Head(control)
    <3>1. i - 1 \in DOMAIN control' /\ control'[i - 1] = control[i]
      BY <1>1, <1>3, <2>2, BehindHead DEF DataOK
    <3> QED BY <1>3, <3>1 DEF ComesBack
  <2> QED BY <2>1, <2>2
<1>4. ComesBack(t) => ComesBack(t)'
  BY <1>2, <1>3 DEF ComesBack
<1>5. (Rings(t) => Rings(t)') /\ (Comes(t) => Comes(t)')
  BY <1>1 DEF Rings, Comes, NoOther
<1> QED BY <1>4, <1>5 DEF Reaches

\* The other tasks of the device keep what is announced.
LEMMA DeviceReach ==
  ASSUME MaxLosses = 0, DataOK, DataOK', DeviceStep, ~WebSocketTask
  PROVE  KeepsReach /\ toDevice' = toDevice
<1>1. ASSUME toDevice' = toDevice, UNCHANGED <<toGateway, control, alarmId, dismissPending>>
      PROVE  KeepsReach
  BY <1>1 DEF KeepsReach, Reaches, ComesBack, Rings, Comes, NoOther
<1>2. CASE HandleAlarm \/ StartChime \/ PlayChime \/ \E b \in BOOLEAN : UserStarts(b)
  BY <1>1, <1>2 DEF HandleAlarm, StartChime, PlayChime, UserStarts
<1>3. CASE AlarmTimeout \/ UserDismisses
  <2>1. DismissAlarm
    BY <1>3 DEF AlarmTimeout, UserDismisses
  <2> QED BY <2>1, DismissReach DEF DismissAlarm, KeepsReach, Announced
<1>4. CASE SendAuth \/ SendStart
  BY <1>4, QueueReach DEF SendAuth, SendStart, KeepsReach, Announced
<1>5. CASE SendDismissal
  BY <1>5, QueueReach DEF SendDismissal, KeepsReach, Announced
<1>6. CASE UserStops
  <2>1. CASE UNCHANGED control
    BY <1>1, <1>6, <2>1 DEF UserStops
  <2>2. CASE Queue("stop", None)
    BY <1>6, <2>2, QueueReach DEF UserStops, KeepsReach, Announced
  <2> QED BY <1>6, <2>1, <2>2 DEF UserStops
<1>7. CASE \E b \in BOOLEAN : SendControl(b)
  BY <1>7, SendReach DEF SendControl, KeepsReach, Announced
<1> QED BY <1>2, <1>3, <1>4, <1>5, <1>6, <1>7 DEF DeviceStep

-----------------------------------------------------------------------------
(* The invariant.                                                          *)

\* A connection that authenticates: the new DeviceSession has announced nothing.
LEMMA AuthKeeps == ASSUME DataOK, DataOK', AnnouncedInv, ReadAuth PROVE AnnouncedInv'
<1>1. /\ UNCHANGED rows /\ ~stopping' /\ sent' = None /\ toDevice' = <<Message("auth.ok", None)>>
      /\ \A k \in Tasks : at'[k] \in {"idle", "replying"} /\ held'[k] = None
  BY DEF ReadAuth
<1>2. Announced' = {}
  BY <1>1, NoneIsNoTimer DEF Announced
<1>3. FiredAreDue' /\ PickedAreDue' /\ OneStopper'
  BY <1>1, NoneIsNoTimer
     DEF AnnouncedInv, Bookkeeping, FiredAreDue, PickedAreDue, OneStopper, Stopper
<1>4. HeldIsOldest' /\ AnnouncedIsOldest' /\ StopperHolds'
  BY <1>1, <1>2 DEF HeldIsOldest, AnnouncedIsOldest, StopperHolds
<1>5. StopsAreClosed'
  BY <1>1 DEF StopsAreClosed, Message
<1>6. AnnouncedReach'
  BY <1>2 DEF AnnouncedReach
<1> QED BY <1>3, <1>4, <1>5, <1>6 DEF AnnouncedInv, Bookkeeping, Delivery

\* Without an authenticated connection nothing is promised.
LEMMA ConnectionKeeps ==
  ASSUME DataOK, AnnouncedInv, Drop \/ RejectFirst \/ Connected PROVE AnnouncedInv'
<1>1. UNCHANGED <<rows, gateway>> /\ link' # "up" /\ (toDevice' = toDevice \/ toDevice' = <<>>)
  BY DEF Drop, RejectFirst, Connected, Disconnected
<1>2. Bookkeeping'
  BY <1>1, BookkeepingSame DEF AnnouncedInv
<1>3. StopsAreClosed' /\ AnnouncedReach'
  BY <1>1 DEF AnnouncedInv, Delivery, StopsAreClosed, AnnouncedReach
<1> QED BY <1>2, <1>3 DEF AnnouncedInv, Delivery

\* The steps of the device keep the invariant.
LEMMA DeviceKeeps ==
  ASSUME MaxLosses = 0, DataOK, DataOK', AnnouncedInv, DeviceStep PROVE AnnouncedInv'
<1>1. UNCHANGED <<rows, gateway, link>>
  BY DEF DeviceStep, WebSocketTask, ReceiveAuthOk, ReceiveEnded, ReceiveAlarm, ReceiveStop, Receive,
         SendAuth, HandleAlarm, StartChime, PlayChime, AlarmTimeout, UserDismisses, DismissAlarm,
         SendDismissal, SendStart, UserStops, SendControl, UserStarts
<1>2. Bookkeeping' /\ Announced' = Announced
  BY <1>1, BookkeepingSame DEF AnnouncedInv
<1>3. KeepsReach /\ (toDevice' = toDevice \/ (toDevice # <<>> /\ toDevice' = Tail(toDevice)))
  BY WebSocketReach, DeviceReach DEF AnnouncedInv
<1>4. StopsAreClosed'
  <2>1. CASE toDevice' = toDevice
    BY <1>1, <2>1 DEF AnnouncedInv, Delivery, StopsAreClosed
  <2>2. CASE toDevice # <<>> /\ toDevice' = Tail(toDevice)
    BY <1>1, <2>2, Taken DEF AnnouncedInv, Delivery, StopsAreClosed
  <2> QED BY <1>3, <2>1, <2>2
<1>5. AnnouncedReach'
  BY <1>1, <1>2, <1>3 DEF AnnouncedInv, Delivery, AnnouncedReach, KeepsReach
<1> QED BY <1>2, <1>4, <1>5 DEF AnnouncedInv, Delivery

\* What the gateway believes it has announced rings, or its dismissal is on the way
\* back (notify_pending_timer, timer_alarm_sent_id), if no send of the device fails on
\* a connection that stays: for any number of timers, sessions, lost connections and
\* slots of control_queue_.
THEOREM AnnouncedAlwaysRings == ASSUME MaxLosses = 0 PROVE Spec => []AnnouncedRings
<1>1. Init => AnnouncedInv
  <2> SUFFICES ASSUME Init PROVE AnnouncedInv
    OBVIOUS
  <2>1. Announced = {}
    BY DEF Init, Announced
  <2>2. FiredAreDue /\ PickedAreDue /\ OneStopper
    BY NoneIsNoTimer DEF Init, FiredAreDue, PickedAreDue, OneStopper, Stopper
  <2>3. HeldIsOldest /\ AnnouncedIsOldest /\ StopperHolds
    BY <2>1 DEF Init, HeldIsOldest, AnnouncedIsOldest, StopperHolds, Stopper
  <2>4. Delivery
    BY DEF Init, Delivery, StopsAreClosed, AnnouncedReach
  <2> QED BY <2>2, <2>3, <2>4 DEF AnnouncedInv, Bookkeeping
<1>2. DataOK /\ DataOK' /\ AnnouncedInv /\ [Next]_vars => AnnouncedInv'
  <2> SUFFICES ASSUME DataOK, DataOK', AnnouncedInv, [Next]_vars PROVE AnnouncedInv'
    OBVIOUS
  <2>1. CASE Moves
    BY <2>1, MovesDeliver DEF AnnouncedInv, Moves
  <2>2. CASE TableStep
    BY <2>1, <2>2, TableMoves DEF AnnouncedInv
  <2>3. CASE GatewayStep
    BY <2>1, <2>3, GatewayMoves, AuthKeeps DEF AnnouncedInv
  <2>4. CASE UNCHANGED vars
    <3>1. Bookkeeping' /\ Announced' = Announced
      BY <2>4, BookkeepingSame DEF AnnouncedInv, vars
    <3>2. Delivery'
      BY <2>4, <3>1 DEF AnnouncedInv, Delivery, StopsAreClosed, AnnouncedReach, Reaches, ComesBack,
                        Rings, Comes, NoOther, vars, device
    <3> QED BY <3>1, <3>2 DEF AnnouncedInv
  <2> QED BY <2>2, <2>3, <2>4, ConnectionKeeps, DeviceKeeps DEF Next
<1>3. DataOK /\ AnnouncedInv => AnnouncedRings
  <2> SUFFICES ASSUME DataOK, AnnouncedInv, link = "up", sent # None, status[sent] = "ringing"
               PROVE  \/ alarmId = sent \/ dismissPending = sent
                      \/ Message("alarm", sent) \in ToSet(toDevice)
                      \/ Message("dismissed", sent) \in ToSet(control \o toGateway)
    BY DEF AnnouncedRings
  <2>1. Reaches(sent)
    BY DEF DataOK, Announced, AnnouncedInv, Delivery, AnnouncedReach
  <2>2. CASE ComesBack(sent)
    <3>1. \A i \in DOMAIN control : /\ (control \o toGateway)[i] = control[i]
                                    /\ i \in DOMAIN (control \o toGateway)
      BY DEF DataOK
    <3>2. \A i \in DOMAIN toGateway : /\ (control \o toGateway)[Len(control) + i] = toGateway[i]
                                      /\ Len(control) + i \in DOMAIN (control \o toGateway)
      BY DEF DataOK
    <3> QED BY <2>2, <3>1, <3>2 DEF ComesBack, ToSet
  <2> QED BY <2>1, <2>2 DEF Reaches, Rings, Comes, ToSet
<1>4. TimerTypeOK => DataOK
  BY DEF TimerTypeOK
<1> QED BY <1>1, <1>2, <1>3, <1>4, TimerTypeCorrect, PTL DEF Spec

=============================================================================
