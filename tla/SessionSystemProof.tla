-------------------------- MODULE SessionSystemProof --------------------------
(***************************************************************************)
(* Proofs about SessionSystem, for every number of sessions, callbacks,    *)
(* lost connections and events, and every length of the queues.            *)
(*                                                                         *)
(* What a queue holds is reasoned about by the kinds in it: a command is   *)
(* in flight, there is one of its kind, it is ahead of another, and the    *)
(* same of the answers.  Each action is first given as what it does to     *)
(* those, and what the invariant says of a session then follows without    *)
(* looking into a queue.  That invariant (Inv) has two parts: what the     *)
(* connection and its authentication allow holds always, and that starts,  *)
(* stops and ready words take turns holds while none has crossed another   *)
(* and no stop was lost.  The frames have an invariant of their own, by    *)
(* the sessions they are of, and so has the volume.                        *)
(***************************************************************************)
EXTENDS SessionSystem, TLAPS

ChimeState == [at : {"off", "asked", "playing", "draining"}, frames : 0 .. ChimeFrames,
               played : 0 .. ChimeSamples]
ChimeOK == chime \in ChimeState

\* What is not a flag and not a queue.
CountsOK ==
  /\ link \in {"down", "opening", "up", "closing"} /\ pass \in {"control", "capture"}
  /\ ChimeOK
  /\ session \in 0 .. MaxSessions /\ events \in 0 .. MaxEvents /\ parts \in 0 .. MaxParts
  /\ gateway \in {"off", "opening", "orphan", "on", "waiting", "switching", "closing"}
  /\ told \in 0 .. MaxSessions /\ known \in {"unknown", "volume.up", "volume.off"}
  /\ drops \in 0 .. MaxDrops /\ crossed \subseteq {"press", "switch"}
HistoryOK == lost \subseteq Kinds /\ hasty \subseteq 1 .. MaxSessions

LEMMA TypeParts == SessionTypeOK <=> FlagsOK /\ QueuesOK /\ CountsOK /\ HistoryOK
  BY Zenon DEF SessionTypeOK, DeviceTypeOK, CountsOK, HistoryOK, ChimeOK, ChimeState

\* The tuples of variables are abbreviations.
USE DEF authVars, flagVars, sessionVars, userVars, micVars, controlVars, senderVars, gatewayVars,
        NotDevice, Elsewhere

\* Every flag stays a flag.
LEMMA FlagsType == ASSUME FlagsOK, Next PROVE FlagsOK'
<1>1. CASE Wake
  BY <1>1, Zenon DEF FlagsOK, Wake, StartSession, NotStreaming
<1>2. CASE ButtonStart
  BY <1>2, Zenon DEF FlagsOK, ButtonStart, StartSession, NotStreaming
<1>3. CASE StopSession
  BY <1>3, Zenon DEF FlagsOK, StopSession, NotStreaming
<1>4. CASE ReadyDetected
  BY <1>4, Zenon DEF FlagsOK, ReadyDetected, CanQueue
<1>5. CASE Mute \/ Unmute
  BY <1>5, ZenonT(60) DEF FlagsOK, Mute, Unmute
<1>6. CASE SendAuth
  BY <1>6, Zenon DEF FlagsOK, SendAuth
<1>7. CASE ChimeRuns
  <2>1. UNCHANGED <<authVars, flagVars, muted, loud, asking, capturing>>
    BY <1>7, Zenon DEF ChimeRuns, ChimeSkipped, ChimeStarts, ChimePlays, ChimeHandedOver, Dac,
       ChimeDone, ChimeTimesOut, ChimeStep
  <2> QED BY <2>1, Zenon DEF FlagsOK
<1>8. CASE SendStart \/ StartSent
  BY <1>8, Zenon DEF FlagsOK, SendStart, StartSent
<1>9. CASE MicCallback
  BY <1>9, Zenon DEF FlagsOK, MicCallback, CaptureEnabled
<1>10. CASE AppendSample \/ SendControl \/ TakeFrame \/ NothingCaptured \/ SendFrame
  <2>1. UNCHANGED <<authVars, flagVars, muted, loud, asking, capturing>>
    BY <1>10, Zenon DEF AppendSample, SendControl, TakeFrame, NothingCaptured, SendFrame
  <2> QED BY <2>1, Zenon DEF FlagsOK
<1>11. CASE SendFails
  BY <1>11, Zenon DEF FlagsOK, SendFails
<1>12. CASE HandleConnected \/ HandleDisconnected
  BY <1>12, Zenon DEF FlagsOK, HandleConnected, HandleDisconnected, NotStreaming
<1>13. CASE ReceiveAuthOk
  BY <1>13, Zenon DEF FlagsOK, ReceiveAuthOk, Receive
<1>14. CASE ReceiveStarted
  BY <1>14, Zenon DEF FlagsOK, ReceiveStarted, Receive
<1>15. CASE ReceiveEnded
  BY <1>15, Zenon DEF FlagsOK, ReceiveEnded, Receive, NotStreaming
<1>16. ASSUME NEW on \in BOOLEAN, ReceiveKeyword(on) PROVE FlagsOK'
  BY <1>16, Zenon DEF FlagsOK, ReceiveKeyword, Receive
<1>17. ASSUME NEW on \in BOOLEAN, ReceiveVolume(on) PROVE FlagsOK'
  BY <1>17, Zenon DEF FlagsOK, ReceiveVolume, SetRuntimeVolume, Receive
<1>18. CASE GatewayStep \/ LinkLost \/ LinkOpens
  <2>1. UNCHANGED <<authVars, flagVars, muted, loud, asking, capturing>>
    <3>1. CASE GatewayReads
      BY <3>1, Zenon DEF GatewayReads, GatewayAuth, GatewayStart, GatewayStop, GatewayAudio,
         GatewayReady, GatewayReport, Take
    <3>2. CASE GatewayStep /\ ~GatewayReads
      BY <3>2, Zenon DEF GatewayStep, GatewayOpened, GatewayFails, GatewayCloses, GatewayEnds,
         GatewayWaits, GatewaySwitches, GatewaySetsVolume, Acts
    <3> QED BY <1>18, <3>1, <3>2, Zenon DEF LinkLost, LinkOpens
  <2> QED BY <2>1, Zenon DEF FlagsOK
<1> QED
  BY <1>1, <1>2, <1>3, <1>4, <1>5, <1>6, <1>7, <1>8, <1>9, <1>10, <1>11, <1>12, <1>13, <1>14,
     <1>15, <1>16, <1>17, <1>18 DEF Next, User, UserStep, Tasks, LoopStep, MicStep, SenderStep,
     WebSocketStep

\* Messages and frames are made of the protocol's kinds.
LEMMA MessageType ==
  ASSUME CountsOK
  PROVE  /\ \A kind \in {"auth", "session.start", "session.stop", "ready.detected", "state",
                         "volume.up", "volume.off"} : Msg(kind) \in Message
         /\ Report \in Message /\ Part \subseteq Message
  BY DEF CountsOK, Msg, Report, Message, Kinds, Reports, Part

\* What send_json() queues fits.
LEMMA QueueType ==
  ASSUME QueuesOK, NEW msg \in Message, SendJson(msg)
  PROVE  control' \in Seq(Message) /\ Len(control') <= ControlQueue
<1>1. CASE CanQueue
  <2>1. control' = Append(control, msg) /\ Len(control) < ControlQueue /\ control \in Seq(Message)
    BY <1>1 DEF SendJson, CanQueue, QueuesOK
  <2> QED BY <2>1, DeviceAssumption
<1>2. CASE ~CanQueue
  BY <1>2 DEF SendJson, QueuesOK
<1> QED BY <1>1, <1>2

\* Forgetting what a queue of frames or commands held leaves one.
LEMMA ResetType ==
  ASSUME QueuesOK
  PROVE  /\ capture' \in {capture, <<>>} => capture' \in Seq(Part) /\ Len(capture') <= CaptureQueue
         /\ control' \in {control, <<>>} =>
              control' \in Seq(Message) /\ Len(control') <= ControlQueue
         /\ sending' \in {sending, <<>>} => sending' \in Seq(Part) /\ Len(sending') <= 1
<1>1. /\ <<>> \in Seq(Part) /\ <<>> \in Seq(Message)
      /\ Len(<<>>) <= CaptureQueue /\ Len(<<>>) <= ControlQueue /\ Len(<<>>) <= 1
  BY DeviceAssumption
<1> QED BY <1>1, Zenon DEF QueuesOK

\* What is read off a socket is no longer on it.
LEMMA ReadType ==
  ASSUME QueuesOK
  PROVE  /\ toGateway # <<>> => Tail(toGateway) \in Seq(Message)
         /\ toDevice # <<>> => Tail(toDevice) \in Seq(Answers)
<1>1. toGateway \in Seq(Message) /\ toDevice \in Seq(Answers)
  BY DEF QueuesOK
<1> QED BY <1>1

\* Answers join the socket at its end.
LEMMA SayType ==
  ASSUME QueuesOK, NEW answers \in Seq(Answers), Say(answers)
  PROVE  toDevice' \in Seq(Answers)
<1>1. toDevice \in Seq(Answers) /\ toDevice' = toDevice \o answers
  BY DEF Say, QueuesOK
<1> QED BY <1>1

\* Every queue holds what it is for, and the device's no more than they have slots.
LEMMA QueuesType == ASSUME QueuesOK, CountsOK, Next PROVE QueuesOK'
<1> DEFINE Queues == <<sample, building, capture, control, sending, toGateway, toDevice>>
<1> USE MessageType, DeviceAssumption DEF QueuesOK
<1>1. CASE Wake \/ ButtonStart
  <2>1. capture' = <<>> /\ UNCHANGED <<sample, building, control, sending, toGateway, toDevice>>
    BY <1>1, Zenon DEF Wake, ButtonStart, StartSession, ResetCapture
  <2> QED BY <2>1
<1>2. CASE StopSession
  BY <1>2, QueueType DEF StopSession, ResetCapture
<1>3. CASE ReadyDetected
  BY <1>3, QueueType DEF ReadyDetected
<1>4. CASE Mute \/ Unmute
  <2>1. capture' \in {capture, <<>>} /\ SendJson(Msg("state"))
    BY <1>4, Zenon DEF Mute, Unmute, ResetCapture
  <2>2. UNCHANGED <<sample, building, sending, toGateway, toDevice>>
    BY <1>4, Zenon DEF Mute, Unmute
  <2>3. control' \in Seq(Message) /\ Len(control') <= ControlQueue
    BY <2>1, QueueType
  <2>4. capture' \in Seq(Part) /\ Len(capture') <= CaptureQueue
    BY <2>1, ResetType
  <2> QED BY <2>2, <2>3, <2>4
<1>5. CASE SendAuth \/ SendStart
  BY <1>5, QueueType DEF SendAuth, SendStart
<1>6. CASE ChimeRuns \/ StartSent \/ NothingCaptured \/ LinkOpens
  <2>1. UNCHANGED Queues
    BY <1>6, Zenon DEF ChimeRuns, ChimeSkipped, ChimeStarts, ChimePlays, ChimeHandedOver, Dac,
       ChimeDone, ChimeTimesOut, ChimeStep, StartSent, NothingCaptured, LinkOpens
  <2> QED BY <2>1
<1>7. CASE MicCallback
  <2>1. [kind |-> "audio", of |-> session, echo |-> Sounding] \in Part
    BY DEF Part, CountsOK, Sounding
  <2>2. sample' \in Seq(Part) /\ Len(sample') <= 1
    BY <1>7, <2>1 DEF MicCallback
  <2>3. building' \in Seq(Part) /\ Len(building') < PartsPerFrame
    BY <1>7 DEF MicCallback
  <2>4. UNCHANGED <<capture, control, sending, toGateway, toDevice>>
    BY <1>7 DEF MicCallback
  <2> QED BY <2>2, <2>3, <2>4
<1>8. CASE AppendSample
  <2> DEFINE all == building \o sample
             frame == [all[1] EXCEPT !.echo = \E i \in DOMAIN all : all[i].echo]
  <2>1. all \in Seq(Part) /\ Len(all) <= PartsPerFrame /\ all # <<>>
    BY <1>8 DEF AppendSample
  <2>2. frame \in Part
    <3>1. all[1] \in Part
      BY <2>1
    <3> QED BY <3>1 DEF Part
  <2>3. building' \in Seq(Part) /\ Len(building') < PartsPerFrame
    <3>1. building' = IF Len(all) = PartsPerFrame THEN <<>> ELSE all
      BY <1>8 DEF AppendSample
    <3> HIDE DEF all
    <3> QED BY <2>1, <3>1
  <2>4. capture' \in Seq(Part) /\ Len(capture') <= CaptureQueue
    <3>1. \/ capture' = capture
          \/ Len(capture) < CaptureQueue /\ capture' = Append(capture, frame)
      BY <1>8 DEF AppendSample
    <3>2. \A f \in Part : Len(capture) < CaptureQueue =>
             Append(capture, f) \in Seq(Part) /\ Len(Append(capture, f)) <= CaptureQueue
      OBVIOUS
    <3> HIDE DEF frame
    <3> QED BY <2>2, <3>1, <3>2
  <2>5. sample' = <<>> /\ UNCHANGED <<control, sending, toGateway, toDevice>>
    BY <1>8 DEF AppendSample
  <2> QED BY <2>3, <2>4, <2>5
<1>9. CASE SendControl
  <2>1. /\ control # <<>> /\ control' = Tail(control)
        /\ toGateway' = toGateway \/ toGateway' = Append(toGateway, Head(control))
        /\ UNCHANGED <<sample, building, capture, sending, toDevice>>
    BY <1>9, Zenon DEF SendControl
  <2>2. Head(control) \in Message /\ Tail(control) \in Seq(Message) /\ Len(Tail(control)) <= ControlQueue
    BY <2>1
  <2>3. toGateway' \in Seq(Message)
    <3>1. \A m \in Message : Append(toGateway, m) \in Seq(Message)
      OBVIOUS
    <3> QED BY <2>1, <2>2, <3>1
  <2> QED BY <2>1, <2>2, <2>3
<1>10. CASE TakeFrame
  BY <1>10 DEF TakeFrame
<1>11. CASE SendFrame
  <2>1. sending # <<>> /\ sending' = <<>>
    BY <1>11 DEF SendFrame
  <2>2. sending[1] \in Message
    BY <2>1
  <2>3. toGateway' \in Seq(Message)
    <3>1. toGateway' = toGateway \/ toGateway' = Append(toGateway, sending[1])
      BY <1>11 DEF SendFrame
    <3>2. \A m \in Message : Append(toGateway, m) \in Seq(Message)
      OBVIOUS
    <3> QED BY <2>2, <3>1, <3>2
  <2>4. UNCHANGED <<sample, building, capture, control, toDevice>>
    BY <1>11 DEF SendFrame
  <2> QED BY <2>1, <2>3, <2>4
<1>12. CASE SendFails \/ HandleConnected \/ HandleDisconnected
  <2>1. /\ control' \in {control, <<>>} /\ capture' \in {capture, <<>>}
        /\ sending' \in {sending, <<>>}
    BY <1>12, Zenon DEF SendFails, HandleConnected, HandleDisconnected, ResetCapture
  <2>2. UNCHANGED <<sample, building, toGateway, toDevice>>
    BY <1>12, Zenon DEF SendFails, HandleConnected, HandleDisconnected
  <2>3. /\ control' \in Seq(Message) /\ Len(control') <= ControlQueue
        /\ capture' \in Seq(Part) /\ Len(capture') <= CaptureQueue
        /\ sending' \in Seq(Part) /\ Len(sending') <= 1
    BY <2>1, ResetType, Zenon
  <2> QED BY <2>2, <2>3
<1>13. CASE ReceiveAuthOk
  BY <1>13, QueueType DEF ReceiveAuthOk, Receive
<1>14. CASE ReceiveStarted \/ ReceiveEnded \/ \E on \in BOOLEAN : ReceiveKeyword(on)
  <2>1. toDevice # <<>> /\ toDevice' = Tail(toDevice) /\ capture' \in {capture, <<>>}
    BY <1>14, Zenon DEF ReceiveStarted, ReceiveEnded, ReceiveKeyword, Receive, ResetCapture
  <2>2. UNCHANGED <<sample, building, control, sending, toGateway>>
    BY <1>14, Zenon DEF ReceiveStarted, ReceiveEnded, ReceiveKeyword, Receive
  <2>3. capture' \in Seq(Part) /\ Len(capture') <= CaptureQueue /\ toDevice' \in Seq(Answers)
    BY <2>1, ResetType, ReadType, Zenon
  <2> QED BY <2>2, <2>3
<1>15. ASSUME NEW on \in BOOLEAN, ReceiveVolume(on) PROVE QueuesOK'
  BY <1>15, QueueType DEF ReceiveVolume, SetRuntimeVolume, Receive
<1>16. CASE GatewayStep
  <2>1. UNCHANGED <<sample, building, capture, control, sending>>
    BY <1>16, Zenon DEF GatewayStep, GatewayReads, GatewayAuth, GatewayStart, GatewayStop,
       GatewayAudio, GatewayReady, GatewayReport, Take, GatewayOpened, GatewayFails,
       GatewayCloses, GatewayEnds, GatewayWaits, GatewaySwitches, GatewaySetsVolume, Acts
  <2>2. toGateway' \in Seq(Message)
    <3>1. UNCHANGED toGateway \/ (toGateway # <<>> /\ toGateway' = Tail(toGateway))
      BY <1>16, Zenon DEF GatewayStep, GatewayReads, GatewayAuth, GatewayStart, GatewayStop,
         GatewayAudio, GatewayReady, GatewayReport, Take, GatewayOpened, GatewayFails,
         GatewayCloses, GatewayEnds, GatewayWaits, GatewaySwitches, GatewaySetsVolume, Acts
    <3> QED BY <3>1, ReadType, Zenon
  <2>3. toDevice' \in Seq(Answers)
    <3>1. \/ UNCHANGED toDevice \/ Say(<<"auth.ok">>) \/ Say(<<"keyword.wake">>)
          \/ Say(<<"keyword.wake", "session.ended">>) \/ Say(<<"session.started", "keyword.wake">>)
          \/ Say(<<"keyword.ready">>) \/ Say(<<"volume.up">>) \/ Say(<<"volume.off">>)
      <4>1. CASE GatewayReads
        BY <4>1, Zenon DEF GatewayReads, GatewayAuth, GatewayStart, GatewayStop, GatewayAudio,
           GatewayReady, GatewayReport
      <4>2. CASE GatewayStep /\ ~GatewayReads
        BY <4>2 DEF GatewayStep, GatewayOpened, GatewayFails, GatewayCloses, GatewayEnds,
           GatewayWaits, GatewaySwitches, GatewaySetsVolume
      <4> QED BY <1>16, <4>1, <4>2
    <3>2. /\ <<"auth.ok">> \in Seq(Answers) /\ <<"keyword.wake">> \in Seq(Answers)
          /\ <<"keyword.wake", "session.ended">> \in Seq(Answers)
          /\ <<"session.started", "keyword.wake">> \in Seq(Answers)
          /\ <<"keyword.ready">> \in Seq(Answers)
          /\ <<"volume.up">> \in Seq(Answers) /\ <<"volume.off">> \in Seq(Answers)
      BY DEF Answers
    <3> QED BY <3>1, <3>2, SayType
  <2> QED BY <2>1, <2>2, <2>3
<1>17. CASE LinkLost
  BY <1>17 DEF LinkLost
<1> QED
  BY <1>1, <1>2, <1>3, <1>4, <1>5, <1>6, <1>7, <1>8, <1>9, <1>10, <1>11, <1>12, <1>13, <1>14,
     <1>15, <1>16, <1>17, Zenon DEF Next, User, UserStep, Tasks, LoopStep, MicStep, SenderStep,
     WebSocketStep

\* The recording of the chime, in frames and in samples.
LEMMA ChimeSizes == ChimeFrames = 48 /\ ChimeSamples = 22728 /\ ChimeAudible = 17292
  BY DEF ChimeFrames, ChimeSamples, ChimeAudible, ChimeTail

\* What the chime may be in the middle of.
LEMMA ChimeStates ==
  /\ NoChime \in ChimeState /\ [NoChime EXCEPT !.at = "asked"] \in ChimeState
  /\ \A c \in ChimeState :
       /\ [c EXCEPT !.at = "playing"] \in ChimeState /\ [c EXCEPT !.at = "draining"] \in ChimeState
       /\ \A n \in 0 .. ChimeFrames : [c EXCEPT !.frames = n] \in ChimeState
       /\ \A n \in 0 .. ChimeSamples : [c EXCEPT !.played = n] \in ChimeState
<1>1. NoChime \in ChimeState /\ [NoChime EXCEPT !.at = "asked"] \in ChimeState
  <2>1. 0 \in 0 .. ChimeFrames /\ 0 \in 0 .. ChimeSamples
    BY ChimeSizes
  <2> QED BY <2>1, SMTT(30) DEF ChimeState, NoChime
<1>2. ASSUME NEW c \in ChimeState
      PROVE  [c EXCEPT !.at = "playing"] \in ChimeState /\ [c EXCEPT !.at = "draining"] \in ChimeState
  BY DEF ChimeState
<1>3. ASSUME NEW c \in ChimeState, NEW n \in 0 .. ChimeFrames
      PROVE  [c EXCEPT !.frames = n] \in ChimeState
  BY DEF ChimeState
<1>4. ASSUME NEW c \in ChimeState, NEW n \in 0 .. ChimeSamples
      PROVE  [c EXCEPT !.played = n] \in ChimeState
  BY DEF ChimeState
<1> QED BY <1>1, <1>2, <1>3, <1>4

\* A step of the chime keeps its type.
LEMMA ChimeType == ASSUME ChimeOK, ChimeRuns PROVE ChimeOK'
<1> USE DEF ChimeOK, ChimeStep
<1>1. CASE ChimeSkipped \/ ChimeTimesOut \/ ChimeDone
  BY <1>1, ChimeStates DEF ChimeSkipped, ChimeTimesOut, ChimeDone
<1>2. CASE ChimeStarts \/ ChimeHandedOver
  BY <1>2, ChimeStates DEF ChimeStarts, ChimeHandedOver
<1>3. CASE ChimePlays
  <2> DEFINE next == chime.frames + ChimeStride
             count == IF next < ChimeFrames THEN next ELSE ChimeFrames
  <2>1. chime.frames \in 0 .. ChimeFrames
    BY DEF ChimeState
  <2>2. count \in 0 .. ChimeFrames
    BY <2>1, ChimeSizes, DeviceAssumption
  <2>3. chime' = [chime EXCEPT !.frames = count]
    BY <1>3 DEF ChimePlays
  <2> HIDE DEF count
  <2> QED BY <2>2, <2>3, ChimeStates
<1>4. CASE Dac
  <2> DEFINE given == IF 480 * chime.frames < ChimeSamples THEN 480 * chime.frames
                      ELSE ChimeSamples
  <2>1. chime.frames \in 0 .. ChimeFrames
    BY DEF ChimeState
  <2>2. given \in 0 .. ChimeSamples
    <3>1. \A n, k \in Nat : (IF n < k THEN n ELSE k) \in 0 .. k
      OBVIOUS
    <3>2. chime.frames \in Nat /\ ChimeSamples \in Nat
      BY <2>1, ChimeSizes
    <3>3. 480 * chime.frames \in Nat
      BY <3>2
    <3> QED BY <3>1, <3>2, <3>3, ZenonT(30)
  <2>3. chime' = [chime EXCEPT !.played = given]
    BY <1>4 DEF Dac
  <2> HIDE DEF given
  <2> QED BY <2>2, <2>3, ChimeStates
<1> QED BY <1>1, <1>2, <1>3, <1>4 DEF ChimeRuns

\* Every count stays within its bound, and what is not a count keeps its kind.
LEMMA CountsType == ASSUME QueuesOK, CountsOK, Next PROVE CountsOK'
<1>1. CASE User
  <2>1. crossed' \subseteq {"press", "switch"}
    BY <1>1 DEF User, CountsOK
  <2>2. UNCHANGED <<link, parts, pass, gateway, told, known, drops>>
    BY <1>1, Zenon DEF User, UserStep, Wake, ButtonStart, StopSession, ReadyDetected, Mute, Unmute
  <2>3. /\ UNCHANGED session \/ (session' = session + 1 /\ session < MaxSessions)
        /\ UNCHANGED events \/ (events' = events + 1 /\ events < MaxEvents)
    BY <1>1, Zenon DEF User, UserStep, Wake, ButtonStart, StopSession, ReadyDetected, Mute,
       Unmute, StartSession
  <2>4. session' \in 0 .. MaxSessions /\ events' \in 0 .. MaxEvents
    BY <2>3, DeviceAssumption DEF CountsOK
  <2>5. chime' = chime \/ chime' = NoChime \/ chime' = [NoChime EXCEPT !.at = "asked"]
    BY <1>1, Zenon DEF User, UserStep, Wake, ButtonStart, StopSession, ReadyDetected, Mute,
       Unmute, FlushPlayback
  <2>6. ChimeOK'
    BY <2>5, ChimeStates DEF ChimeOK, CountsOK
  <2> QED BY <2>1, <2>2, <2>4, <2>6, Zenon DEF CountsOK, ChimeOK
<1>2. CASE LoopStep /\ Elsewhere
  <2>1. UNCHANGED <<link, session, events, parts, pass>>
    BY <1>2, Zenon DEF LoopStep, SendAuth, SendStart, StartSent, ChimeRuns, ChimeSkipped,
       ChimeStarts, ChimePlays, ChimeHandedOver, Dac, ChimeDone, ChimeTimesOut, ChimeStep
  <2>2. UNCHANGED chime \/ ChimeRuns
    BY <1>2, Zenon DEF LoopStep, SendAuth, SendStart, StartSent
  <2>3. ChimeOK'
    BY <2>2, ChimeType, Zenon DEF CountsOK, ChimeOK
  <2> QED BY <1>2, <2>1, <2>3, Zenon DEF CountsOK, ChimeOK
<1>3. CASE (MicStep \/ SenderStep) /\ Elsewhere
  <2>1. UNCHANGED <<link, chime, session, events>>
    BY <1>3, Zenon DEF MicStep, MicCallback, AppendSample, SenderStep, SendControl, TakeFrame,
       NothingCaptured, SendFrame, SendFails
  <2>2. pass' \in {"control", "capture"}
    BY <1>3, Zenon DEF MicStep, MicCallback, AppendSample, SenderStep, SendControl, TakeFrame,
       NothingCaptured, SendFrame, SendFails, CountsOK
  <2>3. parts' \in 0 .. MaxParts
    <3>1. CASE MicCallback
      <4>1. parts' = parts \/ (parts < MaxParts /\ parts' = parts + 1)
        BY <3>1 DEF MicCallback, CountsOK
      <4> QED BY <4>1, DeviceAssumption DEF CountsOK
    <3>2. CASE ~MicCallback
      <4>1. UNCHANGED parts
        BY <1>3, <3>2, Zenon DEF MicStep, AppendSample, SenderStep, SendControl, TakeFrame,
           NothingCaptured, SendFrame, SendFails
      <4> QED BY <4>1 DEF CountsOK
    <3> QED BY <3>1, <3>2
  <2> QED BY <1>3, <2>1, <2>2, <2>3, Zenon DEF CountsOK, ChimeOK
<1>4. CASE WebSocketStep /\ Elsewhere
  <2>1. UNCHANGED <<session, events, parts, pass>>
    BY <1>4, Zenon DEF WebSocketStep, HandleConnected, HandleDisconnected, ReceiveAuthOk,
       ReceiveStarted, ReceiveEnded, ReceiveKeyword, ReceiveVolume, Receive
  <2>2. link' \in {link, "up", "down"} /\ (chime' = chime \/ chime' = NoChime)
    BY <1>4, Zenon DEF WebSocketStep, HandleConnected, HandleDisconnected, ReceiveAuthOk,
       ReceiveStarted, ReceiveEnded, ReceiveKeyword, ReceiveVolume, Receive, FlushPlayback
  <2>3. link' \in {"down", "opening", "up", "closing"}
    BY <2>2, Zenon DEF CountsOK, ChimeOK
  <2>4. ChimeOK'
    BY <2>2, ChimeStates DEF ChimeOK, CountsOK
  <2> QED BY <1>4, <2>1, <2>3, <2>4, Zenon DEF CountsOK, ChimeOK
<1>5. CASE GatewayReads
  <2>1. UNCHANGED <<link, pass, chime, session, events, parts, drops, crossed>>
    BY <1>5, Zenon DEF GatewayReads, GatewayAuth, GatewayStart, GatewayStop, GatewayAudio,
       GatewayReady, GatewayReport, Take
  <2>2. told' = told \/ told' = 0 \/ (toGateway # <<>> /\ told' = Head(toGateway).of)
    BY <1>5, Zenon DEF GatewayReads, GatewayAuth, GatewayStart, GatewayStop, GatewayAudio,
       GatewayReady, GatewayReport, Take
  <2>3. told' \in 0 .. MaxSessions
    <3>1. toGateway # <<>> => Head(toGateway) \in Message
      BY DEF QueuesOK
    <3>2. toGateway # <<>> => Head(toGateway).of \in 0 .. MaxSessions
      BY <3>1 DEF Message
    <3> QED BY <2>2, <3>2, DeviceAssumption DEF CountsOK
  <2>4. known' \in {"unknown", "volume.up", "volume.off"}
    BY <1>5, Zenon DEF GatewayReads, GatewayAuth, GatewayStart, GatewayStop, GatewayAudio,
       GatewayReady, GatewayReport, CountsOK
  <2>5. gateway' \in {gateway, "opening", "orphan", "closing", "on"}
    BY <1>5, Zenon DEF GatewayReads, GatewayAuth, GatewayStart, GatewayStop, GatewayAudio,
       GatewayReady, GatewayReport
  <2>6. gateway' \in {"off", "opening", "orphan", "on", "waiting", "switching", "closing"}
    BY <2>5, Zenon DEF CountsOK, ChimeOK
  <2> QED BY <2>1, <2>3, <2>4, <2>6, Zenon DEF CountsOK, ChimeOK
<1>6. CASE GatewayStep /\ ~GatewayReads
  <2>1. UNCHANGED <<link, pass, chime, session, parts, drops, known>>
    BY <1>6, Zenon DEF GatewayStep, GatewayOpened, GatewayFails, GatewayCloses, GatewayEnds,
       GatewayWaits, GatewaySwitches, GatewaySetsVolume, Acts
  <2>2. told' = told \/ told' = 0
    BY <1>6, Zenon DEF GatewayStep, GatewayOpened, GatewayFails, GatewayCloses, GatewayEnds,
       GatewayWaits, GatewaySwitches, GatewaySetsVolume
  <2>3. UNCHANGED events \/ (events' = events + 1 /\ events < MaxEvents)
    BY <1>6, Zenon DEF GatewayStep, GatewayOpened, GatewayFails, GatewayCloses, GatewayEnds,
       GatewayWaits, GatewaySwitches, GatewaySetsVolume
  <2>4. told' \in 0 .. MaxSessions /\ events' \in 0 .. MaxEvents
    BY <2>2, <2>3, DeviceAssumption DEF CountsOK
  <2>5. UNCHANGED crossed \/ crossed' = crossed \cup {"switch"} \/ crossed' = crossed \cup {}
    BY <1>6, Zenon DEF GatewayStep, GatewayOpened, GatewayFails, GatewayCloses, GatewayEnds,
       GatewayWaits, GatewaySwitches, GatewaySetsVolume
  <2>6. crossed' \subseteq {"press", "switch"}
    BY <2>5, Zenon DEF CountsOK, ChimeOK
  <2>7. gateway' \in {gateway, "off", "on", "closing", "waiting", "switching"}
    BY <1>6, Zenon DEF GatewayStep, GatewayOpened, GatewayFails, GatewayCloses, GatewayEnds,
       GatewayWaits, GatewaySwitches, GatewaySetsVolume
  <2>8. gateway' \in {"off", "opening", "orphan", "on", "waiting", "switching", "closing"}
    BY <2>7, Zenon DEF CountsOK, ChimeOK
  <2> QED BY <2>1, <2>4, <2>6, <2>8, Zenon DEF CountsOK, ChimeOK
<1>7. CASE LinkLost
  <2>1. /\ UNCHANGED <<pass, chime, session, events, parts, known, crossed>>
        /\ told' = 0 /\ gateway' = "off" /\ (link' = "down" \/ link' = "closing")
        /\ drops' = drops + 1 /\ drops < MaxDrops
    BY <1>7, Zenon DEF LinkLost
  <2>2. told' \in 0 .. MaxSessions /\ drops' \in 0 .. MaxDrops
    BY <2>1, DeviceAssumption, SystemAssumption DEF CountsOK
  <2> QED BY <2>1, <2>2, Zenon DEF CountsOK, ChimeOK
<1>8. CASE LinkOpens
  BY <1>8, Zenon DEF LinkOpens, CountsOK, ChimeOK
<1> QED
  BY <1>1, <1>2, <1>3, <1>4, <1>5, <1>6, <1>7, <1>8, Zenon DEF Next, Tasks, Elsewhere

\* What is remembered of lost messages and of hasty sessions is of messages and sessions.
LEMMA HistoryType == ASSUME SessionTypeOK, Next PROVE HistoryOK'
<1> DEFINE Commands == {"auth", "session.start", "session.stop", "ready.detected", "state",
                        "volume.up", "volume.off"}
<1>1. /\ lost \subseteq Kinds /\ hasty \subseteq 1 .. MaxSessions
      /\ session \in 0 .. MaxSessions /\ control \in Seq(Message)
  BY TypeParts DEF HistoryOK, CountsOK, QueuesOK
<1>2. ASSUME NEW kind \in Commands, SendJson(Msg(kind)) PROVE lost' \subseteq Kinds
  <2>1. Msg(kind).kind \in Kinds
    BY DEF Msg, Kinds, Reports
  <2> HIDE DEF Msg
  <2> QED BY <1>1, <1>2, <2>1 DEF SendJson
<1>3. CASE Wake \/ ButtonStart
  <2>1. /\ hasty' = hasty \cup (IF sample # <<>> \/ building # <<>> THEN {session + 1} ELSE {})
        /\ session < MaxSessions /\ UNCHANGED lost
    BY <1>3, Zenon DEF Wake, ButtonStart, StartSession
  <2>2. session + 1 \in 1 .. MaxSessions
    BY <1>1, <2>1, DeviceAssumption
  <2> QED BY <1>1, <2>1, <2>2 DEF HistoryOK
<1>4. CASE ~(Wake \/ ButtonStart)
  <2>1. UNCHANGED hasty
    BY <1>4, Zenon DEF Next, User, UserStep, StopSession, ReadyDetected, Mute, Unmute, Tasks,
       LoopStep, SendAuth, SendStart, StartSent, ChimeRuns, ChimeSkipped, ChimeStarts, ChimePlays,
       ChimeHandedOver, Dac, ChimeDone, ChimeTimesOut, ChimeStep, MicStep, MicCallback,
       AppendSample, SenderStep, SendControl, TakeFrame, NothingCaptured, SendFrame, SendFails,
       WebSocketStep, HandleConnected, HandleDisconnected, ReceiveAuthOk, ReceiveStarted,
       ReceiveEnded, ReceiveKeyword, ReceiveVolume, Receive, GatewayStep, GatewayReads,
       GatewayAuth, GatewayStart, GatewayStop, GatewayAudio, GatewayReady, GatewayReport, Take,
       GatewayOpened, GatewayFails, GatewayCloses, GatewayEnds, GatewayWaits, GatewaySwitches,
       GatewaySetsVolume, Acts, LinkLost, LinkOpens
  <2>2. lost' \subseteq Kinds
    <3>1. CASE User
      BY <1>1, <1>2, <1>4, <3>1 DEF User, UserStep, StopSession, ReadyDetected, Mute, Unmute
    <3>2. CASE LoopStep
      <4>1. UNCHANGED lost \/ \E kind \in Commands : SendJson(Msg(kind))
        BY <3>2, Zenon DEF LoopStep, SendAuth, SendStart, StartSent, ChimeRuns, ChimeSkipped,
           ChimeStarts, ChimePlays, ChimeHandedOver, Dac, ChimeDone, ChimeTimesOut, ChimeStep
      <4> QED BY <1>1, <1>2, <4>1
    <3>3. CASE SendControl
      <4>1. control # <<>> /\ lost' \subseteq lost \cup {Head(control).kind}
        BY <3>3 DEF SendControl, Missed
      <4>2. Head(control) \in Message
        BY <1>1, <4>1
      <4>3. Head(control).kind \in Kinds
        BY <4>2 DEF Message
      <4> QED BY <1>1, <4>1, <4>3
    <3>4. CASE (MicStep \/ SenderStep) /\ ~SendControl
      BY <1>1, <3>4, Zenon DEF MicStep, MicCallback, AppendSample, SenderStep, TakeFrame,
         NothingCaptured, SendFrame, SendFails
    <3>5. CASE WebSocketStep
      <4>1. \/ UNCHANGED lost \/ lost' = lost \cap {"session.stop"}
            \/ \E kind \in Commands : SendJson(Msg(kind))
        BY <3>5, Zenon DEF WebSocketStep, HandleConnected, HandleDisconnected, ReceiveAuthOk,
           ReceiveStarted, ReceiveEnded, ReceiveKeyword, ReceiveVolume, SetRuntimeVolume, Report
      <4> QED BY <1>1, <1>2, <4>1
    <3>6. CASE GatewayStep \/ LinkLost \/ LinkOpens
      <4>1. UNCHANGED lost
        BY <3>6, Zenon DEF GatewayStep, GatewayReads, GatewayAuth, GatewayStart, GatewayStop,
           GatewayAudio, GatewayReady, GatewayReport, Take, GatewayOpened, GatewayFails,
           GatewayCloses, GatewayEnds, GatewayWaits, GatewaySwitches, GatewaySetsVolume, Acts,
           LinkLost, LinkOpens
      <4> QED BY <1>1, <4>1
    <3> QED BY <3>1, <3>2, <3>3, <3>4, <3>5, <3>6 DEF Next, Tasks
  <2> QED BY <1>1, <2>1, <2>2 DEF HistoryOK
<1> QED BY <1>3, <1>4

\* Every variable of the device and of the gateway keeps its type: no queue of the
\* device is ever longer than it has slots, whatever meets whatever.
THEOREM SessionTypeCorrect == Spec => []SessionTypeOK
<1>1. Init => SessionTypeOK
  <2> SUFFICES ASSUME Init PROVE SessionTypeOK
    OBVIOUS
  <2>1. FlagsOK
    BY Zenon DEF Init, DeviceInit, FlagsOK
  <2>2. QueuesOK
    BY DeviceAssumption DEF Init, DeviceInit, QueuesOK
  <2>3. CountsOK
    BY DeviceAssumption, SystemAssumption, ChimeStates DEF Init, DeviceInit, CountsOK, ChimeOK
  <2>4. HistoryOK
    BY DEF Init, DeviceInit, HistoryOK
  <2> QED BY <2>1, <2>2, <2>3, <2>4, TypeParts
<1>2. SessionTypeOK /\ [Next]_vars => SessionTypeOK'
  <2> SUFFICES ASSUME SessionTypeOK, [Next]_vars PROVE SessionTypeOK'
    OBVIOUS
  <2>1. FlagsOK /\ QueuesOK /\ CountsOK /\ HistoryOK
    BY TypeParts
  <2>2. CASE Next
    <3>1. FlagsOK' /\ QueuesOK' /\ CountsOK' /\ HistoryOK'
      BY <2>1, <2>2, FlagsType, QueuesType, CountsType, HistoryType
    <3> QED BY <3>1, Zenon DEF SessionTypeOK, DeviceTypeOK, CountsOK, HistoryOK, ChimeOK, ChimeState
  <2>3. CASE UNCHANGED vars
    <3>1. UNCHANGED <<deviceVars, gatewayVars, drops, crossed>>
      BY <2>3 DEF vars
    <3>2. FlagsOK'
      BY <2>1, <3>1, Zenon DEF FlagsOK, deviceVars
    <3>3. QueuesOK'
      BY <2>1, <3>1, Zenon DEF QueuesOK, deviceVars
    <3>4. CountsOK'
      BY <2>1, <3>1, Zenon DEF CountsOK, ChimeOK, deviceVars
    <3>5. HistoryOK'
      BY <2>1, <3>1, Zenon DEF HistoryOK, deviceVars
    <3> QED BY <3>2, <3>3, <3>4, <3>5, Zenon DEF SessionTypeOK, DeviceTypeOK, CountsOK, HistoryOK,
          ChimeOK, ChimeState
  <2> QED BY <2>2, <2>3
<1> QED BY <1>1, <1>2, PTL DEF Spec

-----------------------------------------------------------------------------
\* The last message of a queue, and what is left when the first is taken.
LEMMA AppendIs ==
  ASSUME NEW S, NEW q \in Seq(S), NEW m \in S
  PROVE  /\ Append(q, m) \in Seq(S) /\ DOMAIN q = 1 .. Len(q) /\ Len(q) \in Nat
         /\ DOMAIN Append(q, m) = 1 .. Len(q) + 1
         /\ \A i \in DOMAIN q : Append(q, m)[i] = q[i]
         /\ Append(q, m)[Len(q) + 1] = m
  OBVIOUS

LEMMA TailIs ==
  ASSUME NEW S, NEW q \in Seq(S), q # <<>>
  PROVE  /\ Tail(q) \in Seq(S) /\ DOMAIN q = 1 .. Len(q) /\ Len(q) \in Nat \ {0}
         /\ DOMAIN Tail(q) = 1 .. Len(q) - 1
         /\ \A i \in DOMAIN Tail(q) : Tail(q)[i] = q[i + 1]
         /\ Head(q) = q[1] /\ 1 \in DOMAIN q
  OBVIOUS

\* What the microphone task and the queue hold of an older session: only in a session
\* begun in haste, and only where at most one frame comes of it.
OfSession(q) == \A i \in DOMAIN q : q[i].of = session
Excused(q) == \A i \in DOMAIN q, n \in 1 .. MaxSessions : q[i].of < n /\ n <= session => n \in hasty
CapturedInv ==
  /\ Excused(sample) /\ Excused(building) /\ Excused(capture)
  /\ capture # <<>> => OfSession(sample) /\ OfSession(building)
  /\ \A i \in DOMAIN capture : i > 1 => capture[i].of = session

\* What is behind the sender's hands is of session n or newer.
AtLeast(n, q) == \A i \in DOMAIN q : q[i].kind = "audio" => q[i].of >= n
Rest(n) == AtLeast(n, capture) /\ AtLeast(n, building) /\ AtLeast(n, sample)

\* Commands are of the sessions there were, and no frame is among them.
StartsUpTo(s, q) == \A i \in DOMAIN q : q[i].kind = "session.start" => q[i].of <= s
NoFrame(q) == \A i \in DOMAIN q : q[i].kind # "audio"
CommandsInv ==
  told <= session /\ StartsUpTo(session, control) /\ StartsUpTo(session, toGateway)
  /\ NoFrame(control)

\* The gateway serves session n, or is asked to ahead of the k-th message.
Due(k, n) ==
  \/ n = told
  \/ \E i \in DOMAIN toGateway :
       i < k /\ toGateway[i].kind = "session.start" /\ toGateway[i].of = n

\* A frame sent, or about to be, that is older than a session due ahead of it is the one
\* a half-filled frame became, and all that is behind it is newer: the sender writes what
\* it holds before it takes the next command.
FramesInv ==
  /\ sending # <<>> =>
       \A n \in 1 .. MaxSessions :
         Due(Len(toGateway) + 1, n) /\ sending[1].of < n => n \in hasty /\ Rest(n)
  /\ \A f \in DOMAIN toGateway, n \in 1 .. MaxSessions :
       toGateway[f].kind = "audio" /\ Due(f, n) /\ toGateway[f].of < n =>
         /\ n \in hasty /\ Rest(n) /\ AtLeast(n, sending)
         /\ \A g \in DOMAIN toGateway :
              g > f /\ toGateway[g].kind = "audio" => toGateway[g].of >= n

\* What is in the queues, by itself.
LEMMA QueueFacts ==
  ASSUME SessionTypeOK
  PROVE  /\ control \in Seq(Message) /\ toGateway \in Seq(Message) /\ capture \in Seq(Part)
         /\ building \in Seq(Part) /\ sample \in Seq(Part)
         /\ sending \in Seq(Part) /\ Len(sending) <= 1
         /\ session \in 0 .. MaxSessions /\ told \in 0 .. MaxSessions /\ MaxSessions \in Nat
         /\ Part \subseteq Message /\ hasty \subseteq 1 .. MaxSessions
         /\ \A m \in Message : m.of \in 0 .. MaxSessions
         /\ \A m \in Part : m.kind = "audio" /\ m.of \in 0 .. MaxSessions
<1>1. /\ QueuesOK /\ CountsOK /\ HistoryOK
  BY TypeParts
<1>2. /\ \A m \in Message : m.of \in 0 .. MaxSessions
      /\ \A m \in Part : m.kind = "audio" /\ m.of \in 0 .. MaxSessions
  BY DEF Message, Part
<1> QED BY <1>1, <1>2, MessageType, DeviceAssumption DEF QueuesOK, CountsOK, HistoryOK

\* What was sent keeps to the sessions the gateway serves, but for that one frame.
LEMMA SpeechIsEnough == ASSUME SessionTypeOK, FramesInv PROVE OldSpeechIsDropped
<1> SUFFICES ASSUME NEW f \in DOMAIN toGateway, NEW n \in 0 .. MaxSessions, Serves(f, n),
                    Older(<<toGateway[f]>>, n)
             PROVE  /\ n \in hasty
                    /\ \A q \in {SubSeq(toGateway, f + 1, Len(toGateway)), sending, capture,
                                 building, sample} : ~Older(q, n)
  BY DEF OldSpeechIsDropped
<1>1. /\ toGateway \in Seq(Message) /\ capture \in Seq(Part) /\ building \in Seq(Part)
      /\ sample \in Seq(Part) /\ sending \in Seq(Part) /\ MaxSessions \in Nat
      /\ \A m \in Message : m.of \in 0 .. MaxSessions
      /\ \A m \in Part : m.of \in 0 .. MaxSessions
  BY QueueFacts
<1>2. toGateway[f].kind = "audio" /\ toGateway[f].of < n /\ toGateway[f] \in Message
  BY <1>1 DEF Older
<1>3. n \in 1 .. MaxSessions
  BY <1>1, <1>2
<1>4. Due(f, n)
  <2>1. f \in 1 .. Len(toGateway) /\ DOMAIN toGateway = 1 .. Len(toGateway) /\ Len(toGateway) \in Nat
    BY <1>1
  <2> QED BY <2>1 DEF Serves, Due
<1>5. /\ n \in hasty /\ Rest(n) /\ AtLeast(n, sending)
      /\ \A g \in DOMAIN toGateway :
           g > f /\ toGateway[g].kind = "audio" => toGateway[g].of >= n
  BY <1>2, <1>3, <1>4 DEF FramesInv
<1>6. \A q \in {sending, capture, building, sample} : ~Older(q, n)
  BY <1>1, <1>3, <1>5 DEF Rest, AtLeast, Older
<1>7. ~Older(SubSeq(toGateway, f + 1, Len(toGateway)), n)
  <2> DEFINE r == SubSeq(toGateway, f + 1, Len(toGateway))
  <2>1. \A i \in DOMAIN r : i + f \in DOMAIN toGateway /\ i + f > f /\ r[i] = toGateway[i + f]
    BY <1>1, SMTT(30)
  <2>2. \A g \in DOMAIN toGateway : toGateway[g].of \in 0 .. MaxSessions
    BY <1>1
  <2> HIDE DEF r
  <2>3. ~Older(r, n)
    BY <1>1, <1>3, <1>5, <2>1, <2>2 DEF Older
  <2> QED BY <2>3 DEF r
<1> QED BY <1>5, <1>6, <1>7

\* What a step does to what was captured: it stays, or the queue is emptied; a session
\* starts; the microphone task or the sender does its part.
Kept ==
  /\ capture' = capture \/ capture' = <<>>
  /\ UNCHANGED <<session, hasty, sample, building>>
Begun ==
  /\ session < MaxSessions /\ session' = session + 1 /\ capture' = <<>>
  /\ hasty' = hasty \cup (IF sample # <<>> \/ building # <<>> THEN {session + 1} ELSE {})
  /\ UNCHANGED <<sample, building>>
LEMMA CaptureFlow ==
  ASSUME Next PROVE Kept \/ Begun \/ MicCallback \/ AppendSample \/ TakeFrame
<1>1. CASE UserStep
  BY <1>1, Zenon DEF UserStep, Wake, ButtonStart, StartSession, StopSession, ReadyDetected, Mute,
     Unmute, ResetCapture, Kept, Begun
<1>2. CASE LoopStep
  BY <1>2, Zenon DEF LoopStep, SendAuth, SendStart, StartSent, ChimeRuns, ChimeSkipped,
     ChimeStarts, ChimePlays, ChimeHandedOver, Dac, ChimeDone, ChimeTimesOut, ChimeStep, Kept
<1>3. CASE SenderStep
  BY <1>3, Zenon DEF SenderStep, SendControl, NothingCaptured, SendFrame, SendFails, ResetCapture,
     Kept
<1>4. CASE WebSocketStep
  BY <1>4, Zenon DEF WebSocketStep, HandleConnected, HandleDisconnected, ReceiveAuthOk,
     ReceiveStarted, ReceiveEnded, ReceiveKeyword, ReceiveVolume, Receive, ResetCapture, Kept
<1>5. CASE GatewayReads
  BY <1>5, Zenon DEF GatewayReads, GatewayAuth, GatewayStart, GatewayStop, GatewayAudio,
     GatewayReady, GatewayReport, Take, Kept
<1>6. CASE GatewayStep /\ ~GatewayReads
  BY <1>6, Zenon DEF GatewayStep, GatewayOpened, GatewayFails, GatewayCloses, GatewayEnds,
     GatewayWaits, GatewaySwitches, GatewaySetsVolume, Acts, Kept
<1>7. CASE LinkLost \/ LinkOpens
  BY <1>7, Zenon DEF LinkLost, LinkOpens, Kept
<1> QED
  BY <1>1, <1>2, <1>3, <1>4, <1>5, <1>6, <1>7, Zenon DEF Next, User, Tasks, MicStep

\* What the microphone task appends: of its oldest part's session.
LEMMA Appended ==
  ASSUME SessionTypeOK, AppendSample
  PROVE  \E all \in Seq(Part) :
           /\ sample' = <<>> /\ (building' = <<>> \/ building' = all) /\ all # <<>>
           /\ UNCHANGED <<session, hasty>>
           /\ \A i \in DOMAIN all : \/ \E j \in DOMAIN building : all[i] = building[j]
                                    \/ \E j \in DOMAIN sample : all[i] = sample[j]
           /\ \/ UNCHANGED capture
              \/ \E frame \in Part : /\ capture' = Append(capture, frame) /\ building' = <<>>
                                     /\ frame.of = all[1].of
<1> DEFINE all == building \o sample
           frame == [all[1] EXCEPT !.echo = \E i \in DOMAIN all : all[i].echo]
<1>1. building \in Seq(Part) /\ sample \in Seq(Part) /\ sample # <<>>
  BY QueueFacts DEF AppendSample
<1>2. /\ all \in Seq(Part) /\ all # <<>>
      /\ \A i \in DOMAIN all : \/ \E j \in DOMAIN building : all[i] = building[j]
                               \/ \E j \in DOMAIN sample : all[i] = sample[j]
  <2>1. /\ all \in Seq(Part) /\ all # <<>> /\ DOMAIN all = 1 .. Len(building) + Len(sample)
        /\ DOMAIN building = 1 .. Len(building) /\ DOMAIN sample = 1 .. Len(sample)
        /\ Len(building) \in Nat /\ Len(sample) \in Nat
        /\ \A i \in 1 .. Len(building) : all[i] = building[i]
        /\ \A i \in Len(building) + 1 .. Len(building) + Len(sample) :
             all[i] = sample[i - Len(building)]
    BY <1>1
  <2>2. \A i \in DOMAIN all :
          \/ i \in DOMAIN building /\ all[i] = building[i]
          \/ i - Len(building) \in DOMAIN sample /\ all[i] = sample[i - Len(building)]
    <3> HIDE DEF all
    <3> QED BY <2>1
  <2> QED BY <2>1, <2>2, Zenon
<1>3. frame \in Part /\ frame.of = all[1].of
  <2> HIDE DEF all
  <2>1. all[1] \in Part
    BY <1>2
  <2> QED BY <2>1 DEF Part
<1>4. /\ sample' = <<>> /\ (building' = <<>> \/ building' = all) /\ UNCHANGED <<session, hasty>>
      /\ capture' = capture \/ (capture' = Append(capture, frame) /\ building' = <<>>)
  BY Zenon DEF AppendSample
<1> HIDE DEF all, frame
<1> QED BY <1>2, <1>3, <1>4

\* A session that starts finds at most what one frame is filled of.
LEMMA CapturedStep == ASSUME SessionTypeOK, CapturedInv, Next PROVE CapturedInv'
<1> USE QueueFacts DEF CapturedInv, OfSession, Excused
<1>1. CASE Kept
  BY <1>1 DEF Kept
<1>2. CASE Begun
  <2>1. /\ session' = session + 1 /\ capture' = <<>> /\ UNCHANGED <<sample, building>>
        /\ hasty \subseteq hasty'
        /\ sample # <<>> \/ building # <<>> => session + 1 \in hasty'
    BY <1>2 DEF Begun
  <2>2. /\ \A i \in DOMAIN sample : sample # <<>>
        /\ \A i \in DOMAIN building : building # <<>>
    OBVIOUS
  <2>3. \A n \in 1 .. MaxSessions : n <= session' => n <= session \/ n = session + 1
    BY <2>1
  <2>4. Excused(sample)' /\ Excused(building)'
    BY <2>1, <2>2, <2>3
  <2>5. \A i : i \notin DOMAIN capture'
    BY <2>1
  <2> QED BY <2>1, <2>4, <2>5
<1>3. CASE MicCallback
  <2>1. /\ UNCHANGED <<session, hasty, capture>> /\ (building' = building \/ building' = <<>>)
        /\ OfSession(sample)'
    BY <1>3 DEF MicCallback
  <2>2. Excused(sample)'
    BY <2>1
  <2> QED BY <2>1, <2>2
<1>4. CASE AppendSample
  <2>1. PICK all \in Seq(Part) :
           /\ sample' = <<>> /\ (building' = <<>> \/ building' = all) /\ all # <<>>
           /\ UNCHANGED <<session, hasty>>
           /\ \A i \in DOMAIN all : \/ \E j \in DOMAIN building : all[i] = building[j]
                                    \/ \E j \in DOMAIN sample : all[i] = sample[j]
           /\ \/ UNCHANGED capture
              \/ \E frame \in Part : /\ capture' = Append(capture, frame) /\ building' = <<>>
                                     /\ frame.of = all[1].of
    BY <1>4, Appended
  <2>2. Excused(all)
    BY <2>1
  <2>3. capture # <<>> => OfSession(all)
    BY <2>1
  <2>4. 1 \in DOMAIN all
    <3>1. \A q \in Seq(Part) : q # <<>> => 1 \in DOMAIN q
      OBVIOUS
    <3> QED BY <2>1, <3>1
  <2>5. CASE UNCHANGED capture
    BY <2>1, <2>2, <2>5, <2>3
  <2>6. ASSUME NEW frame \in Part, capture' = Append(capture, frame), building' = <<>>,
               frame.of = all[1].of
        PROVE  CapturedInv'
    <3>1. /\ DOMAIN capture = 1 .. Len(capture) /\ Len(capture) \in Nat
          /\ DOMAIN capture' = 1 .. Len(capture) + 1
          /\ \A i \in DOMAIN capture : capture'[i] = capture[i]
          /\ capture'[Len(capture) + 1] = frame
      BY <2>6, AppendIs
    <3>2. \A n \in 1 .. MaxSessions : frame.of < n /\ n <= session => n \in hasty
      BY <2>2, <2>6, <2>4
    <3>3. capture # <<>> => frame.of = session
      BY <2>6, <2>3, <2>4
    <3>4. \A i \in DOMAIN capture' : \/ i \in DOMAIN capture /\ capture'[i] = capture[i]
                                     \/ i = Len(capture) + 1 /\ capture'[i] = frame
      BY <3>1
    <3>5. Excused(capture)'
      <4>1. session' = session /\ hasty' = hasty
        BY <2>1
      <4> QED BY <3>2, <3>4, <4>1
    <3>6. \A i \in DOMAIN capture' : i > 1 => capture'[i].of = session
      <4>1. Len(capture) + 1 > 1 => capture # <<>>
        OBVIOUS
      <4> QED BY <3>3, <3>4, <4>1
    <3>7. Excused(sample)' /\ Excused(building)' /\ OfSession(sample)' /\ OfSession(building)'
      BY <2>1, <2>6
    <3> QED BY <2>1, <3>5, <3>6, <3>7
  <2> QED BY <2>1, <2>5, <2>6
<1>5. CASE TakeFrame
  <2>1. /\ capture # <<>> /\ capture' = Tail(capture)
        /\ UNCHANGED <<session, hasty, sample, building>>
    BY <1>5 DEF TakeFrame
  <2>2. \A i \in DOMAIN capture' : i + 1 \in DOMAIN capture /\ i + 1 > 1 /\ capture'[i] = capture[i + 1]
    BY <2>1, TailIs
  <2> QED BY <2>1, <2>2
<1> QED BY <1>1, <1>2, <1>3, <1>4, <1>5, CaptureFlow

\* What is as new as a session there was stays so, and a hasty session remains one.
LEMMA RestStep ==
  ASSUME SessionTypeOK, Next
  PROVE  /\ hasty \subseteq hasty' /\ session <= session'
         /\ \A n \in 1 .. MaxSessions : n <= session /\ Rest(n) => Rest(n)'
<1> USE QueueFacts DEF Rest, AtLeast
<1>1. CASE Kept
  BY <1>1 DEF Kept
<1>2. CASE Begun
  BY <1>2 DEF Begun
<1>3. CASE MicCallback
  BY <1>3 DEF MicCallback
<1>4. CASE AppendSample
  <2>1. PICK all \in Seq(Part) :
           /\ sample' = <<>> /\ (building' = <<>> \/ building' = all) /\ all # <<>>
           /\ UNCHANGED <<session, hasty>>
           /\ \A i \in DOMAIN all : \/ \E j \in DOMAIN building : all[i] = building[j]
                                    \/ \E j \in DOMAIN sample : all[i] = sample[j]
           /\ \/ UNCHANGED capture
              \/ \E frame \in Part : /\ capture' = Append(capture, frame) /\ building' = <<>>
                                     /\ frame.of = all[1].of
    BY <1>4, Appended
  <2>2. hasty \subseteq hasty' /\ session <= session'
    BY <2>1
  <2> SUFFICES ASSUME NEW n \in 1 .. MaxSessions, Rest(n) PROVE Rest(n)'
    BY <2>2, Zenon
  <2>3. AtLeast(n, all) /\ 1 \in DOMAIN all /\ all[1] \in Part
    <3>1. \A q \in Seq(Part) : q # <<>> => 1 \in DOMAIN q /\ q[1] \in Part
      OBVIOUS
    <3> QED BY <2>1, <3>1
  <2>4. CASE UNCHANGED capture
    BY <2>1, <2>3, <2>4
  <2>5. ASSUME NEW frame \in Part, capture' = Append(capture, frame), building' = <<>>,
               frame.of = all[1].of
        PROVE  Rest(n)'
    <3>1. /\ DOMAIN capture' = DOMAIN capture \cup {Len(capture) + 1}
          /\ \A i \in DOMAIN capture : capture'[i] = capture[i]
          /\ capture'[Len(capture) + 1] = frame
      BY <2>1, <2>5, AppendIs, SMTT(30)
    <3>2. frame.of >= n
      BY <2>3, <2>5
    <3> QED BY <2>1, <2>5, <3>1, <3>2
  <2> QED BY <2>1, <2>4, <2>5
<1>5. CASE TakeFrame
  <2>1. /\ capture # <<>> /\ capture' = Tail(capture)
        /\ UNCHANGED <<session, hasty, sample, building>>
    BY <1>5 DEF TakeFrame
  <2>2. \A i \in DOMAIN capture' : i + 1 \in DOMAIN capture /\ capture'[i] = capture[i + 1]
    BY <2>1, TailIs
  <2> QED BY <2>1, <2>2
<1> QED BY <1>1, <1>2, <1>3, <1>4, <1>5, CaptureFlow

\* What a step does to the socket: nothing, but that the gateway may drop its session and
\* the sender its frame; it is cut; the gateway reads it; or the sender does its part.
Unwritten ==
  /\ UNCHANGED toGateway /\ (told' = told \/ told' = 0)
  /\ sending' = sending \/ sending' = <<>>
Cut == toGateway' = <<>> /\ told' = 0 /\ UNCHANGED sending
Reading ==
  /\ toGateway # <<>> /\ toGateway' = Tail(toGateway) /\ UNCHANGED sending
  /\ \/ told' = told \/ told' = 0
     \/ Head(toGateway).kind = "session.start" /\ told' = Head(toGateway).of
LEMMA WireFlow ==
  ASSUME Next
  PROVE  Unwritten \/ Cut \/ Reading \/ ((SendControl \/ TakeFrame \/ SendFrame) /\ UNCHANGED told)
<1>1. CASE User
  BY <1>1, Zenon DEF User, UserStep, Wake, ButtonStart, StartSession, StopSession, ReadyDetected,
     Mute, Unmute, Unwritten
<1>2. CASE LoopStep /\ Elsewhere
  BY <1>2, Zenon DEF LoopStep, SendAuth, SendStart, StartSent, ChimeRuns, ChimeSkipped,
     ChimeStarts, ChimePlays, ChimeHandedOver, Dac, ChimeDone, ChimeTimesOut, ChimeStep, Unwritten
<1>3. CASE (MicStep \/ SenderStep) /\ Elsewhere
  BY <1>3, Zenon DEF MicStep, MicCallback, AppendSample, SenderStep, NothingCaptured, SendFails,
     Unwritten
<1>4. CASE WebSocketStep /\ Elsewhere
  BY <1>4, Zenon DEF WebSocketStep, HandleConnected, HandleDisconnected, ReceiveAuthOk,
     ReceiveStarted, ReceiveEnded, ReceiveKeyword, ReceiveVolume, Receive, Unwritten
<1>5. CASE GatewayReads
  BY <1>5, Zenon DEF GatewayReads, GatewayAuth, GatewayStart, GatewayStop, GatewayAudio,
     GatewayReady, GatewayReport, Take, Reading
<1>6. CASE GatewayStep /\ ~GatewayReads
  BY <1>6, Zenon DEF GatewayStep, GatewayOpened, GatewayFails, GatewayCloses, GatewayEnds,
     GatewayWaits, GatewaySwitches, GatewaySetsVolume, Acts, Unwritten
<1>7. CASE LinkLost \/ LinkOpens
  BY <1>7, Zenon DEF LinkLost, LinkOpens, Cut, Unwritten
<1> QED BY <1>1, <1>2, <1>3, <1>4, <1>5, <1>6, <1>7, Zenon DEF Next, Tasks

\* What it does to the queue of commands: nothing, or it is emptied; one joins it, or
\* leaves it.
LEMMA ControlFlow ==
  ASSUME Next
  PROVE  \/ control' = control \/ control' = <<>> \/ SendControl
         \/ \E kind \in {"auth", "session.start", "session.stop", "ready.detected", "state",
                         "volume.up", "volume.off"} :
              SendJson(Msg(kind)) /\ UNCHANGED session
<1>1. CASE UserStep
  BY <1>1, Zenon DEF UserStep, Wake, ButtonStart, StopSession, ReadyDetected, Mute, Unmute
<1>2. CASE LoopStep
  BY <1>2, Zenon DEF LoopStep, SendAuth, SendStart, StartSent, ChimeRuns, ChimeSkipped,
     ChimeStarts, ChimePlays, ChimeHandedOver, Dac, ChimeDone, ChimeTimesOut, ChimeStep
<1>3. CASE MicStep \/ SenderStep
  BY <1>3, Zenon DEF MicStep, MicCallback, AppendSample, SenderStep, TakeFrame, NothingCaptured,
     SendFrame, SendFails
<1>4. CASE WebSocketStep
  BY <1>4, Zenon DEF WebSocketStep, HandleConnected, HandleDisconnected, ReceiveAuthOk,
     ReceiveStarted, ReceiveEnded, ReceiveKeyword, ReceiveVolume, SetRuntimeVolume, Receive, Report
<1>5. CASE GatewayStep \/ LinkLost \/ LinkOpens
  BY <1>5, Zenon DEF GatewayStep, GatewayReads, GatewayAuth, GatewayStart, GatewayStop,
     GatewayAudio, GatewayReady, GatewayReport, Take, GatewayOpened, GatewayFails, GatewayCloses,
     GatewayEnds, GatewayWaits, GatewaySwitches, GatewaySetsVolume, Acts, LinkLost, LinkOpens
<1> QED BY <1>1, <1>2, <1>3, <1>4, <1>5, Zenon DEF Next, User, Tasks

\* A queue that grows by one message, or loses the first.
LEMMA StartsFlow ==
  ASSUME NEW q \in Seq(Message), NEW s \in Nat, NEW t \in Nat, s <= t, StartsUpTo(s, q)
  PROVE  /\ StartsUpTo(t, q) /\ StartsUpTo(t, <<>>)
         /\ q # <<>> => /\ StartsUpTo(t, Tail(q)) /\ Head(q) \in Message
                        /\ Head(q).kind = "session.start" => Head(q).of <= s
                        /\ NoFrame(q) => NoFrame(Tail(q)) /\ Head(q).kind # "audio"
         /\ \A m \in Message : /\ (m.kind = "session.start" => m.of <= t) => StartsUpTo(t, Append(q, m))
                               /\ NoFrame(q) /\ m.kind # "audio" => NoFrame(Append(q, m))
<1>0. \A i \in DOMAIN q : q[i] \in Message /\ q[i].of \in Nat
  <2>1. \A m \in Message : m.of \in Nat
    BY DeviceAssumption DEF Message
  <2> QED BY <2>1
<1>1. StartsUpTo(t, q) /\ StartsUpTo(t, <<>>)
  BY <1>0 DEF StartsUpTo
<1>2. ASSUME q # <<>>
      PROVE  /\ StartsUpTo(t, Tail(q)) /\ Head(q) \in Message
             /\ Head(q).kind = "session.start" => Head(q).of <= s
             /\ NoFrame(q) => NoFrame(Tail(q)) /\ Head(q).kind # "audio"
  <2> DEFINE r == Tail(q)
  <2>1. /\ \A i \in DOMAIN r : i + 1 \in DOMAIN q /\ r[i] = q[i + 1]
        /\ 1 \in DOMAIN q /\ Head(q) = q[1]
    BY <1>2, TailIs
  <2> HIDE DEF r
  <2>2. StartsUpTo(t, r) /\ (NoFrame(q) => NoFrame(r))
    BY <1>1, <2>1 DEF StartsUpTo, NoFrame
  <2>3. /\ Head(q) \in Message
        /\ Head(q).kind = "session.start" => Head(q).of <= s
        /\ NoFrame(q) => Head(q).kind # "audio"
    BY <1>0, <2>1 DEF StartsUpTo, NoFrame
  <2> QED BY <2>2, <2>3 DEF r
<1>3. ASSUME NEW m \in Message
      PROVE  /\ (m.kind = "session.start" => m.of <= t) => StartsUpTo(t, Append(q, m))
             /\ NoFrame(q) /\ m.kind # "audio" => NoFrame(Append(q, m))
  <2> DEFINE r == Append(q, m)
  <2>1. \A i \in DOMAIN r : r[i] = m \/ (i \in DOMAIN q /\ r[i] = q[i])
    BY AppendIs
  <2> HIDE DEF r
  <2> QED BY <1>1, <2>1 DEF StartsUpTo, NoFrame, r
<1> QED BY <1>1, <1>2, <1>3

\* Commands stay commands of the sessions there were.
LEMMA CommandsStep == ASSUME SessionTypeOK, CommandsInv, Next PROVE CommandsInv'
<1>1. /\ control \in Seq(Message) /\ toGateway \in Seq(Message) /\ sending \in Seq(Part)
      /\ session \in Nat /\ told \in Nat /\ told <= session
      /\ Part \subseteq Message /\ \A m \in Part : m.kind = "audio"
      /\ \A m \in Message : m.of \in Nat
  BY QueueFacts DEF CommandsInv
<1>2. session <= session' /\ session' \in Nat
  BY <1>1, RestStep, CountsType, TypeParts, DeviceAssumption DEF CountsOK
<1>3. /\ StartsUpTo(session, control) /\ StartsUpTo(session, toGateway) /\ NoFrame(control)
  BY DEF CommandsInv
<1>6. \A m \in Message :
        /\ (m.kind = "session.start" => m.of <= session') =>
             StartsUpTo(session', Append(toGateway, m)) /\ StartsUpTo(session', Append(control, m))
        /\ m.kind # "audio" => NoFrame(Append(control, m))
  BY <1>1, <1>2, <1>3, StartsFlow
<1>7. StartsUpTo(session', control) /\ StartsUpTo(session', toGateway)
  BY <1>1, <1>2, <1>3, StartsFlow
<1>4. StartsUpTo(session', control') /\ NoFrame(control')
  <2>1. CASE control' = control \/ control' = <<>>
    BY <1>1, <1>2, <1>3, <2>1, StartsFlow DEF NoFrame
  <2>2. CASE SendControl
    <3>1. control # <<>> /\ control' = Tail(control)
      BY <2>2, Zenon DEF SendControl
    <3> QED BY <1>1, <1>2, <1>3, <3>1, StartsFlow
  <2>3. ASSUME NEW kind \in {"auth", "session.start", "session.stop", "ready.detected", "state",
                             "volume.up", "volume.off"},
               SendJson(Msg(kind)), UNCHANGED session
        PROVE  StartsUpTo(session', control') /\ NoFrame(control')
    <3> DEFINE m == Msg(kind)
    <3>1. m \in Message /\ m.of = session /\ m.kind # "audio"
      BY TypeParts, MessageType DEF Msg
    <3>2. control' = control \/ control' = Append(control, m)
      BY <2>3 DEF SendJson
    <3> HIDE DEF m
    <3> QED BY <1>1, <1>2, <1>3, <1>6, <1>7, <3>1, <3>2
  <2> QED BY <2>1, <2>2, <2>3, ControlFlow
<1>5. StartsUpTo(session', toGateway') /\ told' <= session'
  <2>1. CASE Unwritten \/ Cut
    BY <1>1, <1>2, <1>3, <2>1, StartsFlow DEF Unwritten, Cut
  <2>2. CASE Reading
    BY <1>1, <1>2, <1>3, <2>2, StartsFlow DEF Reading
  <2>3. CASE TakeFrame /\ UNCHANGED told
    BY <1>1, <1>2, <1>3, <2>3, StartsFlow DEF TakeFrame
  <2>4. CASE SendControl /\ UNCHANGED told
    <3>1. /\ control # <<>>
          /\ toGateway' = toGateway \/ toGateway' = Append(toGateway, Head(control))
      BY <2>4, Zenon DEF SendControl
    <3>2. Head(control) \in Message /\ (Head(control).kind = "session.start" => Head(control).of <= session')
      BY <1>1, <1>2, <1>3, <3>1, StartsFlow
    <3> DEFINE m == Head(control)
    <3>3. m \in Message /\ (m.kind = "session.start" => m.of <= session')
      BY <3>2
    <3>4. toGateway' = toGateway \/ toGateway' = Append(toGateway, m)
      BY <3>1
    <3> HIDE DEF m
    <3>5. StartsUpTo(session', toGateway')
      BY <1>6, <1>7, <3>3, <3>4
    <3> QED BY <1>1, <1>2, <2>4, <3>5
  <2>5. CASE SendFrame /\ UNCHANGED told
    <3>1. /\ sending # <<>>
          /\ toGateway' = toGateway \/ toGateway' = Append(toGateway, sending[1])
      BY <2>5 DEF SendFrame
    <3>2. sending[1] \in Message /\ sending[1].kind = "audio"
      BY <1>1, <3>1
    <3> DEFINE m == sending[1]
    <3>3. m \in Message /\ (m.kind = "session.start" => m.of <= session')
      BY <3>2
    <3>4. toGateway' = toGateway \/ toGateway' = Append(toGateway, m)
      BY <3>1
    <3> HIDE DEF m
    <3>5. StartsUpTo(session', toGateway')
      BY <1>6, <1>7, <3>3, <3>4
    <3> QED BY <1>1, <1>2, <2>5, <3>5
  <2> QED BY <2>1, <2>2, <2>3, <2>4, <2>5, WireFlow
<1> QED BY <1>4, <1>5 DEF CommandsInv


\* What is due on the socket was begun.
LEMMA DueIs ==
  ASSUME SessionTypeOK, CommandsInv, NEW k, NEW n, Due(k, n) PROVE n <= session
  BY QueueFacts DEF Due, CommandsInv, StartsUpTo

\* A frame in the sender's hands, or on the socket, keeps what is said of it while no
\* session is asked for ahead of it and nothing older joins behind it.
LEMMA FramesStep ==
  ASSUME SessionTypeOK, CapturedInv, CommandsInv, FramesInv, Next PROVE FramesInv'
<1>1. /\ control \in Seq(Message) /\ toGateway \in Seq(Message) /\ sending \in Seq(Part)
      /\ capture \in Seq(Part) /\ Len(sending) <= 1 /\ told \in Nat /\ MaxSessions \in Nat
      /\ Part \subseteq Message /\ \A m \in Message : m.of \in Nat
      /\ \A m \in Part : m.kind = "audio" /\ m.of \in Nat
  BY QueueFacts
<1>2. /\ hasty \subseteq hasty'
      /\ \A n \in 1 .. MaxSessions : \A k : Due(k, n) /\ Rest(n) => Rest(n)'
  BY RestStep, DueIs
<1>3. /\ sending # <<>> =>
           \A n \in 1 .. MaxSessions :
             Due(Len(toGateway) + 1, n) /\ sending[1].of < n => n \in hasty /\ Rest(n)
      /\ \A f \in DOMAIN toGateway, n \in 1 .. MaxSessions :
           toGateway[f].kind = "audio" /\ Due(f, n) /\ toGateway[f].of < n =>
             /\ n \in hasty /\ Rest(n) /\ AtLeast(n, sending)
             /\ \A g \in DOMAIN toGateway :
                  g > f /\ toGateway[g].kind = "audio" => toGateway[g].of >= n
  BY DEF FramesInv
<1>4. CASE Unwritten
  <2>1. \A n \in 1 .. MaxSessions : \A k : Due(k, n)' => Due(k, n)
    BY <1>4 DEF Due, Unwritten
  <2>2. \A n : AtLeast(n, sending) => AtLeast(n, sending)'
    BY <1>4 DEF Unwritten, AtLeast
  <2>3. UNCHANGED toGateway /\ (sending' = sending \/ sending' = <<>>)
    BY <1>4 DEF Unwritten
  <2> QED BY <1>2, <1>3, <2>1, <2>2, <2>3 DEF FramesInv
<1>5. CASE Cut
  <2>1. \A n \in 1 .. MaxSessions : \A k : ~Due(k, n)'
    BY <1>5 DEF Due, Cut
  <2> QED BY <2>1 DEF FramesInv
<1>6. CASE Reading
  <2>1. /\ toGateway # <<>> /\ toGateway' = Tail(toGateway) /\ UNCHANGED sending
        /\ told' = told \/ told' = 0
           \/ (Head(toGateway).kind = "session.start" /\ told' = Head(toGateway).of)
    BY <1>6 DEF Reading
  <2>2. /\ DOMAIN toGateway = 1 .. Len(toGateway) /\ Len(toGateway) \in Nat
        /\ Len(toGateway') = Len(toGateway) - 1 /\ DOMAIN toGateway' = 1 .. Len(toGateway) - 1
        /\ \A i \in DOMAIN toGateway' :
             i + 1 \in DOMAIN toGateway /\ toGateway'[i] = toGateway[i + 1]
        /\ 1 \in DOMAIN toGateway /\ toGateway[1] = Head(toGateway)
    BY <1>1, <2>1, TailIs
  <2>3. ASSUME NEW n \in 1 .. MaxSessions, NEW k \in Nat \ {0}, Due(k, n)' PROVE Due(k + 1, n)
    <3>1. CASE n = told'
      BY <2>1, <2>2, <3>1 DEF Due
    <3>2. CASE n # told'
      <4>1. PICK i \in DOMAIN toGateway' :
              i < k /\ toGateway'[i].kind = "session.start" /\ toGateway'[i].of = n
        BY <2>3, <3>2 DEF Due
      <4>2. /\ i + 1 \in DOMAIN toGateway /\ i + 1 < k + 1
            /\ toGateway[i + 1].kind = "session.start" /\ toGateway[i + 1].of = n
        BY <2>2, <4>1
      <4> QED BY <4>2 DEF Due
    <3> QED BY <3>1, <3>2
  <2>4. ASSUME NEW n \in 1 .. MaxSessions, sending # <<>>, sending[1].of < n,
               Due(Len(toGateway) + 1, n)'
        PROVE  n \in hasty' /\ Rest(n)'
    <3> DEFINE l == Len(toGateway)
    <3>0. l \in Nat \ {0} /\ Len(toGateway') = l - 1
      BY <2>2
    <3> HIDE DEF l
    <3>1. PICK k \in Nat \ {0} : k = Len(toGateway') + 1
      BY <3>0
    <3>2. Due(k, n)'
      BY <2>4, <3>1 DEF Due
    <3>3. Due(k + 1, n) /\ k + 1 = Len(toGateway) + 1
      BY <2>2, <2>3, <3>1, <3>2
    <3>4. Due(Len(toGateway) + 1, n)
      BY <3>3
    <3> QED BY <1>2, <1>3, <2>4, <3>4
  <2>5. ASSUME NEW f \in DOMAIN toGateway', NEW n \in 1 .. MaxSessions,
               toGateway'[f].kind = "audio", Due(f, n)', toGateway'[f].of < n
        PROVE  /\ n \in hasty' /\ Rest(n)' /\ AtLeast(n, sending)'
               /\ \A g \in DOMAIN toGateway' :
                    g > f /\ toGateway'[g].kind = "audio" => toGateway'[g].of >= n
    <3>1. Due(f + 1, n) /\ f + 1 \in DOMAIN toGateway /\ toGateway[f + 1] = toGateway'[f]
      BY <2>2, <2>3, <2>5
    <3>2. /\ n \in hasty /\ Rest(n) /\ AtLeast(n, sending)
          /\ \A g \in DOMAIN toGateway :
               g > f + 1 /\ toGateway[g].kind = "audio" => toGateway[g].of >= n
      BY <1>3, <2>5, <3>1
    <3>3. \A g \in DOMAIN toGateway' : g > f => g + 1 > f + 1
      BY <2>2
    <3> QED BY <1>2, <2>1, <2>2, <3>1, <3>2, <3>3 DEF AtLeast
  <2> QED BY <2>1, <2>4, <2>5 DEF FramesInv
<1>7. ASSUME NEW m \in Message, toGateway' = Append(toGateway, m), sending' = <<>>, UNCHANGED told,
             m.kind = "audio" => sending # <<>> /\ m = sending[1]
      PROVE  FramesInv'
  <2>1. /\ DOMAIN toGateway = 1 .. Len(toGateway) /\ Len(toGateway) \in Nat
        /\ DOMAIN toGateway' = 1 .. Len(toGateway) + 1
        /\ \A i \in DOMAIN toGateway : toGateway'[i] = toGateway[i]
        /\ toGateway'[Len(toGateway) + 1] = m
    BY <1>1, <1>7, AppendIs
  <2>2. ASSUME NEW n \in 1 .. MaxSessions, NEW k \in DOMAIN toGateway', Due(k, n)'
        PROVE  Due(k, n)
    BY <1>7, <2>1, <2>2 DEF Due
  <2>3. ASSUME NEW f \in DOMAIN toGateway', NEW n \in 1 .. MaxSessions,
               toGateway'[f].kind = "audio", Due(f, n)', toGateway'[f].of < n
        PROVE  /\ n \in hasty' /\ Rest(n)'
               /\ \A g \in DOMAIN toGateway' :
                    g > f /\ toGateway'[g].kind = "audio" => toGateway'[g].of >= n
    <3>1. Due(f, n)
      BY <2>2, <2>3
    <3>2. CASE f \in DOMAIN toGateway
      <4>1. /\ n \in hasty /\ Rest(n) /\ AtLeast(n, sending)
            /\ \A g \in DOMAIN toGateway :
                 g > f /\ toGateway[g].kind = "audio" => toGateway[g].of >= n
        BY <1>3, <2>1, <2>3, <3>1, <3>2
      <4>2. m.kind = "audio" => m.of >= n
        <5>1. sending # <<>> => 1 \in DOMAIN sending /\ sending[1].kind = "audio"
          BY <1>1
        <5> QED BY <1>7, <4>1, <5>1 DEF AtLeast
      <4> QED BY <1>2, <2>1, <3>1, <4>1, <4>2
    <3>3. CASE f = Len(toGateway) + 1
      <4>1. m.kind = "audio" /\ sending # <<>> /\ sending[1].of < n
        BY <1>7, <2>1, <2>3, <3>3
      <4>2. n \in hasty /\ Rest(n)
        BY <1>3, <3>1, <3>3, <4>1
      <4> QED BY <1>2, <2>1, <3>1, <3>3, <4>2
    <3> QED BY <2>1, <3>2, <3>3
  <2>4. \A n : AtLeast(n, sending)'
    BY <1>7 DEF AtLeast
  <2> QED BY <1>7, <2>3, <2>4 DEF FramesInv
<1>8. CASE SendControl /\ UNCHANGED told
  <2>1. /\ control # <<>> /\ sending = <<>> /\ UNCHANGED sending
        /\ toGateway' = toGateway \/ toGateway' = Append(toGateway, Head(control))
    BY <1>8, Zenon DEF SendControl
  <2>2. CASE toGateway' = toGateway
    BY <1>4, <1>8, <2>1, <2>2 DEF Unwritten
  <2>3. CASE toGateway' = Append(toGateway, Head(control))
    <3> DEFINE m == Head(control)
    <3>1. m \in Message /\ m.kind # "audio"
      BY <1>1, <2>1, TailIs DEF CommandsInv, NoFrame
    <3>2. toGateway' = Append(toGateway, m)
      BY <2>3
    <3> HIDE DEF m
    <3> QED BY <1>7, <1>8, <2>1, <3>1, <3>2
  <2> QED BY <2>1, <2>2, <2>3
<1>9. CASE SendFrame /\ UNCHANGED told
  <2> DEFINE m == sending[1]
  <2>1. /\ sending # <<>> /\ sending' = <<>>
        /\ toGateway' = toGateway \/ toGateway' = Append(toGateway, m)
    BY <1>9 DEF SendFrame
  <2>2. CASE toGateway' = toGateway
    BY <1>4, <1>9, <2>1, <2>2 DEF Unwritten
  <2>3. CASE toGateway' = Append(toGateway, m)
    <3>1. m \in Message /\ m = sending[1]
      BY <1>1, <2>1
    <3> HIDE DEF m
    <3> QED BY <1>7, <1>9, <2>1, <2>3, <3>1
  <2> QED BY <2>1, <2>2, <2>3
<1>10. CASE TakeFrame /\ UNCHANGED told
  <2>1. /\ sending = <<>> /\ capture # <<>> /\ capture' = Tail(capture)
        /\ UNCHANGED <<session, hasty, building, sample, toGateway, told>>
        /\ sending' = <<>> \/ sending' = <<Head(capture)>>
    BY <1>10 DEF TakeFrame
  <2>2. \A n : \A k : Due(k, n)' <=> Due(k, n)
    BY <2>1 DEF Due
  <2>3. /\ Head(capture) = capture[1] /\ 1 \in DOMAIN capture /\ Head(capture) \in Part
        /\ \A i \in DOMAIN capture' :
             i + 1 \in DOMAIN capture /\ i + 1 > 1 /\ capture'[i] = capture[i + 1]
    BY <1>1, <2>1, TailIs
  <2>4. ASSUME NEW n \in 1 .. MaxSessions, Due(Len(toGateway) + 1, n), Head(capture).of < n
        PROVE  n \in hasty' /\ Rest(n)'
    <3>1. n <= session /\ session \in Nat
      BY <2>4, DueIs, QueueFacts
    <3>2. n \in hasty
      BY <2>3, <2>4, <3>1 DEF CapturedInv, Excused
    <3>3. /\ AtLeast(n, capture') /\ AtLeast(n, building) /\ AtLeast(n, sample)
      <4>1. /\ \A i \in DOMAIN capture' : capture'[i].of = session
            /\ \A i \in DOMAIN building : building[i].of = session
            /\ \A i \in DOMAIN sample : sample[i].of = session
        BY <2>1, <2>3 DEF CapturedInv, OfSession
      <4> QED BY <3>1, <4>1 DEF AtLeast
    <3> QED BY <2>1, <3>2, <3>3 DEF Rest
  <2>5. \A n \in 1 .. MaxSessions : Rest(n) => AtLeast(n, sending)'
    <3>1. CASE sending' = <<>>
      BY <3>1 DEF AtLeast
    <3>2. CASE sending' = <<Head(capture)>>
      <4>1. DOMAIN sending' = {1} /\ sending'[1] = capture[1]
        BY <2>3, <3>2
      <4> QED BY <2>3, <4>1 DEF Rest, AtLeast
    <3> QED BY <2>1, <3>1, <3>2
  <2>6. sending' # <<>> => sending'[1] = Head(capture)
    BY <2>1
  <2> QED BY <1>2, <1>3, <2>1, <2>2, <2>4, <2>5, <2>6 DEF FramesInv
<1> QED BY <1>4, <1>5, <1>6, <1>8, <1>9, <1>10, WireFlow

\* What was said before a session was asked for is not sent into it, wherever it was left:
\* in the queue, in the sender's hands, in a callback of the microphone task cut in two.
\* Only a session begun before the microphone task's next callback may hear of it, and
\* then no more than the one frame the half-filled one becomes: for any number of
\* sessions, lost connections, failed writes and slots.
THEOREM OldSpeechAlwaysDropped == Spec => []OldSpeechIsDropped
<1> DEFINE SpeechInv == CapturedInv /\ CommandsInv /\ FramesInv
<1>1. Init => SpeechInv
  BY DeviceAssumption DEF Init, DeviceInit, CapturedInv, OfSession, Excused, CommandsInv,
     StartsUpTo, NoFrame, FramesInv
<1>2. SessionTypeOK /\ SpeechInv /\ [Next]_vars => SpeechInv'
  <2> SUFFICES ASSUME SessionTypeOK, SpeechInv, [Next]_vars PROVE SpeechInv'
    OBVIOUS
  <2>1. CASE Next
    BY <2>1, CapturedStep, CommandsStep, FramesStep
  <2>2. CASE UNCHANGED vars
    <3>1. UNCHANGED <<session, hasty, sample, building, capture, control, sending, toGateway, told>>
      BY <2>2, Zenon DEF vars, deviceVars
    <3>2. CapturedInv' /\ CommandsInv'
      BY <3>1 DEF CapturedInv, OfSession, Excused, CommandsInv, StartsUpTo, NoFrame
    <3>3. FramesInv'
      BY <3>1 DEF FramesInv, Due, Rest, AtLeast
    <3> QED BY <3>2, <3>3
  <2> QED BY <2>1, <2>2
<1>3. SessionTypeOK /\ SpeechInv => OldSpeechIsDropped
  BY SpeechIsEnough
<1> QED BY <1>1, <1>2, <1>3, SessionTypeCorrect, PTL DEF Spec

-----------------------------------------------------------------------------
(* What is on its way, by kind: the atoms of the invariants below.          *)

Has(q, kind) == \E i \in DOMAIN q : q[i].kind = kind
Lone(q, kind) == \A i, j \in DOMAIN q : q[i].kind = kind /\ q[j].kind = kind => i = j
Before(q, a, b) == \E i, j \in DOMAIN q : i < j /\ q[i].kind = a /\ q[j].kind = b

\* A command of the kind is queued or on the socket; there is at most one; one of
\* kind a is ahead of one of kind b.
InFlight(kind) == Has(control, kind) \/ Has(toGateway, kind)
OnlyOne(kind) ==
  /\ Lone(control, kind) /\ Lone(toGateway, kind)
  /\ ~(Has(control, kind) /\ Has(toGateway, kind))
Ahead(a, b) ==
  Before(control, a, b) \/ Before(toGateway, a, b) \/ (Has(toGateway, a) /\ Has(control, b))

\* The same of the gateway's answers.
Coming(answer) == \E i \in DOMAIN toDevice : toDevice[i] = answer
ComingOnce(answer) ==
  \A i, j \in DOMAIN toDevice : toDevice[i] = answer /\ toDevice[j] = answer => i = j
ComingBefore(a, b) ==
  \E i, j \in DOMAIN toDevice : i < j /\ toDevice[i] = a /\ toDevice[j] = b

\* What a step does to the commands: nothing; it loses some; the gateway reads one.
CommandsStay ==
  \A k : /\ InFlight(k)' <=> InFlight(k)
         /\ OnlyOne(k)' <=> OnlyOne(k)
         /\ \A a : Ahead(a, k)' <=> Ahead(a, k)
CommandsLost ==
  \A k : /\ InFlight(k)' => InFlight(k)
         /\ OnlyOne(k) => OnlyOne(k)'
         /\ \A a : Ahead(a, k)' => Ahead(a, k)
Taken(kind) ==
  /\ InFlight(kind) /\ (OnlyOne(kind) => ~InFlight(kind)')
  /\ \A k : /\ InFlight(k)' => InFlight(k)
            /\ k # kind => (InFlight(k)' <=> InFlight(k))
            /\ OnlyOne(k) => OnlyOne(k)'
            /\ k # kind /\ InFlight(k)' => Ahead(kind, k)
            /\ \A a : Ahead(a, k)' => Ahead(a, k)

\* What it does to the answers: nothing; the device takes one; one or two are sent.
AnswersStay ==
  \A a : /\ Coming(a)' <=> Coming(a)
         /\ ComingOnce(a)' <=> ComingOnce(a)
         /\ \A b : ComingBefore(a, b)' <=> ComingBefore(a, b)
Received(answer) ==
  /\ Coming(answer) /\ (ComingOnce(answer) => ~Coming(answer)')
  /\ \A a : /\ Coming(a)' => Coming(a)
            /\ a # answer => (Coming(a)' <=> Coming(a))
            /\ ComingOnce(a) => ComingOnce(a)'
            /\ a # answer /\ Coming(a)' => ComingBefore(answer, a)
            /\ \A b : ComingBefore(a, b)' => ComingBefore(a, b)
Said(x) ==
  \A a : /\ Coming(a)' <=> Coming(a) \/ a = x
         /\ ComingOnce(a) /\ ~(Coming(a) /\ a = x) => ComingOnce(a)'
         /\ \A b : ComingBefore(a, b)' => ComingBefore(a, b) \/ (b = x /\ Coming(a))
SaidBoth(x, y) ==
  \A a : /\ Coming(a)' <=> Coming(a) \/ a \in {x, y}
         /\ ComingOnce(a) /\ ~(Coming(a) /\ a \in {x, y}) => ComingOnce(a)'
         /\ \A b : ComingBefore(a, b)' => ComingBefore(a, b) \/ b \in {x, y}

USE DEF CommandsStay, CommandsLost, Taken, AnswersStay, Received, Said, SaidBoth

\* What a queue holds once a message is added, or the first is taken.
LEMMA HasAppend ==
  ASSUME NEW q \in Seq(Message), NEW m \in Message
  PROVE  \A k : /\ Has(Append(q, m), k) <=> Has(q, k) \/ m.kind = k
                /\ Lone(q, k) /\ ~(Has(q, k) /\ m.kind = k) => Lone(Append(q, m), k)
                /\ \A a : Before(Append(q, m), a, k) => Before(q, a, k) \/ (Has(q, a) /\ m.kind = k)
<1> DEFINE r == Append(q, m)
<1>1. /\ DOMAIN q = 1 .. Len(q) /\ Len(q) \in Nat /\ DOMAIN r = 1 .. Len(q) + 1
      /\ \A i \in DOMAIN q : r[i] = q[i]
      /\ r[Len(q) + 1] = m
  BY AppendIs
<1> HIDE DEF r
<1> SUFFICES ASSUME NEW k
             PROVE  /\ Has(r, k) <=> Has(q, k) \/ m.kind = k
                    /\ Lone(q, k) /\ ~(Has(q, k) /\ m.kind = k) => Lone(r, k)
                    /\ \A a : Before(r, a, k) => Before(q, a, k) \/ (Has(q, a) /\ m.kind = k)
  BY DEF r
<1>2. Has(r, k) <=> Has(q, k) \/ m.kind = k
  BY <1>1 DEF Has
<1>3. Lone(q, k) /\ ~(Has(q, k) /\ m.kind = k) => Lone(r, k)
  BY <1>1 DEF Has, Lone
<1>4. \A a : Before(r, a, k) => Before(q, a, k) \/ (Has(q, a) /\ m.kind = k)
  BY <1>1 DEF Has, Before
<1> QED BY <1>2, <1>3, <1>4

LEMMA HasTail ==
  ASSUME NEW q \in Seq(Message), q # <<>>
  PROVE  \A k : /\ Has(q, k) <=> Head(q).kind = k \/ Has(Tail(q), k)
                /\ Lone(q, k) => Lone(Tail(q), k) /\ ~(Head(q).kind = k /\ Has(Tail(q), k))
                /\ \A a : /\ Before(Tail(q), a, k) => Before(q, a, k)
                          /\ Head(q).kind = a /\ Has(Tail(q), k) => Before(q, a, k)
<1> DEFINE r == Tail(q)
<1>1. /\ DOMAIN q = 1 .. Len(q) /\ Len(q) \in Nat \ {0} /\ DOMAIN r = 1 .. Len(q) - 1
      /\ \A i \in DOMAIN r : r[i] = q[i + 1]
      /\ Head(q) = q[1]
  BY TailIs
<1> HIDE DEF r
<1> SUFFICES ASSUME NEW k
             PROVE  /\ Has(q, k) <=> Head(q).kind = k \/ Has(r, k)
                    /\ Lone(q, k) => Lone(r, k) /\ ~(Head(q).kind = k /\ Has(r, k))
                    /\ \A a : /\ Before(r, a, k) => Before(q, a, k)
                              /\ Head(q).kind = a /\ Has(r, k) => Before(q, a, k)
  BY DEF r
<1>2. \A i \in DOMAIN r : i + 1 \in DOMAIN q /\ q[i + 1] = r[i]
  BY <1>1
<1>3. \A i \in DOMAIN q : i = 1 \/ (i - 1 \in DOMAIN r /\ r[i - 1] = q[i])
  BY <1>1
<1>4. Has(q, k) <=> Head(q).kind = k \/ Has(r, k)
  BY <1>1, <1>2, <1>3 DEF Has
<1>5. Lone(q, k) => Lone(r, k) /\ ~(Head(q).kind = k /\ Has(r, k))
  BY <1>1, <1>2 DEF Has, Lone
<1>6. ASSUME NEW a
      PROVE  /\ Before(r, a, k) => Before(q, a, k)
             /\ Head(q).kind = a /\ Has(r, k) => Before(q, a, k)
  BY <1>1, <1>2 DEF Has, Before
<1> QED BY <1>4, <1>5, <1>6

LEMMA HasNothing == \A k, a : ~Has(<<>>, k) /\ Lone(<<>>, k) /\ ~Before(<<>>, a, k)
  BY DEF Has, Lone, Before

\* What is ahead of another is there, and so is the other.
LEMMA AheadIs ==
  /\ \A a, b : Ahead(a, b) => InFlight(a) /\ InFlight(b)
  /\ \A a, b : ComingBefore(a, b) => Coming(a) /\ Coming(b)
  BY DEF Ahead, InFlight, Has, Before, ComingBefore, Coming

\* A command joins the queue.
LEMMA QueuedFlow ==
  ASSUME SessionTypeOK, NEW msg \in Message, SendJson(msg), UNCHANGED toGateway
  PROVE  \A k : /\ InFlight(k)' <=> InFlight(k) \/ (CanQueue /\ msg.kind = k)
                /\ OnlyOne(k) /\ ~(CanQueue /\ msg.kind = k /\ InFlight(k)) => OnlyOne(k)'
                /\ \A a : Ahead(a, k)' => Ahead(a, k) \/ (CanQueue /\ msg.kind = k /\ InFlight(a))
<1>1. control \in Seq(Message)
  BY TypeParts DEF QueuesOK
<1>2. CASE CanQueue
  <2>1. control' = Append(control, msg)
    BY <1>2, Zenon DEF SendJson
  <2>2. \A k : /\ Has(control', k) <=> Has(control, k) \/ msg.kind = k
               /\ Lone(control, k) /\ ~(Has(control, k) /\ msg.kind = k) => Lone(control', k)
               /\ \A a : Before(control', a, k) =>
                            Before(control, a, k) \/ (Has(control, a) /\ msg.kind = k)
    BY <1>1, <2>1, HasAppend
  <2> QED BY <1>2, <2>2 DEF InFlight, OnlyOne, Ahead
<1>3. CASE ~CanQueue
  BY <1>3 DEF SendJson, InFlight, OnlyOne, Ahead
<1> QED BY <1>2, <1>3

\* The same of one of the protocol's commands.
LEMMA CommandFlow ==
  ASSUME SessionTypeOK, UNCHANGED toGateway,
         NEW kind \in {"auth", "session.start", "session.stop", "ready.detected", "state",
                       "volume.up", "volume.off"}, SendJson(Msg(kind))
  PROVE  \A k : /\ InFlight(k)' <=> InFlight(k) \/ (CanQueue /\ kind = k)
                /\ OnlyOne(k) /\ ~(CanQueue /\ kind = k /\ InFlight(k)) => OnlyOne(k)'
                /\ \A a : Ahead(a, k)' => Ahead(a, k) \/ (CanQueue /\ kind = k /\ InFlight(a))
<1> DEFINE msg == Msg(kind)
<1>1. msg \in Message /\ msg.kind = kind /\ SendJson(msg)
  BY MessageType, TypeParts DEF Msg
<1> HIDE DEF msg
<1>2. \A k : /\ InFlight(k)' <=> InFlight(k) \/ (CanQueue /\ msg.kind = k)
             /\ OnlyOne(k) /\ ~(CanQueue /\ msg.kind = k /\ InFlight(k)) => OnlyOne(k)'
             /\ \A a : Ahead(a, k)' => Ahead(a, k) \/ (CanQueue /\ msg.kind = k /\ InFlight(a))
  BY <1>1, QueuedFlow
<1> QED BY <1>1, <1>2

\* The sender moves a command to the socket, or loses it: a stop that is lost on a
\* connection is remembered.
LEMMA SentFlow ==
  ASSUME SessionTypeOK, SendControl
  PROVE  \A k : /\ InFlight(k)' => InFlight(k)
                /\ k = "session.stop" /\ Connected /\ k \notin lost' =>
                     (InFlight(k)' <=> InFlight(k))
                /\ OnlyOne(k) => OnlyOne(k)'
                /\ \A a : Ahead(a, k)' => Ahead(a, k)
<1>1. control \in Seq(Message) /\ toGateway \in Seq(Message) /\ control # <<>>
  BY TypeParts DEF QueuesOK, SendControl
<1>2. Head(control) \in Message
  BY <1>1
<1>3. CASE Connected /\ toGateway' = Append(toGateway, Head(control))
  BY <1>1, <1>2, <1>3, HasAppend, HasTail DEF SendControl, InFlight, OnlyOne, Ahead
<1>4. CASE UNCHANGED toGateway
  <2>1. Head(control).kind = "session.stop" /\ Connected => "session.stop" \in lost'
    <3>1. CASE Connected /\ lost' = lost \cup Missed
      BY <3>1 DEF Missed, Reports
    <3>2. CASE toGateway' = Append(toGateway, Head(control))
      BY <1>1, <1>2, <1>4, <3>2
    <3> QED BY <3>1, <3>2 DEF SendControl
  <2> QED BY <1>1, <1>4, <2>1, HasTail DEF SendControl, InFlight, OnlyOne, Ahead
<1> QED BY <1>3, <1>4 DEF SendControl

\* A frame on the socket is no command.
LEMMA FrameFlow ==
  ASSUME SessionTypeOK, SendFrame
  PROVE  \A k : k # "audio" =>
           /\ InFlight(k)' <=> InFlight(k)
           /\ OnlyOne(k) => OnlyOne(k)'
           /\ \A a : Ahead(a, k)' => Ahead(a, k) \/ a = "audio"
<1> DEFINE m == sending[1]
<1>1. /\ toGateway \in Seq(Message) /\ UNCHANGED control
      /\ toGateway' = toGateway \/ toGateway' = Append(toGateway, m)
  BY TypeParts DEF QueuesOK, SendFrame
<1>2. m \in Message /\ m.kind = "audio"
  <2>1. m \in Part
    BY TypeParts DEF QueuesOK, SendFrame
  <2> QED BY <2>1, TypeParts, MessageType DEF Part
<1>3. CASE toGateway' = toGateway
  BY <1>1, <1>3 DEF InFlight, OnlyOne, Ahead
<1>4. CASE toGateway' = Append(toGateway, m)
  <2> HIDE DEF m
  <2> QED BY <1>1, <1>2, <1>4, HasAppend DEF InFlight, OnlyOne, Ahead
<1> QED BY <1>1, <1>3, <1>4

\* The gateway reads a command: there was one, and what it was ahead of is behind it.
LEMMA TakenFlow ==
  ASSUME SessionTypeOK, NEW kind, Take(kind)
  PROVE  Taken(kind)
<1>1. /\ toGateway \in Seq(Message) /\ toGateway # <<>> /\ toGateway' = Tail(toGateway)
      /\ Head(toGateway).kind = kind /\ UNCHANGED control
  BY TypeParts, Zenon DEF QueuesOK, Take
<1> QED BY <1>1, HasTail DEF InFlight, OnlyOne, Ahead

\* The queue or the socket is emptied.
LEMMA LostFlow ==
  ASSUME \/ control' = <<>> /\ UNCHANGED toGateway
         \/ toGateway' = <<>> /\ UNCHANGED control
  PROVE  CommandsLost
  BY HasNothing DEF InFlight, OnlyOne, Ahead

\* One answer joins the socket, or two different ones.
LEMMA SaidOne ==
  ASSUME SessionTypeOK, NEW x \in Answers, Say(<<x>>)
  PROVE  Said(x)
<1>1. toDevice \in Seq(Answers)
  BY TypeParts DEF QueuesOK
<1>2. toDevice' = Append(toDevice, x)
  BY <1>1 DEF Say
<1>3. /\ DOMAIN toDevice = 1 .. Len(toDevice) /\ Len(toDevice) \in Nat
      /\ DOMAIN toDevice' = 1 .. Len(toDevice) + 1
      /\ \A i \in DOMAIN toDevice : toDevice'[i] = toDevice[i]
      /\ toDevice'[Len(toDevice) + 1] = x
  BY <1>1, <1>2, AppendIs
<1>4. ASSUME NEW a
      PROVE  /\ Coming(a)' <=> Coming(a) \/ a = x
             /\ ComingOnce(a) /\ ~(Coming(a) /\ a = x) => ComingOnce(a)'
  BY <1>3 DEF Coming, ComingOnce
<1>5. ASSUME NEW a, NEW b, ComingBefore(a, b)'
      PROVE  ComingBefore(a, b) \/ (b = x /\ Coming(a))
  BY <1>3, <1>5 DEF Coming, ComingBefore
<1> QED BY <1>4, <1>5

LEMMA SaidTwo ==
  ASSUME SessionTypeOK, NEW x \in Answers, NEW y \in Answers, x # y, Say(<<x, y>>)
  PROVE  SaidBoth(x, y)
<1> DEFINE n == Len(toDevice)
<1>1. toDevice \in Seq(Answers)
  BY TypeParts DEF QueuesOK
<1>2. /\ DOMAIN toDevice = 1 .. n /\ n \in Nat /\ DOMAIN toDevice' = 1 .. n + 2
      /\ \A i \in DOMAIN toDevice : toDevice'[i] = toDevice[i]
      /\ toDevice'[n + 1] = x /\ toDevice'[n + 2] = y
  BY <1>1 DEF Say
<1> HIDE DEF n
<1>3. ASSUME NEW a
      PROVE  /\ Coming(a)' <=> Coming(a) \/ a \in {x, y}
             /\ ComingOnce(a) /\ ~(Coming(a) /\ a \in {x, y}) => ComingOnce(a)'
  BY <1>2 DEF Coming, ComingOnce
<1>4. ASSUME NEW a, NEW b, ComingBefore(a, b)'
      PROVE  ComingBefore(a, b) \/ b \in {x, y}
  BY <1>2, <1>4 DEF Coming, ComingBefore
<1> QED BY <1>3, <1>4

\* The device takes the first answer: there was one, and what it was ahead of follows.
LEMMA ReceivedFlow ==
  ASSUME SessionTypeOK, NEW answer, Receive(answer)
  PROVE  Received(answer)
<1>1. /\ toDevice \in Seq(Answers) /\ toDevice # <<>> /\ toDevice' = Tail(toDevice)
      /\ Head(toDevice) = answer
  BY TypeParts, Zenon DEF QueuesOK, Receive
<1>2. /\ DOMAIN toDevice = 1 .. Len(toDevice) /\ Len(toDevice) \in Nat \ {0}
      /\ DOMAIN toDevice' = 1 .. Len(toDevice) - 1
      /\ \A i \in DOMAIN toDevice' : toDevice'[i] = toDevice[i + 1]
      /\ toDevice[1] = answer
  BY <1>1, TailIs
<1>3. \A i \in DOMAIN toDevice' : i + 1 \in DOMAIN toDevice /\ toDevice[i + 1] = toDevice'[i]
  BY <1>2
<1>4. \A i \in DOMAIN toDevice : i = 1 \/ (i - 1 \in DOMAIN toDevice' /\ toDevice'[i - 1] = toDevice[i])
  BY <1>2
<1>5. Coming(answer) /\ (ComingOnce(answer) => ~Coming(answer)')
  BY <1>2, <1>3 DEF Coming, ComingOnce
<1>6. ASSUME NEW a
      PROVE  /\ Coming(a)' => Coming(a)
             /\ a # answer => (Coming(a)' <=> Coming(a))
             /\ a # answer /\ Coming(a)' => ComingBefore(answer, a)
  BY <1>2, <1>3, <1>4 DEF Coming, ComingBefore
<1>7. ASSUME NEW a PROVE ComingOnce(a) => ComingOnce(a)'
  BY <1>2, <1>3 DEF ComingOnce
<1>8. ASSUME NEW a, NEW b PROVE ComingBefore(a, b)' => ComingBefore(a, b)
  BY <1>2, <1>3 DEF ComingBefore
<1> QED BY <1>5, <1>6, <1>7, <1>8

-----------------------------------------------------------------------------
(* The invariant of a session.                                              *)

\* What the connection allows: nothing survives its loss, and without authentication
\* there is no session and no word of one.
LinkInv ==
  /\ link \in {"down", "closing"} => gateway = "off" /\ toGateway = <<>> /\ toDevice = <<>>
  /\ link \in {"down", "opening"} =>
       /\ ~authenticated /\ ~authPending /\ ~waiting
       /\ ~InFlight("auth") /\ ~Coming("auth.ok")
  /\ ~authenticated => /\ gateway = "off" /\ ~InFlight("session.start")
                       /\ ~Coming("session.started") /\ ~Coming("session.ended")

\* A connection is authenticated once: asked for, on its way, answered or done.
AuthInv ==
  /\ OnlyOne("auth") /\ ComingOnce("auth.ok")
  /\ authenticated => ~authPending /\ ~InFlight("auth") /\ ~Coming("auth.ok")
  /\ authPending => ~InFlight("auth") /\ ~Coming("auth.ok")
  /\ InFlight("auth") => ~Coming("auth.ok")

ChimeInv ==
  /\ asking => chime.at = "off"
  /\ chime.at = "off" => chime.frames = 0

\* A start and a stop follow one another: each is settled before the next.
Unasked ==
  gateway = "off" /\ ~InFlight("session.start") /\ ~Coming("session.started")
Open == gateway \in {"opening", "on", "waiting", "switching"}
TurnInv ==
  /\ gateway # "orphan"
  /\ startPending /\ ~asking => Unasked /\ ~Coming("session.ended")
  /\ InFlight("session.start") =>
       /\ active /\ gateway = "off" /\ OnlyOne("session.start")
       /\ ~Coming("session.started") /\ ~Coming("session.ended")
       /\ Connected => streamReady \/ asking
  /\ InFlight("session.stop") => ~active
  /\ Open => active \/ (gateway \in {"on", "waiting"} /\ InFlight("session.stop"))
  /\ Open /\ active => streamReady \/ asking
  /\ Coming("session.ended") => gateway = "off"
  /\ chime.at # "off" => Unasked /\ ~streamReady

\* A ready word is on its way only while the gateway waits for it, or has since ended
\* the session; the device may say it once for each time it was asked to.
Expected == gateway \in {"waiting", "closing"} \/ Coming("session.ended")
ReadyInv ==
  /\ OnlyOne("ready.detected") /\ ComingOnce("keyword.ready")
  /\ InFlight("ready.detected") =>
       gateway \in {"waiting", "closing", "off"} /\ ~Ahead("session.start", "ready.detected")
  /\ waiting /\ ~signalled =>
       /\ ~InFlight("ready.detected") /\ ~Coming("keyword.ready")
       /\ Expected \/ link = "closing"
  /\ Coming("keyword.ready") =>
       /\ Expected /\ ~InFlight("ready.detected")
       /\ ~ComingBefore("session.ended", "keyword.ready")

Settling == LinkInv /\ AuthInv /\ ChimeInv
Inv == Settling /\ (Apart => TurnInv /\ ReadyInv)

\* The definitions the steps below expand.
USE DEF Unasked, Open, Expected, Connected, NotStreaming, FlushPlayback, NoChime

\* Nothing moves.
LEMMA SameFlow ==
  ASSUME UNCHANGED <<control, toGateway>>
  PROVE  CommandsStay
  BY DEF InFlight, OnlyOne, Ahead

LEMMA SameAnswers ==
  ASSUME UNCHANGED toDevice
  PROVE  AnswersStay
  BY DEF Coming, ComingOnce, ComingBefore

\* Where the connection, the gateway and the chime may be.
LEMMA Places ==
  ASSUME SessionTypeOK
  PROVE  /\ link \in {"down", "opening", "up", "closing"}
         /\ gateway \in {"off", "opening", "orphan", "on", "waiting", "switching", "closing"}
         /\ chime.at \in {"off", "asked", "playing", "draining"}
  BY TypeParts DEF CountsOK, ChimeOK, ChimeState

\* What is not apart stays so.
LEMMA ApartStays == ASSUME [Next]_vars PROVE Apart' => Apart
<1>1. crossed \subseteq crossed'
  BY DEF Next, User, Tasks, Elsewhere, GatewayStep, GatewayReads, GatewayAuth, GatewayStart,
     GatewayStop, GatewayAudio, GatewayReady, GatewayReport, Take, GatewayOpened, GatewayFails,
     GatewayCloses, GatewayEnds, GatewayWaits, GatewaySwitches, GatewaySetsVolume, Acts, LinkLost,
     LinkOpens, vars
<1>2. "session.stop" \in lost => "session.stop" \in lost'
  <2>1. \A msg : SendJson(msg) => lost \ Reports \subseteq lost'
    BY DEF SendJson
  <2>2. UNCHANGED lost \/ lost \ Reports \subseteq lost' \/ lost' = lost \cap {"session.stop"}
    <3>1. CASE User
      BY <2>1, <3>1, Zenon DEF User, UserStep, Wake, ButtonStart, StopSession, ReadyDetected, Mute,
         Unmute
    <3>2. CASE LoopStep
      BY <2>1, <3>2, Zenon DEF LoopStep, SendAuth, SendStart, StartSent, ChimeRuns, ChimeSkipped,
         ChimeStarts, ChimePlays, ChimeHandedOver, Dac, ChimeDone, ChimeTimesOut, ChimeStep
    <3>3. CASE SendControl
      BY <3>3 DEF SendControl
    <3>4. CASE (MicStep \/ SenderStep) /\ ~SendControl
      BY <3>4, Zenon DEF MicStep, MicCallback, AppendSample, SenderStep, TakeFrame,
         NothingCaptured, SendFrame, SendFails
    <3>5. CASE WebSocketStep
      BY <2>1, <3>5, Zenon DEF WebSocketStep, HandleConnected, HandleDisconnected, ReceiveAuthOk,
         ReceiveStarted, ReceiveEnded, ReceiveKeyword, ReceiveVolume, SetRuntimeVolume, Receive,
         Report
    <3>6. CASE GatewayStep \/ LinkLost \/ LinkOpens \/ UNCHANGED vars
      BY <3>6, Zenon DEF GatewayStep, GatewayReads, GatewayAuth, GatewayStart, GatewayStop,
         GatewayAudio, GatewayReady, GatewayReport, Take, GatewayOpened, GatewayFails,
         GatewayCloses, GatewayEnds, GatewayWaits, GatewaySwitches, GatewaySetsVolume, Acts,
         LinkLost, LinkOpens, vars, deviceVars
    <3> QED BY <3>1, <3>2, <3>3, <3>4, <3>5, <3>6 DEF Next, Tasks
  <2>3. "session.stop" \notin Reports
    BY DEF Reports
  <2> QED BY <2>2, <2>3
<1> QED BY <1>1, <1>2 DEF Apart

\* A step of the user crosses what is under way, or finds the last session settled.
LEMMA UserApart ==
  ASSUME User, Apart', Apart' => Apart
  PROVE  /\ Apart
         /\ active' # active =>
              /\ ~InFlight("session.start") /\ ~InFlight("session.stop")
              /\ gateway \notin {"opening", "orphan", "switching", "closing"}
              /\ ~Coming("session.started") /\ ~Coming("session.ended")
<1>1. Apart /\ (active' # active => ~Outstanding)
  BY Zenon DEF User, Apart
<1>2. InFlight("session.start") => Asked({"session.start", "session.stop"})
  BY DEF InFlight, Has, Asked
<1>3. InFlight("session.stop") => Asked({"session.start", "session.stop"})
  BY DEF InFlight, Has, Asked
<1>4. Coming("session.started") \/ Coming("session.ended") => Outstanding
  BY DEF Coming, Outstanding
<1> QED BY <1>1, <1>2, <1>3, <1>4 DEF Outstanding

\* What a step finds.
Held == SessionTypeOK /\ Inv /\ (Apart' => Apart)
USE DEF Held

\* A session starts: apart, the last one is settled.
LEMMA StartStep ==
  ASSUME Held, User, Wake \/ ButtonStart PROVE Inv'
<1>1. /\ Loop /\ ~active /\ active' = TRUE /\ NotStreaming
      /\ startPending' = (authenticated \/ startPending)
      /\ UNCHANGED <<link, authVars, asking, control, toGateway, toDevice, gateway>>
      /\ \/ UNCHANGED chime
         \/ chime' = [NoChime EXCEPT !.at = "asked"]
  BY Zenon DEF Wake, ButtonStart, StartSession, User
<1>2. CommandsStay /\ AnswersStay
  BY <1>1, SameFlow, SameAnswers
<1>3. Settling'
  BY <1>1, <1>2 DEF Inv, Settling, LinkInv, AuthInv, ChimeInv, Loop
<1>4. Apart' => TurnInv'
  <2> SUFFICES ASSUME Apart' PROVE TurnInv'
    OBVIOUS
  <2>1. Apart /\ TurnInv /\ Unasked /\ ~Coming("session.ended") /\ ~InFlight("session.stop")
    BY <1>1, UserApart, TypeParts DEF CountsOK, Inv, TurnInv
  <2> QED BY <1>1, <1>2, <2>1 DEF TurnInv
<1>5. Apart' => ReadyInv'
  BY <1>1, <1>2, UserApart DEF Inv, ReadyInv
<1> QED BY <1>3, <1>4, <1>5 DEF Inv

\* A session is stopped: the gateway is told, or has none.
LEMMA StopStep == ASSUME Held, User, StopSession PROVE Inv'
<1>1. /\ Loop /\ active /\ active' = FALSE /\ NotStreaming /\ FlushPlayback
      /\ SendJson(Msg("session.stop"))
      /\ UNCHANGED <<link, authVars, startPending, asking, toGateway, toDevice, gateway>>
  BY DEF StopSession, User
<1>2. \A k : /\ InFlight(k)' <=> InFlight(k) \/ (CanQueue /\ k = "session.stop")
             /\ k # "session.stop" /\ OnlyOne(k) => OnlyOne(k)'
             /\ k # "session.stop" => \A a : Ahead(a, k)' => Ahead(a, k)
  BY <1>1, CommandFlow
<1>3. AnswersStay
  BY <1>1, SameAnswers
<1>4. Settling'
  BY <1>1, <1>2, <1>3 DEF Inv, Settling, LinkInv, AuthInv, ChimeInv
<1>5. Apart' => TurnInv'
  <2> SUFFICES ASSUME Apart' PROVE TurnInv'
    OBVIOUS
  <2>1. /\ Apart /\ TurnInv /\ ~InFlight("session.start") /\ gateway \in {"off", "on", "waiting"}
        /\ ~Coming("session.started") /\ ~Coming("session.ended")
    BY <1>1, UserApart, Places DEF Inv
  <2>2. gateway # "off" => CanQueue
    <3>1. Connected /\ ~CanQueue => "session.stop" \in lost'
      BY <1>1 DEF SendJson, Msg
    <3>2. gateway # "off" => Connected
      BY Places DEF Inv, Settling, LinkInv
    <3> QED BY <3>1, <3>2 DEF Apart
  <2> QED BY <1>1, <1>2, <1>3, <2>1, <2>2 DEF TurnInv
<1>6. Apart' => ReadyInv'
  BY <1>1, <1>2, <1>3, UserApart DEF Inv, ReadyInv
<1> QED BY <1>4, <1>5, <1>6 DEF Inv

\* The ready word is said.
LEMMA WordStep == ASSUME Held, User, ReadyDetected PROVE Inv'
<1>1. /\ Loop /\ waiting /\ ~signalled /\ signalled' = CanQueue
      /\ SendJson(Msg("ready.detected"))
      /\ UNCHANGED <<link, authVars, startPending, active, streamReady, waiting, chime, asking,
                     toGateway, toDevice, gateway>>
  BY DEF ReadyDetected, User
<1>2. \A k : /\ InFlight(k)' <=> InFlight(k) \/ (CanQueue /\ k = "ready.detected")
             /\ OnlyOne(k) /\ ~(k = "ready.detected" /\ InFlight(k)) => OnlyOne(k)'
             /\ \A a : Ahead(a, k)' =>
                         Ahead(a, k) \/ (CanQueue /\ k = "ready.detected" /\ InFlight(a))
  BY <1>1, CommandFlow
<1>3. AnswersStay
  BY <1>1, SameAnswers
<1>4. Settling'
  BY <1>1, <1>2, <1>3 DEF Inv, Settling, LinkInv, AuthInv, ChimeInv
<1>5. Apart' => TurnInv'
  BY <1>1, <1>2, <1>3, UserApart DEF Inv, TurnInv
<1>6. Apart' => ReadyInv'
  <2> SUFFICES ASSUME Apart' PROVE ReadyInv'
    OBVIOUS
  <2>1. Apart /\ TurnInv /\ ReadyInv
    BY UserApart DEF Inv
  <2>2. ~InFlight("ready.detected") /\ ~Coming("keyword.ready") /\ (Expected \/ link = "closing")
    BY <1>1, <2>1 DEF ReadyInv
  <2>3. CanQueue => ~InFlight("session.start") /\ gateway \in {"waiting", "closing", "off"}
    BY <2>1, <2>2 DEF TurnInv, CanQueue
  <2>4. OnlyOne("ready.detected")' /\ ComingOnce("keyword.ready")'
    BY <1>2, <1>3, <2>1, <2>2 DEF ReadyInv
  <2>5. InFlight("ready.detected")' =>
          gateway' \in {"waiting", "closing", "off"} /\ ~Ahead("session.start", "ready.detected")'
    BY <1>1, <1>2, <2>2, <2>3, AheadIs
  <2>6. ~Coming("keyword.ready")' /\ (waiting' /\ ~signalled' => ~CanQueue)
    BY <1>1, <1>3, <2>2
  <2> QED BY <1>1, <1>2, <1>3, <2>2, <2>4, <2>5, <2>6 DEF ReadyInv
<1> QED BY <1>4, <1>5, <1>6 DEF Inv

\* Muting and reporting, frames, and what the main loop does of its own accord do not
\* touch the session, other than by cutting the chime off.
LEMMA QuietStep ==
  ASSUME Held,
         UNCHANGED <<link, authVars, flagVars, asking, gateway, toDevice>>,
         /\ chime'.at # "off" => chime.at # "off"
         /\ asking => chime'.at = "off"
         /\ chime'.at = "off" => chime'.frames = 0,
         \A k \in {"auth", "session.start", "session.stop", "ready.detected"} :
           /\ InFlight(k)' <=> InFlight(k)
           /\ OnlyOne(k) => OnlyOne(k)'
           /\ \A a : Ahead(a, k)' => Ahead(a, k) \/ a = "audio",
         toGateway' = toGateway \/ Connected
  PROVE  Inv'
<1>1. AnswersStay
  BY SameAnswers
<1>2. Settling'
  BY <1>1 DEF Inv, Settling, LinkInv, AuthInv, ChimeInv
<1>3. Apart' => TurnInv'
  BY <1>1 DEF Inv, TurnInv
<1>4. Apart' => ReadyInv'
  BY <1>1 DEF Inv, ReadyInv
<1> QED BY <1>2, <1>3, <1>4 DEF Inv

\* Muting, and its report.
LEMMA MuteStep == ASSUME Held, User, Mute \/ Unmute PROVE Inv'
<1>1. /\ SendJson(Msg("state")) /\ (chime' = chime \/ chime' = NoChime)
      /\ UNCHANGED <<link, authVars, flagVars, asking, gateway, toDevice, toGateway>>
  BY Zenon DEF Mute, Unmute, User
<1>2. Apart' => Apart
  BY UserApart
<1>3. \A k : k # "state" => /\ InFlight(k)' <=> InFlight(k)
                            /\ OnlyOne(k) => OnlyOne(k)'
                            /\ \A a : Ahead(a, k)' => Ahead(a, k)
  BY <1>1, CommandFlow
<1>4. /\ chime'.at # "off" => chime.at # "off"
      /\ asking => chime'.at = "off"
      /\ chime'.at = "off" => chime'.frames = 0
  BY <1>1 DEF Inv, Settling, ChimeInv
<1> QED BY <1>1, <1>2, <1>3, <1>4, QuietStep

\* The main loop's steps.
LEMMA AuthStep == ASSUME Held, SendAuth, Elsewhere PROVE Inv'
<1>1. /\ authPending /\ CanQueue /\ authPending' = FALSE /\ SendJson(Msg("auth"))
      /\ UNCHANGED <<link, authenticated, flagVars, asking, gateway, toDevice, toGateway, chime>>
  BY Zenon DEF SendAuth
<1>2. \A k : /\ InFlight(k)' <=> InFlight(k) \/ k = "auth"
             /\ OnlyOne(k) /\ ~(k = "auth" /\ InFlight(k)) => OnlyOne(k)'
             /\ k # "auth" => \A a : Ahead(a, k)' => Ahead(a, k)
  BY <1>1, CommandFlow
<1>3. AnswersStay
  BY <1>1, SameAnswers
<1>4. Settling'
  BY <1>1, <1>2, <1>3 DEF Inv, Settling, LinkInv, AuthInv, ChimeInv, CanQueue
<1>5. Apart' => TurnInv'
  BY <1>1, <1>2, <1>3 DEF Inv, TurnInv
<1>6. Apart' => ReadyInv'
  BY <1>1, <1>2, <1>3 DEF Inv, ReadyInv
<1> QED BY <1>4, <1>5, <1>6 DEF Inv

\* The chime is off, or on its way through its stages; off, none of it was handed over.
LEMMA ChimeStepIs ==
  ASSUME SessionTypeOK, ChimeInv, ChimeRuns
  PROVE  /\ chime'.at # "off" => chime.at # "off"
         /\ chime'.at = "off" => chime'.frames = 0
<1>1. chime \in ChimeState
  BY TypeParts DEF CountsOK, ChimeOK
<1>2. CASE ChimeSkipped \/ ChimeTimesOut \/ ChimeDone
  BY <1>2 DEF ChimeSkipped, ChimeTimesOut, ChimeDone, ChimeStep
<1>3. CASE ChimeStarts \/ ChimeHandedOver
  BY <1>1, <1>3 DEF ChimeStarts, ChimeHandedOver, ChimeStep, ChimeState
<1>4. CASE ChimePlays
  <2>1. chime.at = "playing" /\ \E n : chime' = [chime EXCEPT !.frames = n]
    BY <1>4, Zenon DEF ChimePlays, ChimeStep
  <2> QED BY <1>1, <2>1 DEF ChimeState
<1>5. CASE Dac
  <2>1. \E n : chime' = [chime EXCEPT !.played = n]
    BY <1>5, Zenon DEF Dac, ChimeStep
  <2>2. chime'.at = chime.at /\ chime'.frames = chime.frames
    BY <1>1, <2>1 DEF ChimeState
  <2> QED BY <2>2 DEF ChimeInv
<1> QED BY <1>2, <1>3, <1>4, <1>5 DEF ChimeRuns

LEMMA ChimeQuiet == ASSUME Held, ChimeRuns, Elsewhere PROVE Inv'
<1>1. /\ ~asking
      /\ UNCHANGED <<link, authVars, flagVars, asking, gateway, toDevice, toGateway, control>>
  BY Zenon DEF ChimeRuns, ChimeSkipped, ChimeStarts, ChimePlays, ChimeHandedOver, Dac, ChimeDone,
     ChimeTimesOut, ChimeStep, Loop
<1>2. chime'.at # "off" => chime.at # "off"
  BY ChimeStepIs DEF Inv, Settling
<1>3. chime'.at = "off" => chime'.frames = 0
  BY ChimeStepIs DEF Inv, Settling
<1> QED BY <1>1, <1>2, <1>3, SameFlow, QuietStep DEF Apart

\* The session is asked for, once; then it is noted.
LEMMA AskStep == ASSUME Held, SendStart, Elsewhere PROVE Inv'
<1>1. /\ ~asking /\ startPending /\ authenticated /\ active /\ chime.at = "off" /\ CanQueue
      /\ asking' = TRUE /\ SendJson(Msg("session.start"))
      /\ UNCHANGED <<link, authVars, flagVars, gateway, toDevice, toGateway, chime>>
  BY Zenon DEF SendStart, Loop
<1>2. \A k : /\ InFlight(k)' <=> InFlight(k) \/ k = "session.start"
             /\ OnlyOne(k) /\ ~(k = "session.start" /\ InFlight(k)) => OnlyOne(k)'
             /\ k # "session.start" => \A a : Ahead(a, k)' => Ahead(a, k)
  BY <1>1, CommandFlow
<1>3. AnswersStay
  BY <1>1, SameAnswers
<1>4. Settling'
  BY <1>1, <1>2, <1>3 DEF Inv, Settling, LinkInv, AuthInv, ChimeInv
<1>5. Apart' => TurnInv'
  <2> SUFFICES ASSUME Apart' PROVE TurnInv'
    OBVIOUS
  <2>1. TurnInv /\ Unasked /\ ~Coming("session.ended") /\ OnlyOne("session.start")'
    <3>1. TurnInv
      BY <1>1 DEF Inv
    <3>2. OnlyOne("session.start")
      BY <3>1, <1>1 DEF TurnInv, OnlyOne, InFlight, Has, Lone
    <3> QED BY <1>1, <1>2, <3>1, <3>2 DEF TurnInv
  <2> QED BY <1>1, <1>2, <1>3, <2>1 DEF TurnInv
<1>6. Apart' => ReadyInv'
  BY <1>1, <1>2, <1>3 DEF Inv, ReadyInv
<1> QED BY <1>4, <1>5, <1>6 DEF Inv

LEMMA AskedStep == ASSUME Held, StartSent, Elsewhere PROVE Inv'
<1>1. /\ asking /\ asking' = FALSE /\ streamReady' = TRUE /\ startPending' = FALSE
      /\ UNCHANGED <<link, authVars, active, waiting, signalled, gateway, control, toDevice,
                     toGateway, chime>>
  BY Zenon DEF StartSent
<1>2. CommandsStay /\ AnswersStay
  BY <1>1, SameFlow, SameAnswers
<1>3. Settling'
  BY <1>1, <1>2 DEF Inv, Settling, LinkInv, AuthInv, ChimeInv
<1>4. Apart' => TurnInv'
  BY <1>1, <1>2 DEF Inv, Settling, ChimeInv, TurnInv
<1>5. Apart' => ReadyInv'
  BY <1>1, <1>2 DEF Inv, ReadyInv
<1> QED BY <1>3, <1>4, <1>5 DEF Inv

\* The microphone and the frames.
LEMMA FrameStep ==
  ASSUME Held, Elsewhere,
         MicStep \/ TakeFrame \/ NothingCaptured \/ SendFrame
  PROVE  Inv'
<1>1. UNCHANGED <<link, authVars, flagVars, asking, gateway, toDevice, control, chime>>
  BY Zenon DEF MicStep, MicCallback, AppendSample, TakeFrame, NothingCaptured, SendFrame
<1>2. CASE SendFrame
  <2>1. \A k \in {"auth", "session.start", "session.stop", "ready.detected"} :
           /\ InFlight(k)' <=> InFlight(k)
           /\ OnlyOne(k) => OnlyOne(k)'
           /\ \A a : Ahead(a, k)' => Ahead(a, k) \/ a = "audio"
    BY <1>2, FrameFlow
  <2>2. Connected
    BY <1>2, Zenon DEF SendFrame
  <2> QED BY <1>1, <2>1, <2>2, QuietStep DEF Inv, Settling, ChimeInv
<1>3. CASE ~SendFrame
  <2>1. UNCHANGED toGateway
    BY <1>3, Zenon DEF MicStep, MicCallback, AppendSample, TakeFrame, NothingCaptured
  <2> QED BY <1>1, <2>1, SameFlow, QuietStep DEF Inv, Settling, ChimeInv
<1> QED BY <1>2, <1>3

\* The sender.
LEMMA SenderStepKeeps == ASSUME Held, SendControl, Elsewhere PROVE Inv'
<1>1. /\ UNCHANGED <<link, authVars, flagVars, asking, gateway, toDevice, chime>>
      /\ toGateway' = toGateway \/ Connected
  BY Zenon DEF SendControl
<1>2. \A k : /\ InFlight(k)' => InFlight(k)
             /\ k = "session.stop" /\ Connected /\ k \notin lost' =>
                  (InFlight(k)' <=> InFlight(k))
             /\ OnlyOne(k) => OnlyOne(k)'
             /\ \A a : Ahead(a, k)' => Ahead(a, k)
  BY SentFlow
<1>3. AnswersStay
  BY <1>1, SameAnswers
<1>4. Settling'
  BY <1>1, <1>2, <1>3 DEF Inv, Settling, LinkInv, AuthInv, ChimeInv
<1>5. gateway # "off" => Connected
  BY Places DEF Inv, Settling, LinkInv
<1>6. Apart' => TurnInv'
  <2>1. Apart' => "session.stop" \notin lost'
    BY DEF Apart
  <2> QED BY <1>1, <1>2, <1>3, <1>5, <2>1 DEF Inv, TurnInv
<1>7. Apart' => ReadyInv'
  BY <1>1, <1>2, <1>3 DEF Inv, ReadyInv
<1> QED BY <1>4, <1>6, <1>7 DEF Inv

LEMMA FailStep == ASSUME Held, SendFails, Elsewhere PROVE Inv'
<1>1. /\ ~Connected /\ streamReady' = FALSE
      /\ UNCHANGED <<link, authVars, startPending, active, waiting, signalled, asking, gateway,
                     control, toDevice, toGateway, chime>>
  BY Zenon DEF SendFails
<1>2. CommandsStay /\ AnswersStay
  BY <1>1, SameFlow, SameAnswers
<1>3. Settling'
  BY <1>1, <1>2 DEF Inv, Settling, LinkInv, AuthInv, ChimeInv
<1>4. gateway = "off"
  BY <1>1, Places DEF Inv, Settling, LinkInv
<1>5. Apart' => TurnInv'
  BY <1>1, <1>2, <1>4 DEF Inv, TurnInv
<1>6. Apart' => ReadyInv'
  BY <1>1, <1>2 DEF Inv, ReadyInv
<1> QED BY <1>3, <1>5, <1>6 DEF Inv


\* The connection is there, or gone, as the device sees it.
LEMMA ConnectedStep == ASSUME Held, HandleConnected, Elsewhere PROVE Inv'
<1>1. /\ link = "opening" /\ link' = "up" /\ control' = <<>> /\ ~authenticated'
      /\ UNCHANGED <<flagVars, asking, gateway, toDevice, toGateway, chime>>
  BY Zenon DEF HandleConnected
<1>2. CommandsLost
  BY <1>1, LostFlow
<1>3. AnswersStay
  BY <1>1, SameAnswers
<1>4. ~waiting /\ gateway = "off" /\ ~InFlight("auth") /\ ~Coming("auth.ok")
  BY <1>1 DEF Inv, Settling, LinkInv
<1>5. /\ ~InFlight("session.start") /\ ~Coming("session.started") /\ ~Coming("session.ended")
  BY <1>1 DEF Inv, Settling, LinkInv
<1>6. Settling'
  BY <1>1, <1>2, <1>3, <1>4, <1>5 DEF Inv, Settling, LinkInv, AuthInv, ChimeInv
<1>7. Apart' => TurnInv'
  BY <1>1, <1>2, <1>3, <1>4, <1>5 DEF Inv, TurnInv
<1>8. Apart' => ReadyInv'
  BY <1>1, <1>2, <1>3, <1>4, <1>5 DEF Inv, ReadyInv
<1> QED BY <1>6, <1>7, <1>8 DEF Inv

LEMMA DisconnectedStep == ASSUME Held, HandleDisconnected, Elsewhere PROVE Inv'
<1>1. /\ link = "closing" /\ link' = "down" /\ control' = <<>> /\ ~authenticated' /\ ~authPending'
      /\ startPending' = FALSE /\ NotStreaming /\ FlushPlayback
      /\ UNCHANGED <<active, asking, gateway, toDevice, toGateway>>
  BY Zenon DEF HandleDisconnected
<1>2. gateway = "off" /\ toGateway = <<>> /\ toDevice = <<>>
  BY <1>1 DEF Inv, Settling, LinkInv
<1>3. \A k : /\ ~InFlight(k)' /\ OnlyOne(k)' /\ \A a : ~Ahead(a, k)'
  BY <1>1, <1>2, HasNothing DEF InFlight, OnlyOne, Ahead
<1>4. \A a : ~Coming(a)' /\ ComingOnce(a)' /\ \A b : ~ComingBefore(a, b)'
  BY <1>1, <1>2 DEF Coming, ComingOnce, ComingBefore
<1>5. Settling'
  BY <1>1, <1>2, <1>3, <1>4 DEF Settling, LinkInv, AuthInv, ChimeInv
<1>6. TurnInv' /\ ReadyInv'
  BY <1>1, <1>2, <1>3, <1>4 DEF TurnInv, ReadyInv
<1> QED BY <1>5, <1>6 DEF Inv

\* A report of the volume is none of the commands the session is made of.
LEMMA ReportFlow ==
  ASSUME SessionTypeOK, UNCHANGED toGateway,
         SendJson(Report) \/ \E up \in BOOLEAN : SendJson(Msg(IF up THEN "volume.up" ELSE "volume.off"))
  PROVE  \A k : k \notin {"volume.up", "volume.off"} =>
               /\ InFlight(k)' <=> InFlight(k)
               /\ OnlyOne(k) => OnlyOne(k)'
               /\ \A a : Ahead(a, k)' => Ahead(a, k)
<1>1. SendJson(Msg("volume.up")) \/ SendJson(Msg("volume.off"))
  BY Zenon DEF Report
<1> QED BY <1>1, CommandFlow

\* The gateway's answers, one by one.
LEMMA AuthOkStep == ASSUME Held, ReceiveAuthOk, Elsewhere PROVE Inv'
<1>1. /\ Receive("auth.ok") /\ link = "up" /\ authenticated' /\ SendJson(Report)
      /\ startPending' = (active \/ startPending)
      /\ UNCHANGED <<link, authPending, active, streamReady, waiting, signalled, asking, gateway,
                     toGateway, chime>>
  BY Zenon DEF ReceiveAuthOk, Receive
<1>2. \A k : k \notin {"volume.up", "volume.off"} =>
               /\ InFlight(k)' <=> InFlight(k)
               /\ OnlyOne(k) => OnlyOne(k)'
               /\ \A a : Ahead(a, k)' => Ahead(a, k)
  BY <1>1, ReportFlow
<1>3. Received("auth.ok")
  BY <1>1, ReceivedFlow
<1>4. /\ ~authenticated /\ ~authPending /\ ~InFlight("auth") /\ ComingOnce("auth.ok")
      /\ gateway = "off" /\ ~InFlight("session.start") /\ ~Coming("session.started")
      /\ ~Coming("session.ended")
  BY <1>3 DEF Inv, Settling, LinkInv, AuthInv
<1>5. Settling'
  BY <1>1, <1>2, <1>3, <1>4 DEF Inv, Settling, LinkInv, AuthInv, ChimeInv
<1>6. Apart' => TurnInv'
  BY <1>1, <1>2, <1>3, <1>4 DEF Inv, TurnInv
<1>7. Apart' => ReadyInv'
  BY <1>1, <1>2, <1>3 DEF Inv, ReadyInv
<1> QED BY <1>5, <1>6, <1>7 DEF Inv

LEMMA StartedStep == ASSUME Held, ReceiveStarted, Elsewhere PROVE Inv'
<1>1. /\ Receive("session.started") /\ link = "up" /\ streamReady' /\ ~waiting'
      /\ UNCHANGED <<link, authVars, startPending, active, asking, gateway, control, toGateway,
                     chime>>
  BY Zenon DEF ReceiveStarted, Receive
<1>2. CommandsStay
  BY <1>1, SameFlow
<1>3. Received("session.started")
  BY <1>1, ReceivedFlow
<1>4. Settling'
  BY <1>1, <1>2, <1>3 DEF Inv, Settling, LinkInv, AuthInv, ChimeInv
<1>5. Apart' => TurnInv'
  BY <1>1, <1>2, <1>3 DEF Inv, TurnInv
<1>6. Apart' => ReadyInv'
  BY <1>1, <1>2, <1>3 DEF Inv, ReadyInv
<1> QED BY <1>4, <1>5, <1>6 DEF Inv

LEMMA EndedStep == ASSUME Held, ReceiveEnded, Elsewhere PROVE Inv'
<1>1. /\ Receive("session.ended") /\ link = "up" /\ active' = FALSE /\ NotStreaming /\ FlushPlayback
      /\ UNCHANGED <<link, authVars, startPending, asking, gateway, control, toGateway>>
  BY Zenon DEF ReceiveEnded, Receive
<1>2. CommandsStay
  BY <1>1, SameFlow
<1>3. Received("session.ended")
  BY <1>1, ReceivedFlow
<1>4. Settling'
  BY <1>1, <1>2, <1>3 DEF Inv, Settling, LinkInv, AuthInv, ChimeInv
<1>5. Apart' => TurnInv'
  BY <1>1, <1>2, <1>3 DEF Inv, TurnInv
<1>6. Apart' => ReadyInv'
  <2> SUFFICES ASSUME Apart' PROVE ReadyInv'
    OBVIOUS
  <2>1. ReadyInv /\ ~Coming("keyword.ready")'
    BY <1>1, <1>3 DEF Inv, ReadyInv
  <2> QED BY <1>1, <1>2, <1>3, <2>1 DEF ReadyInv
<1> QED BY <1>4, <1>5, <1>6 DEF Inv

LEMMA KeywordStep ==
  ASSUME Held, NEW on \in BOOLEAN, ReceiveKeyword(on), Elsewhere PROVE Inv'
<1> DEFINE word == IF on THEN "keyword.ready" ELSE "keyword.wake"
<1>1. /\ Receive(word) /\ link = "up" /\ waiting' = on /\ signalled' = FALSE
      /\ UNCHANGED <<link, authVars, startPending, active, streamReady, asking, gateway, control,
                     toGateway, chime>>
  BY Zenon DEF ReceiveKeyword, Receive
<1>2. CommandsStay
  BY <1>1, SameFlow
<1>3. Received(word)
  <2> HIDE DEF word
  <2> QED BY <1>1, ReceivedFlow
<1>4. Settling'
  BY <1>1, <1>2, <1>3 DEF Inv, Settling, LinkInv, AuthInv, ChimeInv
<1>5. Apart' => TurnInv'
  BY <1>1, <1>2, <1>3 DEF Inv, TurnInv
<1>6. Apart' => ReadyInv'
  BY <1>1, <1>2, <1>3 DEF Inv, ReadyInv
<1> QED BY <1>4, <1>5, <1>6 DEF Inv

LEMMA VolumeStep ==
  ASSUME Held, NEW on \in BOOLEAN, ReceiveVolume(on), Elsewhere PROVE Inv'
<1> DEFINE word == IF on THEN "volume.up" ELSE "volume.off"
<1>1. /\ Receive(word) /\ link = "up" /\ SendJson(Msg(word))
      /\ UNCHANGED <<link, authVars, flagVars, asking, gateway, toGateway, chime>>
  BY Zenon DEF ReceiveVolume, SetRuntimeVolume, Receive
<1>2. \A k : k \notin {"volume.up", "volume.off"} =>
               /\ InFlight(k)' <=> InFlight(k)
               /\ OnlyOne(k) => OnlyOne(k)'
               /\ \A a : Ahead(a, k)' => Ahead(a, k)
  BY <1>1, ReportFlow
<1>3. Received(word)
  <2> HIDE DEF word
  <2> QED BY <1>1, ReceivedFlow
<1>4. Settling'
  BY <1>1, <1>2, <1>3 DEF Inv, Settling, LinkInv, AuthInv, ChimeInv
<1>5. Apart' => TurnInv'
  BY <1>1, <1>2, <1>3 DEF Inv, TurnInv
<1>6. Apart' => ReadyInv'
  BY <1>1, <1>2, <1>3 DEF Inv, ReadyInv
<1> QED BY <1>4, <1>5, <1>6 DEF Inv


\* The gateway reads the socket only while there is one.
LEMMA TakeUp ==
  ASSUME SessionTypeOK, Inv, NEW kind, Take(kind)
  PROVE  Connected /\ UNCHANGED <<link, authVars, flagVars, asking, chime, control>>
<1>1. toGateway # <<>> /\ UNCHANGED <<link, authVars, flagVars, asking, chime, control>>
  BY Zenon DEF Take
<1> QED BY <1>1, Places DEF Inv, Settling, LinkInv

\* What the gateway reads, one by one.
LEMMA GatewayAuthStep == ASSUME Held, GatewayAuth PROVE Inv'
<1>1. /\ Take("auth") /\ Say(<<"auth.ok">>) /\ UNCHANGED gateway
  BY Zenon DEF GatewayAuth
<1>2. Connected /\ UNCHANGED <<link, authVars, flagVars, asking, chime, control>>
  BY <1>1, TakeUp
<1>3. Taken("auth")
  BY <1>1, TakenFlow
<1>4. Said("auth.ok")
  BY <1>1, SaidOne DEF Answers
<1>5. ~authenticated /\ ~authPending /\ ~Coming("auth.ok") /\ link = "up" /\ OnlyOne("auth")
  BY <1>2, <1>3 DEF Inv, Settling, LinkInv, AuthInv
<1>6. Settling'
  BY <1>1, <1>2, <1>3, <1>4, <1>5 DEF Inv, Settling, LinkInv, AuthInv, ChimeInv
<1>7. Apart' => TurnInv'
  BY <1>1, <1>2, <1>3, <1>4 DEF Inv, TurnInv
<1>8. Apart' => ReadyInv'
  BY <1>1, <1>2, <1>3, <1>4 DEF Inv, ReadyInv
<1> QED BY <1>6, <1>7, <1>8 DEF Inv

LEMMA GatewayStartStep == ASSUME Held, GatewayStart PROVE Inv'
<1>1. /\ Take("session.start") /\ UNCHANGED toDevice
      /\ \/ gateway = "off" /\ gateway' = "opening"
         \/ gateway # "off" /\ gateway' = gateway
  BY Zenon DEF GatewayStart
<1>2. Connected /\ UNCHANGED <<link, authVars, flagVars, asking, chime, control>>
  BY <1>1, TakeUp
<1>3. Taken("session.start")
  BY <1>1, TakenFlow
<1>4. AnswersStay
  BY <1>1, SameAnswers
<1>5. authenticated
  BY <1>3 DEF Inv, Settling, LinkInv
<1>6. Settling'
  BY <1>1, <1>2, <1>3, <1>4, <1>5 DEF Inv, Settling, LinkInv, AuthInv, ChimeInv
<1>7. ASSUME Apart'
      PROVE  /\ TurnInv /\ ReadyInv /\ gateway = "off" /\ gateway' = "opening" /\ active
             /\ streamReady \/ asking
             /\ ~InFlight("session.start")' /\ ~Coming("session.ended")
  <2>1. TurnInv /\ ReadyInv
    BY <1>2, <1>7 DEF Inv
  <2> QED BY <1>1, <1>2, <1>3, <2>1 DEF TurnInv
<1>8. Apart' => TurnInv'
  BY <1>1, <1>2, <1>3, <1>4, <1>7 DEF TurnInv
<1>9. Apart' => ReadyInv'
  <2> SUFFICES ASSUME Apart' PROVE ReadyInv'
    OBVIOUS
  <2>1. ~InFlight("ready.detected")' /\ ~Coming("keyword.ready") /\ ~(waiting /\ ~signalled)
    BY <1>2, <1>3, <1>7 DEF ReadyInv
  <2> QED BY <1>2, <1>3, <1>4, <1>7, <2>1 DEF ReadyInv
<1> QED BY <1>6, <1>8, <1>9 DEF Inv

LEMMA GatewayStopStep == ASSUME Held, GatewayStop PROVE Inv'
<1>1. /\ Take("session.stop")
      /\ \/ /\ gateway \in {"off", "opening", "orphan", "switching", "closing"}
            /\ UNCHANGED <<gateway, toDevice>>
         \/ /\ gateway = "opening" /\ gateway' = "orphan"
            /\ Say(<<"keyword.wake", "session.ended">>)
         \/ /\ gateway \in {"on", "waiting", "switching"} /\ gateway' = "closing"
            /\ UNCHANGED toDevice
  BY Zenon DEF GatewayStop
<1>2. Connected /\ UNCHANGED <<link, authVars, flagVars, asking, chime, control>>
  BY <1>1, TakeUp
<1>3. Taken("session.stop")
  BY <1>1, TakenFlow
<1>4. ASSUME Apart' PROVE TurnInv /\ ReadyInv /\ gateway \notin {"opening", "orphan", "switching"}
  <2>1. TurnInv /\ ReadyInv
    BY <1>2, <1>4 DEF Inv
  <2> QED BY <1>3, <2>1 DEF TurnInv
<1>5. authenticated \/ gateway = "off"
  BY DEF Inv, Settling, LinkInv
<1>6. CASE UNCHANGED toDevice
  <2>1. gateway' = gateway \/ (gateway \in {"on", "waiting", "switching"} /\ gateway' = "closing")
    <3>1. ~Say(<<"keyword.wake", "session.ended">>)
      <4>1. toDevice \in Seq(Answers)
        BY TypeParts DEF QueuesOK
      <4> QED BY <1>6, <4>1 DEF Say
    <3> QED BY <1>1, <3>1
  <2>2. Apart' => gateway' \in {"off", "closing"} /\ (gateway' = "off" => gateway = "off")
                  /\ (gateway = "off" => gateway' = "off")
    BY <1>1, <1>4, <2>1, Places
  <2>3. AnswersStay
    BY <1>6, SameAnswers
  <2>4. LinkInv'
    BY <1>2, <1>3, <1>5, <2>1, <2>3 DEF Inv, Settling, LinkInv
  <2>5. AuthInv' /\ ChimeInv'
    BY <1>2, <1>3, <2>3 DEF Inv, Settling, AuthInv, ChimeInv
  <2>6. Apart' => TurnInv'
    BY <1>2, <1>3, <1>4, <2>1, <2>2, <2>3 DEF TurnInv
  <2>7. Apart' => ReadyInv'
    BY <1>2, <1>3, <1>4, <2>1, <2>2, <2>3 DEF ReadyInv, TurnInv
  <2> QED BY <2>4, <2>5, <2>6, <2>7 DEF Inv, Settling
<1>7. CASE gateway = "opening" /\ gateway' = "orphan" /\ Say(<<"keyword.wake", "session.ended">>)
  <2>1. SaidBoth("keyword.wake", "session.ended")
    BY <1>7, SaidTwo DEF Answers
  <2>2. LinkInv'
    BY <1>2, <1>3, <1>5, <1>7, <2>1 DEF Inv, Settling, LinkInv
  <2>3. AuthInv' /\ ChimeInv'
    BY <1>2, <1>3, <2>1 DEF Inv, Settling, AuthInv, ChimeInv
  <2> QED BY <1>4, <1>7, <2>2, <2>3 DEF Inv, Settling
<1> QED BY <1>1, <1>6, <1>7

\* Frames and reports: the session does not turn on them.
LEMMA GatewayReadsOn ==
  ASSUME Held, GatewayAudio \/ GatewayReport PROVE Inv'
<1>1. PICK kind \in {"audio", "state", "volume.up", "volume.off"} : Take(kind)
  BY Zenon DEF GatewayAudio, GatewayReport
<1>2. UNCHANGED <<gateway, toDevice>>
  BY Zenon DEF GatewayAudio, GatewayReport
<1>3. Connected /\ UNCHANGED <<link, authVars, flagVars, asking, chime, control>>
  BY <1>1, TakeUp
<1>4. \A k \in {"auth", "session.start", "session.stop", "ready.detected"} :
           /\ InFlight(k)' <=> InFlight(k)
           /\ OnlyOne(k) => OnlyOne(k)'
           /\ \A a : Ahead(a, k)' => Ahead(a, k)
  BY <1>1, TakenFlow
<1> QED BY <1>2, <1>3, <1>4, QuietStep DEF Inv, Settling, ChimeInv

LEMMA GatewayReadyStep == ASSUME Held, GatewayReady PROVE Inv'
<1>1. /\ Take("ready.detected")
      /\ \/ gateway = "waiting" /\ gateway' = "on" /\ Say(<<"keyword.wake">>)
         \/ gateway # "waiting" /\ gateway' = gateway /\ UNCHANGED toDevice
  BY Zenon DEF GatewayReady
<1>2. Connected /\ UNCHANGED <<link, authVars, flagVars, asking, chime, control>>
  BY <1>1, TakeUp
<1>3. Taken("ready.detected")
  BY <1>1, TakenFlow
<1>4. \A a : /\ a # "keyword.wake" => (Coming(a)' <=> Coming(a))
             /\ a # "keyword.wake" => (ComingOnce(a) => ComingOnce(a)')
             /\ \A b : b # "keyword.wake" => (ComingBefore(a, b)' => ComingBefore(a, b))
  <2>1. CASE UNCHANGED toDevice
    BY <2>1, SameAnswers
  <2>2. CASE Say(<<"keyword.wake">>)
    BY <2>2, SaidOne DEF Answers
  <2> QED BY <1>1, <2>1, <2>2
<1>5. Settling'
  BY <1>1, <1>2, <1>3, <1>4 DEF Inv, Settling, LinkInv, AuthInv, ChimeInv
<1>6. Apart' => TurnInv'
  BY <1>1, <1>2, <1>3, <1>4 DEF Inv, TurnInv
<1>7. Apart' => ReadyInv'
  <2> SUFFICES ASSUME Apart' PROVE ReadyInv'
    OBVIOUS
  <2>1. ReadyInv /\ ~Coming("keyword.ready") /\ ~(waiting /\ ~signalled)
    BY <1>2, <1>3 DEF Inv, ReadyInv
  <2> QED BY <1>2, <1>3, <1>4, <2>1 DEF ReadyInv
<1> QED BY <1>5, <1>6, <1>7 DEF Inv


\* What the gateway does of its own accord, it does on a connection; the session it has
\* was authenticated for.
LEMMA ActsUp ==
  ASSUME SessionTypeOK, Inv, Acts
  PROVE  /\ Connected /\ CommandsStay
         /\ UNCHANGED <<link, authVars, flagVars, asking, chime, control, toGateway>>
         /\ gateway # "off" => authenticated
<1>1. Connected /\ UNCHANGED <<link, authVars, flagVars, asking, chime, control, toGateway>>
  BY Zenon DEF Acts
<1> QED BY <1>1, SameFlow DEF Inv, Settling, LinkInv

\* While it has a session and none was crossed, no start is under way and no end on its
\* way; a ready word is only what it waits for, or closes over.
LEMMA HeldApart ==
  ASSUME Inv, Apart, gateway # "off"
  PROVE  /\ TurnInv /\ ReadyInv /\ gateway # "orphan"
         /\ ~(startPending /\ ~asking) /\ ~InFlight("session.start") /\ chime.at = "off"
         /\ ~Coming("session.ended")
         /\ gateway \in {"opening", "on", "switching"} /\ link # "closing" =>
              ~(waiting /\ ~signalled) /\ ~Coming("keyword.ready") /\ ~InFlight("ready.detected")
<1>1. TurnInv /\ ReadyInv
  BY DEF Inv
<1>2. /\ gateway # "orphan" /\ ~(startPending /\ ~asking) /\ ~InFlight("session.start")
      /\ chime.at = "off" /\ ~Coming("session.ended")
  BY <1>1 DEF TurnInv
<1> QED BY <1>1, <1>2 DEF ReadyInv

LEMMA GatewayOpenedStep == ASSUME Held, GatewayOpened PROVE Inv'
<1>1. /\ Acts /\ gateway \in {"opening", "switching", "orphan"}
      /\ gateway' = (IF gateway = "orphan" THEN "off" ELSE "on")
      /\ Say(<<"session.started", "keyword.wake">>) 
  BY Zenon DEF GatewayOpened
<1>2. /\ Connected /\ authenticated /\ CommandsStay
      /\ UNCHANGED <<link, authVars, flagVars, asking, chime, control, toGateway>>
  BY <1>1, ActsUp
<1>3. SaidBoth("session.started", "keyword.wake")
  BY <1>1, SaidTwo DEF Answers
<1>4. Settling'
  BY <1>2, <1>3 DEF Inv, Settling, LinkInv, AuthInv, ChimeInv
<1>5. ASSUME Apart'
      PROVE  /\ TurnInv /\ ReadyInv /\ gateway' = "on" /\ gateway \in {"opening", "switching"}
             /\ ~(startPending /\ ~asking) /\ ~InFlight("session.start") /\ chime.at = "off"
             /\ ~Coming("session.ended") /\ ~(waiting /\ ~signalled)
             /\ ~Coming("keyword.ready") /\ ~InFlight("ready.detected")
  BY <1>1, <1>2, <1>5, HeldApart DEF Apart
<1>6. Apart' => TurnInv'
  BY <1>2, <1>3, <1>5 DEF TurnInv
<1>7. Apart' => ReadyInv'
  BY <1>2, <1>3, <1>5 DEF ReadyInv
<1> QED BY <1>4, <1>6, <1>7 DEF Inv

LEMMA GatewayFailsStep == ASSUME Held, GatewayFails PROVE Inv'
<1>1. /\ Acts /\ gateway \in {"opening", "switching", "orphan"} /\ gateway' = "off"
      /\ UNCHANGED <<toDevice>>
  BY Zenon DEF GatewayFails
<1>2. /\ Connected /\ authenticated /\ CommandsStay
      /\ UNCHANGED <<link, authVars, flagVars, asking, chime, control, toGateway>>
  BY <1>1, ActsUp
<1>3. AnswersStay
  BY <1>1, SameAnswers
<1>4. Settling'
  BY <1>1, <1>2, <1>3 DEF Inv, Settling, LinkInv, AuthInv, ChimeInv
<1>5. ASSUME Apart'
      PROVE  /\ TurnInv /\ ReadyInv /\ ~(startPending /\ ~asking) /\ ~InFlight("session.start")
             /\ chime.at = "off" /\ ~(waiting /\ ~signalled)
             /\ ~Coming("keyword.ready") /\ ~InFlight("ready.detected")
  BY <1>1, <1>2, <1>5, HeldApart DEF Apart
<1>6. Apart' => TurnInv'
  BY <1>1, <1>2, <1>3, <1>5 DEF TurnInv
<1>7. Apart' => ReadyInv'
  BY <1>1, <1>2, <1>3, <1>5 DEF ReadyInv
<1> QED BY <1>4, <1>6, <1>7 DEF Inv

LEMMA GatewayClosesStep == ASSUME Held, GatewayCloses PROVE Inv'
<1>1. /\ Acts /\ gateway = "closing" /\ gateway' = "off"
      /\ Say(<<"keyword.wake", "session.ended">>) 
  BY Zenon DEF GatewayCloses
<1>2. /\ Connected /\ authenticated /\ CommandsStay
      /\ UNCHANGED <<link, authVars, flagVars, asking, chime, control, toGateway>>
  BY <1>1, ActsUp
<1>3. SaidBoth("keyword.wake", "session.ended")
  BY <1>1, SaidTwo DEF Answers
<1>4. Settling'
  BY <1>1, <1>2, <1>3 DEF Inv, Settling, LinkInv, AuthInv, ChimeInv
<1>5. ASSUME Apart'
      PROVE  /\ TurnInv /\ ReadyInv /\ ~(startPending /\ ~asking) /\ ~InFlight("session.start")
             /\ chime.at = "off"
  BY <1>1, <1>5, HeldApart DEF Apart
<1>6. Apart' => TurnInv'
  BY <1>1, <1>2, <1>3, <1>5 DEF TurnInv
<1>7. Apart' => ReadyInv'
  BY <1>1, <1>2, <1>3, <1>5 DEF ReadyInv
<1> QED BY <1>4, <1>6, <1>7 DEF Inv

LEMMA GatewayEndsStep == ASSUME Held, GatewayEnds PROVE Inv'
<1>1. /\ Acts /\ gateway \in {"on", "waiting"} /\ gateway' = "closing"
      /\ UNCHANGED <<toDevice>>
  BY Zenon DEF GatewayEnds
<1>2. /\ Connected /\ authenticated /\ CommandsStay
      /\ UNCHANGED <<link, authVars, flagVars, asking, chime, control, toGateway>>
  BY <1>1, ActsUp
<1>3. AnswersStay
  BY <1>1, SameAnswers
<1>4. Settling'
  BY <1>1, <1>2, <1>3 DEF Inv, Settling, LinkInv, AuthInv, ChimeInv
<1>5. ASSUME Apart'
      PROVE  /\ TurnInv /\ ReadyInv /\ ~(startPending /\ ~asking) /\ ~InFlight("session.start")
             /\ chime.at = "off" /\ ~Coming("session.ended")
  BY <1>1, <1>5, HeldApart DEF Apart
<1>6. Apart' => TurnInv'
  BY <1>1, <1>2, <1>3, <1>5 DEF TurnInv
<1>7. Apart' => ReadyInv'
  BY <1>1, <1>2, <1>3, <1>5 DEF ReadyInv
<1> QED BY <1>4, <1>6, <1>7 DEF Inv

LEMMA GatewayWaitsStep == ASSUME Held, GatewayWaits PROVE Inv'
<1>1. /\ Acts /\ gateway = "on" /\ gateway' = "waiting" /\ Say(<<"keyword.ready">>)
      
  BY Zenon DEF GatewayWaits
<1>2. /\ Connected /\ authenticated /\ CommandsStay
      /\ UNCHANGED <<link, authVars, flagVars, asking, chime, control, toGateway>>
  BY <1>1, ActsUp
<1>3. Said("keyword.ready")
  BY <1>1, SaidOne DEF Answers
<1>4. Settling'
  BY <1>1, <1>2, <1>3 DEF Inv, Settling, LinkInv, AuthInv, ChimeInv
<1>5. ASSUME Apart'
      PROVE  /\ TurnInv /\ ReadyInv /\ ~(startPending /\ ~asking) /\ ~InFlight("session.start")
             /\ chime.at = "off" /\ ~Coming("session.ended") /\ ~(waiting /\ ~signalled)
             /\ ~Coming("keyword.ready") /\ ~InFlight("ready.detected")
  BY <1>1, <1>2, <1>5, HeldApart DEF Apart
<1>6. Apart' => TurnInv'
  BY <1>1, <1>2, <1>3, <1>5 DEF TurnInv
<1>7. ASSUME Apart' PROVE ReadyInv'
  <2>1. ComingOnce("keyword.ready")' /\ ~ComingBefore("session.ended", "keyword.ready")'
    BY <1>3, <1>5, <1>7, AheadIs DEF ReadyInv
  <2> QED BY <1>1, <1>2, <1>5, <1>7, <2>1 DEF ReadyInv
<1> QED BY <1>4, <1>6, <1>7 DEF Inv

\* A switch of projects that meets a stop is crossed: apart, the session goes on.
LEMMA GatewaySwitchesStep == ASSUME Held, GatewaySwitches PROVE Inv'
<1>1. /\ Acts /\ gateway = "on" /\ gateway' = "switching" /\ Say(<<"keyword.wake">>)
      /\ crossed' = crossed \cup (IF Asked({"session.stop"}) THEN {"switch"} ELSE {})
  BY Zenon DEF GatewaySwitches
<1>2. /\ Connected /\ authenticated /\ CommandsStay
      /\ UNCHANGED <<link, authVars, flagVars, asking, chime, control, toGateway>>
  BY <1>1, ActsUp
<1>3. Said("keyword.wake")
  BY <1>1, SaidOne DEF Answers
<1>4. Settling'
  BY <1>1, <1>2, <1>3 DEF Inv, Settling, LinkInv, AuthInv, ChimeInv
<1>5. ASSUME Apart' PROVE Apart /\ ~InFlight("session.stop")
  <2>1. Apart /\ ~Asked({"session.stop"})
    BY <1>1, <1>5 DEF Apart
  <2> QED BY <2>1 DEF Asked, InFlight, Has
<1>6. ASSUME Apart'
      PROVE  /\ TurnInv /\ ReadyInv /\ ~(startPending /\ ~asking) /\ ~InFlight("session.start")
             /\ chime.at = "off" /\ ~Coming("session.ended") /\ ~(waiting /\ ~signalled)
             /\ ~Coming("keyword.ready") /\ ~InFlight("ready.detected") /\ ~InFlight("session.stop")
  BY <1>1, <1>2, <1>5, <1>6, HeldApart
<1>7. Apart' => TurnInv'
  BY <1>1, <1>2, <1>3, <1>6 DEF TurnInv
<1>8. Apart' => ReadyInv'
  BY <1>1, <1>2, <1>3, <1>6 DEF ReadyInv
<1> QED BY <1>4, <1>7, <1>8 DEF Inv

LEMMA GatewayVolumeStep == ASSUME Held, GatewaySetsVolume PROVE Inv'
<1>1. PICK level \in {"volume.up", "volume.off"} : Say(<<level>>)
  BY Zenon DEF GatewaySetsVolume
<1>2. /\ Connected /\ CommandsStay
      /\ UNCHANGED <<link, authVars, flagVars, asking, chime, control, toGateway>>
      /\ UNCHANGED <<gateway>>
  BY ActsUp, Zenon DEF GatewaySetsVolume
<1>3. Said(level)
  BY <1>1, SaidOne DEF Answers
<1>4. Settling'
  BY <1>2, <1>3 DEF Inv, Settling, LinkInv, AuthInv, ChimeInv
<1>5. Apart' => TurnInv'
  BY <1>2, <1>3 DEF Inv, TurnInv
<1>6. /\ \A a \in {"keyword.ready", "session.ended"} : Coming(a)' <=> Coming(a)
      /\ ComingOnce("keyword.ready") => ComingOnce("keyword.ready")'
      /\ ComingBefore("session.ended", "keyword.ready")' =>
           ComingBefore("session.ended", "keyword.ready")
  BY <1>1, <1>3
<1>7. Apart' => ReadyInv'
  BY <1>2, <1>6 DEF Inv, ReadyInv
<1> QED BY <1>4, <1>5, <1>7 DEF Inv

\* The connection is lost with what it carried; commands still queued go nowhere.
LEMMA LostStep == ASSUME Held, LinkLost PROVE Inv'
<1>1. /\ Connected /\ toGateway' = <<>> /\ toDevice' = <<>> /\ gateway' = "off"
      /\ link' = IF link = "opening" THEN "down" ELSE "closing"
      /\ UNCHANGED <<authVars, flagVars, asking, chime, control>>
  BY Zenon DEF LinkLost
<1>2. CommandsLost
  BY <1>1, LostFlow
<1>3. \A a : ~Coming(a)' /\ ComingOnce(a)' /\ \A b : ~ComingBefore(a, b)'
  BY <1>1 DEF Coming, ComingOnce, ComingBefore
<1>4. Settling'
  BY <1>1, <1>2, <1>3 DEF Inv, Settling, LinkInv, AuthInv, ChimeInv
<1>5. Apart' => TurnInv'
  BY <1>1, <1>2, <1>3 DEF Inv, TurnInv
<1>6. Apart' => ReadyInv'
  BY <1>1, <1>2, <1>3 DEF Inv, Settling, LinkInv, ReadyInv
<1> QED BY <1>4, <1>5, <1>6 DEF Inv

LEMMA OpensStep == ASSUME Held, LinkOpens PROVE Inv'
<1>1. /\ link = "down" /\ link' = "opening"
      /\ UNCHANGED <<authVars, flagVars, asking, chime, control, crossed, toGateway, toDevice,
                     gateway>>
  BY Zenon DEF LinkOpens
<1>2. CommandsStay /\ AnswersStay
  BY <1>1, SameFlow, SameAnswers
<1>3. ~InFlight("session.start")
  BY <1>1 DEF Inv, Settling, LinkInv
<1>4. Settling'
  BY <1>1, <1>2 DEF Inv, Settling, LinkInv, AuthInv, ChimeInv
<1>5. Apart' => TurnInv'
  BY <1>1, <1>2, <1>3 DEF Inv, TurnInv
<1>6. Apart' => ReadyInv'
  BY <1>1, <1>2 DEF Inv, ReadyInv
<1> QED BY <1>4, <1>5, <1>6 DEF Inv

\* Every step keeps it.
LEMMA InvStep == ASSUME SessionTypeOK, Inv, [Next]_vars PROVE Inv'
<1>0. Held
  BY ApartStays
<1>1. CASE User
  BY <1>0, <1>1, StartStep, StopStep, WordStep, MuteStep DEF User, UserStep
<1>2. CASE Tasks
  <2>1. Elsewhere
    BY <1>2, Zenon DEF Tasks
  <2>2. CASE LoopStep
    BY <1>0, <2>1, <2>2, AuthStep, ChimeQuiet, AskStep, AskedStep DEF LoopStep
  <2>3. CASE MicStep \/ SenderStep
    BY <1>0, <2>1, <2>3, FrameStep, SenderStepKeeps, FailStep DEF SenderStep
  <2>4. CASE WebSocketStep
    BY <1>0, <2>1, <2>4, ConnectedStep, DisconnectedStep, AuthOkStep, StartedStep, EndedStep,
       KeywordStep, VolumeStep DEF WebSocketStep
  <2> QED BY <1>2, <2>2, <2>3, <2>4 DEF Tasks
<1>3. CASE GatewayReads
  BY <1>0, <1>3, GatewayAuthStep, GatewayStartStep, GatewayStopStep, GatewayReadsOn,
     GatewayReadyStep DEF GatewayReads
<1>4. CASE GatewayStep /\ ~GatewayReads
  BY <1>0, <1>4, GatewayOpenedStep, GatewayFailsStep, GatewayClosesStep, GatewayEndsStep,
     GatewayWaitsStep, GatewaySwitchesStep, GatewayVolumeStep DEF GatewayStep
<1>5. CASE LinkLost \/ LinkOpens
  BY <1>0, <1>5, LostStep, OpensStep
<1>6. CASE UNCHANGED vars
  <2>1. UNCHANGED <<link, authVars, flagVars, asking, chime, gateway, toGateway, toDevice, control>>
    BY <1>6, Zenon DEF vars, deviceVars
  <2> QED BY <1>0, <2>1, SameFlow, QuietStep DEF Inv, Settling, ChimeInv
<1> QED BY <1>1, <1>2, <1>3, <1>4, <1>5, <1>6 DEF Next

\* It holds at first.
LEMMA InvInit == Init => Inv
  BY DEF Init, DeviceInit, Inv, Settling, LinkInv, AuthInv, ChimeInv, TurnInv, ReadyInv, InFlight,
     OnlyOne, Ahead, Has, Lone, Before, Coming, ComingOnce, ComingBefore


\* The invariant of every behaviour.
LEMMA InvAlways == Spec => []Inv
  BY SessionTypeCorrect, InvInit, InvStep, PTL DEF Spec

\* A session the gateway holds open is one the device takes part in, unless a start or a
\* stop met another, or a switch of projects, under way, or a stop was lost on a
\* connection that stayed: whatever connections and other messages were lost, and however
\* the gateway's own ends cross what the device asks for.
THEOREM SessionAlwaysAttended == Spec => []SessionIsAttended
<1>1. ASSUME SessionTypeOK, Inv, Unattended, Apart PROVE FALSE
  <2>1. TurnInv /\ control = <<>> /\ toGateway = <<>> /\ ~asking
    BY <1>1 DEF Inv, Unattended
  <2>2. ~InFlight("session.stop")
    BY <2>1, HasNothing DEF InFlight
  <2>3. gateway \in {"on", "waiting"} /\ ~(active /\ streamReady)
    BY <1>1 DEF Unattended
  <2> QED BY <2>1, <2>2, <2>3 DEF TurnInv
<1>2. SessionTypeOK /\ Inv => SessionIsAttended
  BY <1>1 DEF SessionIsAttended
<1> QED BY <1>2, SessionTypeCorrect, InvAlways, PTL

\* At most one ready word is on its way, however often it is said, unless a start or a
\* stop met another or a stop was lost: signalled is forgotten only with an answer of the gateway, which
\* has read the word by then or has closed the session the word was for.
THEOREM ReadyAlwaysOnce == Spec => []ReadyOnce
<1>1. ASSUME SessionTypeOK, Inv PROVE ReadyOnce
  <2> DEFINE all == control \o toGateway
  <2>1. /\ control \in Seq(Message) /\ toGateway \in Seq(Message)
    BY <1>1, TypeParts DEF QueuesOK
  <2>2. /\ DOMAIN control = 1 .. Len(control) /\ DOMAIN toGateway = 1 .. Len(toGateway)
        /\ Len(control) \in Nat /\ Len(toGateway) \in Nat
        /\ DOMAIN all = 1 .. Len(control) + Len(toGateway)
        /\ \A i \in DOMAIN control : all[i] = control[i]
        /\ \A i \in DOMAIN all \ DOMAIN control :
             i - Len(control) \in DOMAIN toGateway /\ all[i] = toGateway[i - Len(control)]
    BY <2>1
  <2> HIDE DEF all
  <2>3. ASSUME Apart, NEW i \in DOMAIN all, NEW j \in DOMAIN all,
               all[i].kind = "ready.detected", all[j].kind = "ready.detected"
        PROVE  i = j
    <3>1. OnlyOne("ready.detected")
      BY <1>1, <2>3 DEF Inv, ReadyInv
    <3>2. CASE i \in DOMAIN control /\ j \in DOMAIN control
      BY <2>2, <2>3, <3>1, <3>2 DEF OnlyOne, Lone
    <3>3. CASE i \notin DOMAIN control /\ j \notin DOMAIN control
      <4> DEFINE m == i - Len(control)
                 n == j - Len(control)
      <4>1. m \in DOMAIN toGateway /\ n \in DOMAIN toGateway /\ (m = n => i = j)
        BY <2>2, <2>3, <3>3
      <4>2. toGateway[m].kind = "ready.detected" /\ toGateway[n].kind = "ready.detected"
        BY <2>2, <2>3, <3>3
      <4> HIDE DEF m, n
      <4> QED BY <3>1, <4>1, <4>2 DEF OnlyOne, Lone
    <3>4. ASSUME NEW a \in DOMAIN all, NEW b \in DOMAIN all,
                 a \in DOMAIN control, b \notin DOMAIN control,
                 all[a].kind = "ready.detected", all[b].kind = "ready.detected"
          PROVE  FALSE
      <4>1. Has(control, "ready.detected")
        BY <2>2, <3>4 DEF Has
      <4>2. Has(toGateway, "ready.detected")
        BY <2>2, <3>4 DEF Has
      <4> QED BY <3>1, <4>1, <4>2 DEF OnlyOne
    <3> QED BY <2>3, <3>2, <3>3, <3>4
  <2> QED BY <2>3 DEF ReadyOnce, all
<1> QED BY <1>1, SessionTypeCorrect, InvAlways, PTL


-----------------------------------------------------------------------------
(* The chime's echo.                                                        *)

NoEcho(q) == \A i \in DOMAIN q : ~q[i].echo
EchoFree ==
  /\ NoEcho(sample) /\ NoEcho(building) /\ NoEcho(capture) /\ NoEcho(sending)
  /\ NoEcho(control) /\ NoEcho(toGateway)
EchoInv == Apart => EchoFree

\* A queue without echo stays one.
LEMMA NoEchoIs ==
  ASSUME NEW S, NEW q \in Seq(S), NoEcho(q)
  PROVE  /\ \A m \in S : ~m.echo => NoEcho(Append(q, m))
         /\ q # <<>> => NoEcho(Tail(q)) /\ ~Head(q).echo
         /\ NoEcho(<<>>)
  BY DEF NoEcho

\* Commands are no pickup of the chime.
LEMMA EchoQueued ==
  ASSUME SessionTypeOK, NoEcho(control),
         NEW kind \in {"auth", "session.start", "session.stop", "ready.detected", "state",
                       "volume.up", "volume.off"}, SendJson(Msg(kind))
  PROVE  NoEcho(control')
<1> DEFINE msg == Msg(kind)
<1>1. control \in Seq(Message) /\ msg \in Message /\ ~msg.echo
  BY TypeParts, MessageType DEF QueuesOK, Msg
<1>2. control' = control \/ control' = Append(control, msg)
  BY DEF SendJson
<1> HIDE DEF msg
<1> QED BY <1>1, <1>2, NoEchoIs

\* While a callback may capture, the chime is off: nothing of it was handed over.
LEMMA EchoCaptured == ASSUME SessionTypeOK, Inv, Apart, EchoFree, MicCallback PROVE EchoFree'
<1>1. UNCHANGED <<capture, sending, control, toGateway>> /\ (building' = building \/ building' = <<>>)
  BY Zenon DEF MicCallback
<1>2. NoEcho(sample')
  <2>1. CASE CaptureEnabled
    <3>1. chime.frames = 0
      BY <2>1 DEF Inv, TurnInv, Settling, ChimeInv, CaptureEnabled
    <3>2. ~Sounding
      BY <3>1 DEF Sounding
    <3>3. sample' = <<[kind |-> "audio", of |-> session, echo |-> Sounding]>>
      BY <2>1, Zenon DEF MicCallback
    <3> QED BY <3>2, <3>3 DEF NoEcho
  <2>2. CASE ~CaptureEnabled
    BY <2>2 DEF MicCallback, NoEcho
  <2> QED BY <2>1, <2>2
<1> QED BY <1>1, <1>2 DEF EchoFree, NoEcho

\* A frame echoes what one of its parts echoed.
LEMMA EchoAppended == ASSUME SessionTypeOK, EchoFree, AppendSample PROVE EchoFree'
<1> DEFINE all == building \o sample
           frame == [all[1] EXCEPT !.echo = \E i \in DOMAIN all : all[i].echo]
<1>1. sample \in Seq(Part) /\ building \in Seq(Part) /\ capture \in Seq(Part) /\ sample # <<>>
  BY TypeParts DEF AppendSample, QueuesOK
<1>2. NoEcho(all) /\ all \in Seq(Part) /\ all # <<>>
  BY <1>1 DEF EchoFree, NoEcho
<1>3. frame \in Part /\ ~frame.echo
  <2> HIDE DEF all
  <2>1. all[1] \in Part
    BY <1>2
  <2> QED BY <1>2, <2>1 DEF NoEcho, Part
<1>4. /\ sample' = <<>> /\ (building' = <<>> \/ building' = all)
      /\ capture' = capture \/ capture' = Append(capture, frame)
      /\ UNCHANGED <<sending, control, toGateway>>
  BY Zenon DEF AppendSample
<1> HIDE DEF all, frame
<1>5. NoEcho(capture')
  BY <1>1, <1>3, <1>4, NoEchoIs DEF EchoFree
<1> QED BY <1>2, <1>4, <1>5 DEF EchoFree, NoEcho

\* The sender carries what it was given.
LEMMA EchoSent == ASSUME SessionTypeOK, EchoFree, SenderStep PROVE EchoFree'
<1>1. /\ control \in Seq(Message) /\ capture \in Seq(Part) /\ toGateway \in Seq(Message)
      /\ sending \in Seq(Part) /\ Part \subseteq Message
  BY TypeParts, MessageType DEF QueuesOK
<1>2. UNCHANGED <<sample, building>>
  BY Zenon DEF SenderStep, SendControl, TakeFrame, NothingCaptured, SendFrame, SendFails
<1>3. CASE SendControl
  <2>1. /\ control # <<>> /\ control' = Tail(control) /\ UNCHANGED <<capture, sending>>
        /\ toGateway' = toGateway \/ toGateway' = Append(toGateway, Head(control))
    BY <1>3, Zenon DEF SendControl
  <2>2. Head(control) \in Message /\ NoEcho(control')
    BY <1>1, <2>1, NoEchoIs DEF EchoFree
  <2>3. NoEcho(toGateway')
    BY <1>1, <2>1, <2>2, NoEchoIs DEF EchoFree
  <2> QED BY <1>2, <2>1, <2>2, <2>3 DEF EchoFree
<1>4. CASE TakeFrame
  <2>1. /\ capture # <<>> /\ capture' = Tail(capture) /\ UNCHANGED <<control, toGateway>>
        /\ sending' = <<Head(capture)>> \/ sending' = <<>>
    BY <1>4, Zenon DEF TakeFrame
  <2>2. NoEcho(capture') /\ ~Head(capture).echo
    BY <1>1, <2>1, NoEchoIs DEF EchoFree
  <2>3. NoEcho(sending')
    BY <2>1, <2>2 DEF NoEcho
  <2> QED BY <1>2, <2>1, <2>2, <2>3 DEF EchoFree
<1>5. CASE SendFrame
  <2>1. /\ sending # <<>> /\ sending' = <<>> /\ UNCHANGED <<capture, control>>
        /\ toGateway' = toGateway \/ toGateway' = Append(toGateway, sending[1])
    BY <1>5 DEF SendFrame
  <2>2. sending[1] \in Message /\ ~sending[1].echo
    BY <1>1, <2>1 DEF EchoFree, NoEcho
  <2>3. NoEcho(toGateway')
    BY <1>1, <2>1, <2>2, NoEchoIs DEF EchoFree
  <2> QED BY <1>2, <2>1, <2>3 DEF EchoFree, NoEcho
<1>6. CASE NothingCaptured \/ SendFails
  <2>1. /\ sending' = sending \/ sending' = <<>>
        /\ capture' = capture \/ capture' = <<>>
        /\ UNCHANGED <<control, toGateway>>
    BY <1>6, Zenon DEF NothingCaptured, SendFails, ResetCapture
  <2> QED BY <1>2, <2>1 DEF EchoFree, NoEcho
<1> QED BY <1>3, <1>4, <1>5, <1>6 DEF SenderStep

\* No step lets the chime in.
LEMMA EchoStep == ASSUME SessionTypeOK, Inv, EchoInv, [Next]_vars PROVE EchoInv'
<1> SUFFICES ASSUME Apart' PROVE EchoFree'
  BY DEF EchoInv
<1>1. Apart
  BY ApartStays
<1>2. EchoFree
  BY <1>1 DEF EchoInv
<1>3. CASE UserStep
  <2>1. UNCHANGED <<sample, building, sending, toGateway>> /\ (capture' = capture \/ capture' = <<>>)
    BY <1>3, Zenon DEF UserStep, Wake, ButtonStart, StartSession, StopSession, ReadyDetected, Mute,
       Unmute, ResetCapture
  <2>2. \/ UNCHANGED control
        \/ \E kind \in {"session.stop", "ready.detected", "state"} : SendJson(Msg(kind))
    BY <1>3, Zenon DEF UserStep, Wake, ButtonStart, StopSession, ReadyDetected, Mute, Unmute
  <2>3. NoEcho(control')
    BY <1>2, <2>2, EchoQueued DEF EchoFree
  <2> QED BY <1>2, <2>1, <2>3 DEF EchoFree, NoEcho
<1>4. CASE LoopStep
  <2>1. UNCHANGED <<sample, building, sending, toGateway, capture>>
    BY <1>4, Zenon DEF LoopStep, SendAuth, SendStart, StartSent, ChimeRuns, ChimeSkipped,
       ChimeStarts, ChimePlays, ChimeHandedOver, Dac, ChimeDone, ChimeTimesOut, ChimeStep
  <2>2. \/ UNCHANGED control
        \/ \E kind \in {"auth", "session.start"} : SendJson(Msg(kind))
    BY <1>4, Zenon DEF LoopStep, SendAuth, SendStart, StartSent, ChimeRuns, ChimeSkipped,
       ChimeStarts, ChimePlays, ChimeHandedOver, Dac, ChimeDone, ChimeTimesOut, ChimeStep
  <2>3. NoEcho(control')
    BY <1>2, <2>2, EchoQueued DEF EchoFree
  <2> QED BY <1>2, <2>1, <2>3 DEF EchoFree
<1>5. CASE MicStep
  BY <1>1, <1>2, <1>5, EchoCaptured, EchoAppended DEF MicStep
<1>6. CASE SenderStep
  BY <1>2, <1>6, EchoSent
<1>7. CASE WebSocketStep
  <2>1. /\ UNCHANGED <<sample, building, sending, toGateway>>
        /\ capture' = capture \/ capture' = <<>>
    BY <1>7, Zenon DEF WebSocketStep, HandleConnected, HandleDisconnected, ReceiveAuthOk,
       ReceiveStarted, ReceiveEnded, ReceiveKeyword, ReceiveVolume, Receive, ResetCapture
  <2>2. \/ control' = control \/ control' = <<>>
        \/ \E kind \in {"volume.up", "volume.off"} : SendJson(Msg(kind))
    BY <1>7, Zenon DEF WebSocketStep, HandleConnected, HandleDisconnected, ReceiveAuthOk,
       ReceiveStarted, ReceiveEnded, ReceiveKeyword, ReceiveVolume, SetRuntimeVolume, Receive, Report
  <2>3. NoEcho(control')
    <3>1. CASE control' = control \/ control' = <<>>
      BY <1>2, <3>1 DEF EchoFree, NoEcho
    <3> QED BY <1>2, <2>2, <3>1, EchoQueued DEF EchoFree
  <2> QED BY <1>2, <2>1, <2>3 DEF EchoFree, NoEcho
<1>8. CASE GatewayStep \/ LinkLost \/ LinkOpens \/ UNCHANGED vars
  <2>1. UNCHANGED <<sample, building, sending, capture, control>>
    <3>1. CASE GatewayReads
      BY <3>1, Zenon DEF GatewayReads, GatewayAuth, GatewayStart, GatewayStop, GatewayAudio,
         GatewayReady, GatewayReport, Take
    <3>2. CASE GatewayStep /\ ~GatewayReads
      BY <3>2, Zenon DEF GatewayStep, GatewayOpened, GatewayFails, GatewayCloses, GatewayEnds,
         GatewayWaits, GatewaySwitches, GatewaySetsVolume, Acts
    <3> QED BY <1>8, <3>1, <3>2, Zenon DEF LinkLost, LinkOpens, vars, deviceVars
  <2>2. \/ toGateway' = toGateway \/ toGateway' = <<>>
        \/ toGateway # <<>> /\ toGateway' = Tail(toGateway)
    <3>1. CASE GatewayReads
      BY <3>1, Zenon DEF GatewayReads, GatewayAuth, GatewayStart, GatewayStop, GatewayAudio,
         GatewayReady, GatewayReport, Take
    <3>2. CASE GatewayStep /\ ~GatewayReads
      BY <3>2, Zenon DEF GatewayStep, GatewayOpened, GatewayFails, GatewayCloses, GatewayEnds,
         GatewayWaits, GatewaySwitches, GatewaySetsVolume, Acts
    <3> QED BY <1>8, <3>1, <3>2, Zenon DEF LinkLost, LinkOpens, vars, deviceVars
  <2>3. toGateway \in Seq(Message)
    BY TypeParts DEF QueuesOK
  <2>4. NoEcho(toGateway')
    BY <1>2, <2>2, <2>3, NoEchoIs DEF EchoFree
  <2> QED BY <1>2, <2>1, <2>4 DEF EchoFree
<1> QED BY <1>3, <1>4, <1>5, <1>6, <1>7, <1>8, Zenon DEF Next, User, Tasks

\* The chime's own sound is never sent as the user's first words: the microphone is open
\* only once the device has asked for the session, and it asks only once the chime is
\* over - for every length of the speaker's portions and of the frames, and whatever
\* messages are lost but a stop.
THEOREM EchoAlwaysStaysHome == Spec => []EchoStaysHome
<1>1. Init => EchoInv
  BY DEF Init, DeviceInit, EchoInv, EchoFree, NoEcho
<1>2. EchoInv => EchoStaysHome
  BY DEF EchoInv, EchoFree, NoEcho, EchoStaysHome
<1> QED BY <1>1, <1>2, EchoStep, SessionTypeCorrect, InvAlways, PTL DEF Spec


-----------------------------------------------------------------------------
(* The volume.                                                              *)

Level == IF loud THEN "volume.up" ELSE "volume.off"

\* No report in a queue; the last one in it is of this level.
Silent(q) == \A i \in DOMAIN q : q[i].kind \notin Reports
Ends(q, level) ==
  \E i \in DOMAIN q : q[i].kind = level /\ \A j \in DOMAIN q : j > i => q[j].kind \notin Reports

\* The last report was not lost.
Reported == lost \cap Reports = {}

\* Unless it was lost, the last report on its way is of the volume the device has; without
\* one, the gateway has heard it.  A connection that opens is not authenticated yet.
VolumeInv ==
  /\ link \in {"down", "opening"} => ~authenticated
  /\ authenticated /\ Connected /\ Reported =>
       \/ Ends(control, Level)
       \/ Silent(control) /\ (Ends(toGateway, Level) \/ (Silent(toGateway) /\ known = Level))

\* The last report once a message is added, or the first is taken.
LEMMA EndsAppend ==
  ASSUME NEW q \in Seq(Message), NEW m \in Message
  PROVE  /\ m.kind \notin Reports => /\ Silent(q) => Silent(Append(q, m))
                                     /\ \A l : Ends(q, l) => Ends(Append(q, m), l)
         /\ m.kind \in Reports => Ends(Append(q, m), m.kind)
<1> DEFINE r == Append(q, m)
<1>1. /\ DOMAIN q = 1 .. Len(q) /\ Len(q) \in Nat /\ DOMAIN r = 1 .. Len(q) + 1
      /\ \A i \in DOMAIN q : r[i] = q[i]
      /\ r[Len(q) + 1] = m
  BY AppendIs
<1> HIDE DEF r
<1>2. m.kind \notin Reports => /\ Silent(q) => Silent(r)
                               /\ \A l : Ends(q, l) => Ends(r, l)
  BY <1>1 DEF Silent, Ends
<1>3. m.kind \in Reports => Ends(r, m.kind)
  BY <1>1 DEF Ends
<1> QED BY <1>2, <1>3 DEF r

LEMMA EndsTail ==
  ASSUME NEW q \in Seq(Message), q # <<>>
  PROVE  /\ Silent(q) => Silent(Tail(q)) /\ Head(q).kind \notin Reports
         /\ \A l : Ends(q, l) => Ends(Tail(q), l) \/ (Head(q).kind = l /\ Silent(Tail(q)))
<1> DEFINE r == Tail(q)
<1>1. /\ DOMAIN q = 1 .. Len(q) /\ Len(q) \in Nat \ {0} /\ DOMAIN r = 1 .. Len(q) - 1
      /\ \A i \in DOMAIN r : r[i] = q[i + 1]
      /\ Head(q) = q[1]
  BY TailIs
<1> HIDE DEF r
<1>2. \A i \in DOMAIN r : i + 1 \in DOMAIN q /\ q[i + 1] = r[i]
  BY <1>1
<1>3. Silent(q) => Silent(r) /\ Head(q).kind \notin Reports
  BY <1>1, <1>2 DEF Silent
<1>4. ASSUME NEW l, Ends(q, l) PROVE Ends(r, l) \/ (Head(q).kind = l /\ Silent(r))
  <2>1. PICK i \in DOMAIN q : q[i].kind = l /\ \A j \in DOMAIN q : j > i => q[j].kind \notin Reports
    BY <1>4 DEF Ends
  <2>2. CASE i = 1
    BY <1>1, <1>2, <2>1, <2>2 DEF Silent
  <2>3. CASE i # 1
    <3>1. i - 1 \in DOMAIN r /\ r[i - 1].kind = l
      BY <1>1, <2>1, <2>3
    <3>2. \A j \in DOMAIN r : j > i - 1 => r[j].kind \notin Reports
      BY <1>1, <1>2, <2>1
    <3> QED BY <3>1, <3>2 DEF Ends
  <2> QED BY <2>2, <2>3
<1> QED BY <1>3, <1>4 DEF r

\* A command that reports nothing.
LEMMA VolumeQueued ==
  ASSUME SessionTypeOK, VolumeInv, UNCHANGED <<link, authenticated, loud, known, toGateway>>,
         \/ UNCHANGED controlVars
         \/ \E kind \in {"auth", "session.start", "session.stop", "ready.detected", "state"} :
              SendJson(Msg(kind))
  PROVE  VolumeInv'
<1>1. CASE UNCHANGED controlVars
  BY <1>1 DEF VolumeInv, Level, Reported, controlVars
<1>2. ASSUME NEW kind \in {"auth", "session.start", "session.stop", "ready.detected", "state"},
             SendJson(Msg(kind))
      PROVE  VolumeInv'
  <2> DEFINE msg == Msg(kind)
  <2>1. control \in Seq(Message) /\ msg \in Message /\ msg.kind \notin Reports
    BY TypeParts, MessageType DEF QueuesOK, Msg, Reports
  <2>2. control' = control \/ control' = Append(control, msg)
    BY <1>2 DEF SendJson
  <2>3. Reported' => Reported
    BY <1>2, <2>1 DEF SendJson, Reported
  <2> HIDE DEF msg
  <2>4. /\ Silent(control) => Silent(control')
        /\ \A l : Ends(control, l) => Ends(control', l)
    BY <2>1, <2>2, EndsAppend
  <2> QED BY <2>3, <2>4 DEF VolumeInv, Level
<1> QED BY <1>1, <1>2

\* A report that fits is the last one; one that does not is lost.
LEMMA VolumeReported ==
  ASSUME SessionTypeOK, link = "up", NEW kind \in Reports, SendJson(Msg(kind))
  PROVE  Ends(control', kind) \/ ~Reported'
<1> DEFINE msg == Msg(kind)
<1>1. control \in Seq(Message) /\ msg \in Message /\ msg.kind = kind
  BY TypeParts, MessageType DEF QueuesOK, Msg, Reports
<1>2. control' = Append(control, msg) \/ msg.kind \in lost'
  BY DEF SendJson
<1> HIDE DEF msg
<1> QED BY <1>1, <1>2, EndsAppend DEF Reported

\* A command is written: the last report goes with it, or stays behind it.
LEMMA VolumeWritten ==
  ASSUME SessionTypeOK, VolumeInv, SendControl, Connected, UNCHANGED <<lost, known>>,
         toGateway' = Append(toGateway, Head(control))
  PROVE  VolumeInv'
<1>1. /\ control \in Seq(Message) /\ toGateway \in Seq(Message) /\ control # <<>>
      /\ control' = Tail(control) /\ UNCHANGED <<link, authenticated, loud>>
  BY TypeParts DEF QueuesOK, SendControl
<1> DEFINE m == Head(control)
<1>2. toGateway' = Append(toGateway, m) /\ m \in Message
  BY <1>1
<1>3. /\ Silent(control) => Silent(control') /\ m.kind \notin Reports
      /\ \A l : Ends(control, l) => Ends(control', l) \/ (m.kind = l /\ Silent(control'))
  BY <1>1, EndsTail
<1> HIDE DEF m
<1>4. /\ m.kind \notin Reports => /\ Silent(toGateway) => Silent(toGateway')
                                  /\ \A l : Ends(toGateway, l) => Ends(toGateway', l)
      /\ m.kind \in Reports => Ends(toGateway', m.kind)
  BY <1>1, <1>2, EndsAppend
<1>5. Level \in Reports /\ Level' = Level
  BY <1>1 DEF Level, Reports
<1>6. Reported' <=> Reported
  BY DEF Reported
<1> QED BY <1>1, <1>3, <1>4, <1>5, <1>6 DEF VolumeInv

\* A command's write fails: what it reported is lost, or another report follows it.
LEMMA VolumeMissed ==
  ASSUME SessionTypeOK, VolumeInv, SendControl, Connected, UNCHANGED <<toGateway, known>>,
         lost' = lost \cup Missed
  PROVE  VolumeInv'
<1>1. /\ control \in Seq(Message) /\ control # <<>>
      /\ control' = Tail(control) /\ UNCHANGED <<link, authenticated, loud>>
  BY TypeParts DEF QueuesOK, SendControl
<1> DEFINE m == Head(control)
<1>2. /\ Silent(control) => Silent(control') /\ m.kind \notin Reports
      /\ \A l : Ends(control, l) => Ends(control', l) \/ (m.kind = l /\ Silent(control'))
  BY <1>1, EndsTail
<1>3. ASSUME Reported', m.kind \in Reports PROVE ~Silent(control')
  <2>1. PICK i \in 2 .. Len(control) : control[i].kind \in Reports
    BY <1>3 DEF Missed, Reported
  <2>2. i - 1 \in DOMAIN control' /\ control'[i - 1] = control[i]
    BY <1>1, <2>1, TailIs
  <2> QED BY <2>1, <2>2 DEF Silent
<1> HIDE DEF m
<1>4. Level \in Reports /\ Level' = Level
  BY <1>1 DEF Level, Reports
<1>5. Reported' => Reported
  BY DEF Reported
<1>6. Reported' /\ Ends(control, Level) => Ends(control', Level)
  BY <1>2, <1>3, <1>4
<1> QED BY <1>1, <1>2, <1>4, <1>5, <1>6 DEF VolumeInv

LEMMA VolumeSent == ASSUME SessionTypeOK, VolumeInv, SendControl, Elsewhere PROVE VolumeInv'
<1>1. /\ UNCHANGED <<link, authenticated, known>>
      /\ \/ Connected /\ toGateway' = Append(toGateway, Head(control)) /\ lost' = lost
         \/ Connected /\ toGateway' = toGateway /\ lost' = lost \cup Missed
         \/ ~Connected
  BY DEF SendControl
<1>2. CASE ~Connected
  BY <1>1, <1>2 DEF VolumeInv
<1> QED BY <1>1, <1>2, VolumeWritten, VolumeMissed

\* The gateway reads a message: a report is what it then knows.
LEMMA VolumeRead ==
  ASSUME SessionTypeOK, VolumeInv, UNCHANGED <<link, authenticated, loud, controlVars>>,
         toGateway # <<>>, toGateway' = Tail(toGateway),
         \/ Head(toGateway).kind \in Reports /\ known' = Head(toGateway).kind
         \/ Head(toGateway).kind \notin Reports /\ known' = known
  PROVE  VolumeInv'
<1>1. toGateway \in Seq(Message)
  BY TypeParts DEF QueuesOK
<1> DEFINE m == Head(toGateway)
<1>2. /\ Silent(toGateway) => Silent(toGateway') /\ m.kind \notin Reports
      /\ \A l : Ends(toGateway, l) =>
                  Ends(toGateway', l) \/ (m.kind = l /\ Silent(toGateway'))
  BY <1>1, EndsTail
<1>3. Level \in Reports
  BY DEF Level, Reports
<1>4. \/ m.kind \in Reports /\ known' = m.kind
      \/ m.kind \notin Reports /\ known' = known
  OBVIOUS
<1> HIDE DEF m
<1>5. Ends(toGateway, Level) =>
        Ends(toGateway', Level) \/ (Silent(toGateway') /\ known' = Level)
  BY <1>2, <1>3, <1>4
<1>6. Silent(toGateway) /\ known = Level => Silent(toGateway') /\ known' = Level
  BY <1>2, <1>4
<1> QED BY <1>5, <1>6 DEF VolumeInv, Level, Reported, controlVars

\* A frame is no report.
LEMMA VolumeFrame == ASSUME SessionTypeOK, VolumeInv, SendFrame, Elsewhere PROVE VolumeInv'
<1> DEFINE m == sending[1]
<1>1. /\ toGateway \in Seq(Message)
      /\ UNCHANGED <<link, authenticated, loud, known, controlVars>>
      /\ toGateway' = toGateway \/ toGateway' = Append(toGateway, m)
  BY TypeParts DEF QueuesOK, SendFrame
<1>2. m \in Message /\ m.kind \notin Reports
  <2>1. m \in Part
    BY TypeParts DEF QueuesOK, SendFrame
  <2> QED BY <2>1, TypeParts, MessageType DEF Part, Reports
<1> HIDE DEF m
<1>3. /\ Silent(toGateway) => Silent(toGateway')
      /\ \A l : Ends(toGateway, l) => Ends(toGateway', l)
  BY <1>1, <1>2, EndsAppend
<1> QED BY <1>1, <1>3 DEF VolumeInv, Level, Reported, controlVars

LEMMA VolumeStays ==
  ASSUME VolumeInv, UNCHANGED <<link, authenticated, loud, known, controlVars, toGateway>>
  PROVE  VolumeInv'
  BY DEF VolumeInv, Level, Reported, controlVars

\* No step loses the last report unnoticed.
LEMMA VolumeInvStep == ASSUME SessionTypeOK, VolumeInv, [Next]_vars PROVE VolumeInv'
<1>1. CASE UserStep /\ User
  <2>1. /\ UNCHANGED <<link, authenticated, loud, known, toGateway>>
        /\ \/ UNCHANGED controlVars
           \/ \E kind \in {"auth", "session.start", "session.stop", "ready.detected", "state"} :
                SendJson(Msg(kind))
    BY <1>1, Zenon DEF UserStep, User, Wake, ButtonStart, StartSession, StopSession, ReadyDetected,
       Mute, Unmute
  <2> QED BY <2>1, VolumeQueued
<1>2. CASE LoopStep /\ Elsewhere
  <2>1. /\ UNCHANGED <<link, authenticated, loud, known, toGateway>>
        /\ \/ UNCHANGED controlVars
           \/ \E kind \in {"auth", "session.start", "session.stop", "ready.detected", "state"} :
                SendJson(Msg(kind))
    BY <1>2, Zenon DEF LoopStep, SendAuth, SendStart, StartSent, ChimeRuns, ChimeSkipped,
       ChimeStarts, ChimePlays, ChimeHandedOver, Dac, ChimeDone, ChimeTimesOut, ChimeStep
  <2> QED BY <2>1, VolumeQueued
<1>3. CASE (MicStep \/ SenderStep) /\ Elsewhere
  <2>1. CASE SendControl \/ SendFrame
    BY <1>3, <2>1, VolumeSent, VolumeFrame
  <2>2. CASE MicStep \/ TakeFrame \/ NothingCaptured \/ SendFails
    <3>1. UNCHANGED <<link, authenticated, loud, known, controlVars, toGateway>>
      BY <1>3, <2>2, Zenon DEF MicStep, MicCallback, AppendSample, TakeFrame, NothingCaptured,
         SendFails
    <3> QED BY <3>1, VolumeStays
  <2> QED BY <1>3, <2>1, <2>2 DEF SenderStep
<1>4. CASE (HandleConnected \/ HandleDisconnected) /\ Elsewhere
  BY <1>4 DEF HandleConnected, HandleDisconnected, VolumeInv
<1>5. CASE ReceiveAuthOk /\ Elsewhere
  <2>1. link = "up" /\ SendJson(Report) /\ UNCHANGED <<link, loud>>
    BY <1>5 DEF ReceiveAuthOk, Receive
  <2>2. SendJson(Msg(Level)) /\ Level \in Reports
    BY <2>1 DEF Report, Level, Reports
  <2>3. Ends(control', Level) \/ ~Reported'
    BY <2>1, <2>2, VolumeReported
  <2> QED BY <2>1, <2>3 DEF VolumeInv, Level
<1>6. ASSUME NEW on \in BOOLEAN, ReceiveVolume(on), Elsewhere PROVE VolumeInv'
  <2>1. /\ link = "up" /\ loud' = on /\ UNCHANGED link
        /\ SendJson(Msg(IF on THEN "volume.up" ELSE "volume.off"))
    BY <1>6 DEF ReceiveVolume, SetRuntimeVolume, Receive
  <2>2. Ends(control', IF on THEN "volume.up" ELSE "volume.off") \/ ~Reported'
    BY <2>1, VolumeReported DEF Reports
  <2> QED BY <2>1, <2>2 DEF VolumeInv, Level
<1>7. CASE Elsewhere /\ (ReceiveStarted \/ ReceiveEnded \/ \E on \in BOOLEAN : ReceiveKeyword(on))
  <2>1. UNCHANGED <<link, authenticated, loud, known, controlVars, toGateway>>
    BY <1>7, Zenon DEF ReceiveStarted, ReceiveEnded, ReceiveKeyword, Receive
  <2> QED BY <2>1, VolumeStays
<1>8. CASE GatewayReads
  <2>1. /\ UNCHANGED <<link, authenticated, loud, controlVars>>
        /\ toGateway # <<>> /\ toGateway' = Tail(toGateway)
        /\ \/ \E kind \in {"volume.up", "volume.off"} : Head(toGateway).kind = kind /\ known' = kind
           \/ \E kind \in {"auth", "session.start", "session.stop", "audio", "ready.detected", "state"} :
                Head(toGateway).kind = kind /\ known' = known
    BY <1>8, Zenon DEF GatewayReads, GatewayAuth, GatewayStart, GatewayStop, GatewayAudio,
       GatewayReady, GatewayReport, Take
  <2>2. \/ Head(toGateway).kind \in Reports /\ known' = Head(toGateway).kind
        \/ Head(toGateway).kind \notin Reports /\ known' = known
    BY <2>1 DEF Reports
  <2> QED BY <2>1, <2>2, VolumeRead
<1>9. CASE GatewayStep /\ ~GatewayReads
  <2>1. UNCHANGED <<link, authenticated, loud, known, controlVars, toGateway>>
    BY <1>9, Zenon DEF GatewayStep, GatewayOpened, GatewayFails, GatewayCloses, GatewayEnds,
       GatewayWaits, GatewaySwitches, GatewaySetsVolume, Acts
  <2> QED BY <2>1, VolumeStays
<1>10. CASE LinkLost \/ LinkOpens
  BY <1>10, TypeParts DEF LinkLost, LinkOpens, VolumeInv
<1>11. CASE UNCHANGED vars
  BY <1>11, VolumeStays DEF vars, deviceVars
<1> QED
  BY <1>1, <1>2, <1>3, <1>4, <1>5, <1>6, <1>7, <1>8, <1>9, <1>10, <1>11
     DEF Next, User, Tasks, WebSocketStep

\* Once nothing is on its way, the gateway shows the volume the device has, over commands
\* that cross and connections that are lost: whatever changes it reports it, and so does
\* every authentication.  set_runtime_volume() does not look at what send_json() returns,
\* and run_audio_sender() does not repeat a write that fails: a last report that was lost
\* either way is the one exception.
THEOREM VolumeAlwaysAgrees == Spec => []VolumeAgrees
<1>1. Init => VolumeInv
  BY DEF Init, DeviceInit, VolumeInv
<1>2. VolumeInv => VolumeAgrees
  BY DEF VolumeInv, VolumeAgrees, Ends, Silent, Level, Reported
<1> QED BY <1>1, <1>2, VolumeInvStep, SessionTypeCorrect, PTL DEF Spec

=============================================================================
