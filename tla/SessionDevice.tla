---------------------------- MODULE SessionDevice -----------------------------
(***************************************************************************)
(* The voice session in the firmware (RealtimeCompanion): a wake word or   *)
(* the button starts it, the main loop plays the wake chime and then asks  *)
(* the gateway for a session, the microphone task fills frames, the sender *)
(* task writes commands and frames to one socket, and the WebSocket task   *)
(* follows the connection and the gateway's answers.                       *)
(*                                                                         *)
(* A step is atomic unless another task can act on what it leaves half     *)
(* done: the microphone's check and its append, the sender's check and its *)
(* write, and the two halves of asking for a session are separate steps.   *)
(***************************************************************************)
EXTENDS Integers, Sequences, FiniteSets

CONSTANTS
  CaptureQueue,  \* capture_queue_, in frames
  ControlQueue,  \* control_queue_, in messages
  PartsPerFrame, \* microphone callbacks that fill one frame
  ChimeStride,   \* frames of the chime handed to the speaker in one step
  MaxSessions,   \* bound: sessions the user starts
  MaxEvents,     \* bound: mutes, volume commands, ready waits and project switches
  MaxParts,      \* bound: microphone callbacks that capture something
  MaxLosses,     \* bound: kinds of command lost by writes that fail, at one time
  SocketSize     \* bound: messages in flight to the gateway when a frame is written

ASSUME DeviceAssumption ==
  /\ CaptureQueue \in Nat \ {0} /\ ControlQueue \in Nat \ {0}
  /\ PartsPerFrame \in Nat \ {0} /\ ChimeStride \in Nat \ {0}
  /\ MaxSessions \in Nat /\ MaxEvents \in Nat /\ MaxParts \in Nat
  /\ MaxLosses \in Nat /\ SocketSize \in Nat

\* The recording of the chime, in samples: what can be heard of it, and the
\* quiet tail it fades out with.
ChimeAudible == 17292
ChimeTail == 5436
ChimeSamples == ChimeAudible + ChimeTail
ChimeFrames == (ChimeSamples + 479) \div 480

\* A message to the gateway, and a frame (or a part of one) from the
\* microphone: the session it was made in, and whether the chime sounded.
Reports == {"volume.up", "volume.off"}
Kinds ==
  {"auth", "session.start", "session.stop", "ready.detected", "state", "audio"} \cup Reports
Message == [kind : Kinds, of : 0 .. MaxSessions, echo : BOOLEAN]
Part == [kind : {"audio"}, of : 0 .. MaxSessions, echo : BOOLEAN]
Answers == {"auth.ok", "session.started", "session.ended", "keyword.ready", "keyword.wake",
            "volume.up", "volume.off"}

VARIABLES
  link,          \* the connection: "down", "opening" and "closing" (the event is not handled yet), "up"
  authPending,   \* auth_pending_
  authenticated, \* authenticated_
  startPending,  \* session_start_pending_
  active,        \* session_active_
  streamReady,   \* stream_ready_
  waiting,       \* waiting_for_ready_
  signalled,     \* ready_signal_sent_
  muted,         \* muted_
  loud,          \* output_volume_ > 0
  chime,         \* wake_ack_*: at, frames handed over, samples played
  asking,        \* the main loop has queued session.start and not noted it yet
  session,       \* sessions the user started
  hasty,         \* history: those begun with some of the last one left in the microphone task
  events,        \* mutes, volume commands, ready waits and project switches so far
  sample,        \* what the microphone task has checked and not appended yet, or <<>>
  parts,         \* callbacks that captured something
  capturing,     \* capture_running_
  building,      \* building_frame_
  capture,       \* capture_queue_
  control,       \* control_queue_
  lost,          \* history: kinds of command lost on a live connection, a report until the next
  pass,          \* what the sender looks at next: "control" or "capture"
  sending,       \* the frame the sender has taken and not written yet, or <<>>
  toGateway,     \* the socket, device to gateway
  toDevice       \* the socket, gateway to device

authVars == <<authPending, authenticated>>
sessionVars == <<session, hasty>>
flagVars == <<startPending, active, streamReady, waiting, signalled>>
userVars == <<muted, sessionVars, events>>
micVars == <<sample, parts, capturing, building>>
controlVars == <<control, lost>>
senderVars == <<pass, sending>>
deviceVars == <<link, authVars, flagVars, userVars, loud, chime, asking, micVars, capture,
                controlVars, senderVars, toGateway, toDevice>>

NoChime == [at |-> "off", frames |-> 0, played |-> 0]

FlagsOK ==
  /\ authPending \in BOOLEAN /\ authenticated \in BOOLEAN /\ startPending \in BOOLEAN
  /\ active \in BOOLEAN /\ streamReady \in BOOLEAN /\ waiting \in BOOLEAN
  /\ signalled \in BOOLEAN /\ muted \in BOOLEAN /\ loud \in BOOLEAN
  /\ asking \in BOOLEAN /\ capturing \in BOOLEAN

QueuesOK ==
  /\ sample \in Seq(Part) /\ Len(sample) <= 1
  /\ building \in Seq(Part) /\ Len(building) < PartsPerFrame
  /\ capture \in Seq(Part) /\ Len(capture) <= CaptureQueue
  /\ control \in Seq(Message) /\ Len(control) <= ControlQueue
  /\ sending \in Seq(Part) /\ Len(sending) <= 1
  /\ toGateway \in Seq(Message) /\ toDevice \in Seq(Answers)

DeviceTypeOK ==
  /\ FlagsOK /\ QueuesOK
  /\ link \in {"down", "opening", "up", "closing"} /\ pass \in {"control", "capture"}
  /\ chime \in [at : {"off", "asked", "playing", "draining"}, frames : 0 .. ChimeFrames,
                played : 0 .. ChimeSamples]
  /\ lost \subseteq Kinds /\ hasty \subseteq 1 .. MaxSessions
  /\ session \in 0 .. MaxSessions /\ events \in 0 .. MaxEvents /\ parts \in 0 .. MaxParts

DeviceInit ==
  /\ link = "down" /\ authPending = FALSE /\ authenticated = FALSE
  /\ startPending = FALSE /\ active = FALSE /\ streamReady = FALSE
  /\ waiting = FALSE /\ signalled = FALSE /\ muted = FALSE /\ loud = TRUE
  /\ chime = NoChime /\ asking = FALSE /\ session = 0 /\ hasty = {} /\ events = 0
  /\ sample = <<>> /\ parts = 0 /\ capturing = FALSE /\ building = <<>> /\ capture = <<>>
  /\ control = <<>> /\ lost = {} /\ pass = "control" /\ sending = <<>>
  /\ toGateway = <<>> /\ toDevice = <<>>

-----------------------------------------------------------------------------
(* What the tasks share.                                                   *)

Connected == link \in {"opening", "up"}
Loop == ~asking    \* the main loop is between two of its calls

Msg(kind) == [kind |-> kind, of |-> session, echo |-> FALSE]
Report == Msg(IF loud THEN "volume.up" ELSE "volume.off")

\* send_json(): refused without a connection or with a full queue, which few callers
\* look at.  A report that is queued makes up for one that was lost.
CanQueue == Connected /\ Len(control) < ControlQueue
SendJson(msg) ==
  \/ /\ CanQueue /\ control' = Append(control, msg)
     /\ lost' = lost \ (IF msg.kind \in Reports THEN Reports ELSE {})
  \/ /\ ~CanQueue /\ control' = control
     /\ lost' = lost \cup (IF Connected THEN {msg.kind} ELSE {})

\* Mutant of ResetCapture: what was captured stays queued.
KeepCapture == capture' = capture

ResetCapture == capture' = <<>>

\* flush_playback(), as far as the chime goes: it is cut off.
FlushPlayback == chime' = NoChime

\* What starting, ending and losing a session have in common.
NotStreaming == streamReady' = FALSE /\ waiting' = FALSE /\ signalled' = FALSE

\* The chime can be heard: its pickup is not the user speaking.
Sounding == chime.frames > 0 /\ chime.played < ChimeAudible

-----------------------------------------------------------------------------
(* The user, in the main loop: wake word, button, mute switch, ready word. *)

StartSession ==
  /\ ~muted /\ ~active /\ session < MaxSessions
  /\ session' = session + 1 /\ active' = TRUE
  /\ hasty' = hasty \cup (IF sample # <<>> \/ building # <<>> THEN {session + 1} ELSE {})
  /\ NotStreaming /\ ResetCapture
  /\ startPending' = (authenticated \/ startPending)

Wake ==
  /\ Loop /\ ~waiting /\ StartSession
  /\ chime' = IF loud THEN [NoChime EXCEPT !.at = "asked"] ELSE chime
  /\ UNCHANGED <<link, authVars, muted, events, loud, asking, micVars, controlVars, senderVars,
                 toGateway, toDevice>>

ButtonStart ==
  /\ Loop /\ StartSession
  /\ UNCHANGED <<link, authVars, muted, events, loud, chime, asking, micVars, controlVars,
                 senderVars, toGateway, toDevice>>

StopSession ==
  /\ Loop /\ active
  /\ SendJson(Msg("session.stop"))
  /\ active' = FALSE /\ NotStreaming /\ ResetCapture /\ FlushPlayback
  /\ UNCHANGED <<link, authVars, startPending, userVars, loud, asking, micVars, senderVars,
                 toGateway, toDevice>>

\* Mutant of ReadyDetected: it does not look whether the word was sent.
ReadyDetectedAgain ==
  /\ Loop /\ waiting /\ signalled' = CanQueue /\ SendJson(Msg("ready.detected"))
  /\ UNCHANGED <<link, authVars, startPending, active, streamReady, waiting, userVars, loud,
                 chime, asking, micVars, capture, senderVars, toGateway, toDevice>>

ReadyDetected ==
  /\ Loop /\ waiting /\ ~signalled
  /\ signalled' = CanQueue /\ SendJson(Msg("ready.detected"))
  /\ UNCHANGED <<link, authVars, startPending, active, streamReady, waiting, userVars, loud,
                 chime, asking, micVars, capture, senderVars, toGateway, toDevice>>

Mute ==
  /\ Loop /\ ~muted /\ events < MaxEvents
  /\ muted' = TRUE /\ events' = events + 1
  /\ ResetCapture /\ FlushPlayback /\ SendJson(Msg("state"))
  /\ UNCHANGED <<link, authVars, flagVars, sessionVars, loud, asking, micVars, senderVars,
                 toGateway, toDevice>>

Unmute ==
  /\ Loop /\ muted /\ muted' = FALSE /\ SendJson(Msg("state"))
  /\ UNCHANGED <<link, authVars, flagVars, sessionVars, events, loud, chime, asking, micVars,
                 capture, senderVars, toGateway, toDevice>>

-----------------------------------------------------------------------------
(* The main loop.                                                          *)

SendAuth ==
  /\ Loop /\ authPending /\ CanQueue
  /\ SendJson(Msg("auth")) /\ authPending' = FALSE
  /\ UNCHANGED <<link, authenticated, flagVars, userVars, loud, chime, asking, micVars, capture,
                 senderVars, toGateway, toDevice>>

ChimeStep(next) ==
  /\ Loop /\ chime' = next
  /\ UNCHANGED <<link, authVars, flagVars, userVars, loud, asking, micVars, capture, controlVars,
                 senderVars, toGateway, toDevice>>

ChimeSkipped == chime.at = "asked" /\ ChimeStep(NoChime)    \* the speaker is busy
ChimeStarts == chime.at = "asked" /\ ChimeStep([chime EXCEPT !.at = "playing"])
ChimeTimesOut == chime.at \in {"playing", "draining"} /\ ChimeStep(NoChime)

\* The speaker takes the frames in any portions; the last frame is padded.
ChimePlays ==
  /\ chime.at = "playing" /\ chime.frames < ChimeFrames
  /\ LET next == chime.frames + ChimeStride
     IN ChimeStep([chime EXCEPT !.frames = IF next < ChimeFrames THEN next ELSE ChimeFrames])

ChimeHandedOver ==
  /\ chime.at = "playing" /\ chime.frames = ChimeFrames
  /\ ChimeStep([chime EXCEPT !.at = "draining"])

\* Mutant of ChimeDone: over as soon as the speaker has taken all of it.
ChimeDoneEarly == chime.at = "draining" /\ ChimeStep([chime EXCEPT !.at = "off"])

\* Only once the DAC has played all but 1 ms is the chime over; a speaker that has
\* stopped by itself is ChimeTimesOut, which leaves the same.
ChimeDone ==
  /\ chime.at = "draining" /\ chime.played + 24 >= ChimeSamples
  /\ ChimeStep(NoChime)

\* The DAC's callback counts what has been heard of the frames handed over.
Dac ==
  LET given == IF 480 * chime.frames < ChimeSamples THEN 480 * chime.frames ELSE ChimeSamples
  IN /\ chime.played < given /\ ChimeStep([chime EXCEPT !.played = given])

\* Mutant of SendStart: it does not look whether the session still is wanted.
SendStartAnyway ==
  /\ Loop /\ startPending /\ authenticated /\ chime.at = "off" /\ CanQueue
  /\ SendJson(Msg("session.start")) /\ asking' = TRUE
  /\ UNCHANGED <<link, authVars, flagVars, userVars, loud, chime, micVars, capture, senderVars,
                 toGateway, toDevice>>

SendStart ==
  /\ Loop /\ startPending /\ authenticated /\ active /\ chime.at = "off" /\ CanQueue
  /\ SendJson(Msg("session.start")) /\ asking' = TRUE
  /\ UNCHANGED <<link, authVars, flagVars, userVars, loud, chime, micVars, capture, senderVars,
                 toGateway, toDevice>>

StartSent ==
  /\ asking /\ asking' = FALSE
  /\ streamReady' = TRUE /\ startPending' = FALSE
  /\ UNCHANGED <<link, authVars, active, waiting, signalled, userVars, loud, chime, micVars,
                 capture, controlVars, senderVars, toGateway, toDevice>>

-----------------------------------------------------------------------------
(* The microphone task: handle_microphone_data and append_capture_sample.  *)

CaptureEnabled == active /\ streamReady /\ ~waiting /\ ~muted

MicCallback ==
  /\ sample = <<>> /\ (CaptureEnabled => parts < MaxParts)
  /\ capturing' = CaptureEnabled
  /\ sample' = IF CaptureEnabled
               THEN <<[kind |-> "audio", of |-> session, echo |-> Sounding]>> ELSE <<>>
  /\ parts' = parts + Len(sample')
  /\ building' = IF CaptureEnabled /\ capturing THEN building ELSE <<>>
  /\ UNCHANGED <<link, authVars, flagVars, userVars, loud, chime, asking, capture, controlVars,
                 senderVars, toGateway, toDevice>>

\* Mutant of AppendSample: a full queue is not looked at.
AppendSampleAlways ==
  LET all == building \o sample
      full == Len(all) = PartsPerFrame
  IN /\ sample # <<>> /\ sample' = <<>>
     /\ building' = IF full THEN <<>> ELSE all
     /\ capture' = IF full THEN Append(capture, all[1]) ELSE capture
     /\ UNCHANGED <<link, authVars, flagVars, userVars, loud, chime, asking, parts, capturing,
                    controlVars, senderVars, toGateway, toDevice>>

\* A frame is of the session its oldest part is of; a full queue drops it.
AppendSample ==
  LET all == building \o sample
      frame == [all[1] EXCEPT !.echo = \E i \in DOMAIN all : all[i].echo]
      full == Len(all) = PartsPerFrame
  IN /\ sample # <<>> /\ sample' = <<>>
     /\ building' = IF full THEN <<>> ELSE all
     /\ capture' = IF full /\ Len(capture) < CaptureQueue
                   THEN Append(capture, frame) ELSE capture
     /\ UNCHANGED <<link, authVars, flagVars, userVars, loud, chime, asking, parts, capturing,
                    controlVars, senderVars, toGateway, toDevice>>

-----------------------------------------------------------------------------
(* The sender task: at most one message and one frame per pass.            *)

\* What is lost with the first message: a report that another one follows is not.
Missed ==
  IF Head(control).kind \in Reports /\ \E i \in 2 .. Len(control) : control[i].kind \in Reports
  THEN {} ELSE {Head(control).kind}

\* The message is written; or, for want of the socket's lock or of a connection, it is
\* logged and gone.
SendControl ==
  /\ pass = "control" /\ sending = <<>> /\ control # <<>>
  /\ control' = Tail(control) /\ pass' = "capture"
  /\ \/ Connected /\ toGateway' = Append(toGateway, Head(control)) /\ lost' = lost
     \/ /\ Connected /\ Cardinality(lost) < MaxLosses
        /\ toGateway' = toGateway /\ lost' = lost \cup Missed
     \/ ~Connected /\ UNCHANGED <<toGateway, lost>>
  /\ UNCHANGED <<link, authVars, flagVars, userVars, loud, chime, asking, micVars, capture,
                 sending, toDevice>>

\* A frame is taken, and discarded at once unless everything allows it out.
TakeFrame ==
  /\ sending = <<>> /\ capture # <<>> /\ (pass = "capture" \/ control = <<>>)
  /\ capture' = Tail(capture) /\ pass' = "control"
  /\ sending' = IF authenticated /\ active /\ streamReady /\ ~muted /\ Connected
                THEN <<Head(capture)>> ELSE <<>>
  /\ UNCHANGED <<link, authVars, flagVars, userVars, loud, chime, asking, micVars, controlVars,
                 toGateway, toDevice>>

NothingCaptured ==
  /\ pass = "capture" /\ sending = <<>> /\ capture = <<>> /\ pass' = "control"
  /\ UNCHANGED <<link, authVars, flagVars, userVars, loud, chime, asking, micVars, capture,
                 controlVars, sending, toGateway, toDevice>>

\* The write succeeds or, for want of the socket's lock, drops the frame.
SendFrame ==
  /\ sending # <<>> /\ sending' = <<>> /\ Connected /\ Len(toGateway) < SocketSize
  /\ toGateway' \in {toGateway, Append(toGateway, sending[1])}
  /\ UNCHANGED <<link, authVars, flagVars, userVars, loud, chime, asking, micVars, capture,
                 controlVars, pass, toDevice>>

SendFails ==
  /\ sending # <<>> /\ sending' = <<>> /\ ~Connected
  /\ streamReady' = FALSE /\ ResetCapture
  /\ UNCHANGED <<link, authVars, startPending, active, waiting, signalled, userVars, loud, chime,
                 asking, micVars, controlVars, pass, toGateway, toDevice>>

-----------------------------------------------------------------------------
(* The WebSocket task.                                                     *)

HandleConnected ==
  /\ link = "opening" /\ link' = "up"
  /\ control' = <<>> /\ authenticated' = FALSE /\ authPending' = TRUE
  /\ UNCHANGED <<lost, flagVars, userVars, loud, chime, asking, micVars, capture, senderVars,
                 toGateway, toDevice>>

\* What was lost is said again on the next connection, but for a stop.
HandleDisconnected ==
  /\ link = "closing" /\ link' = "down" /\ lost' = lost \cap {"session.stop"}
  /\ authenticated' = FALSE /\ authPending' = FALSE /\ startPending' = FALSE
  /\ NotStreaming /\ ResetCapture /\ control' = <<>> /\ FlushPlayback
  /\ UNCHANGED <<active, userVars, loud, asking, micVars, senderVars, toGateway, toDevice>>

Receive(kind) ==
  /\ link = "up" /\ toDevice # <<>> /\ Head(toDevice) = kind
  /\ toDevice' = Tail(toDevice)
  /\ UNCHANGED <<link, authPending, userVars, asking, micVars, senderVars, toGateway>>

\* Mutant of ReceiveAuthOk: the volume is not reported.
ReceiveAuthOkQuietly ==
  /\ Receive("auth.ok")
  /\ authenticated' = TRUE /\ startPending' = (active \/ startPending)
  /\ UNCHANGED <<active, streamReady, waiting, signalled, loud, chime, capture, controlVars>>

\* Mutant of ReceiveAuthOk: a session under way is not asked for again.
ReceiveAuthOkOnly ==
  /\ Receive("auth.ok")
  /\ authenticated' = TRUE /\ SendJson(Report)
  /\ UNCHANGED <<startPending, active, streamReady, waiting, signalled, loud, chime, capture>>

ReceiveAuthOk ==
  /\ Receive("auth.ok")
  /\ authenticated' = TRUE /\ startPending' = (active \/ startPending) /\ SendJson(Report)
  /\ UNCHANGED <<active, streamReady, waiting, signalled, loud, chime, capture>>

ReceiveStarted ==
  /\ Receive("session.started")
  /\ streamReady' = TRUE /\ waiting' = FALSE /\ signalled' = FALSE
  /\ UNCHANGED <<authenticated, startPending, active, loud, chime, capture, controlVars>>

ReceiveEnded ==
  /\ Receive("session.ended")
  /\ active' = FALSE /\ NotStreaming /\ ResetCapture /\ FlushPlayback
  /\ UNCHANGED <<authenticated, startPending, loud, controlVars>>

ReceiveKeyword(ready) ==
  /\ Receive(IF ready THEN "keyword.ready" ELSE "keyword.wake")
  /\ waiting' = ready /\ signalled' = FALSE /\ ResetCapture
  /\ UNCHANGED <<authenticated, startPending, active, streamReady, loud, chime, controlVars>>

\* set_runtime_volume(): set, and reported.
SetRuntimeVolume(up) ==
  loud' = up /\ SendJson(Msg(IF up THEN "volume.up" ELSE "volume.off"))

ReceiveVolume(up) ==
  /\ Receive(IF up THEN "volume.up" ELSE "volume.off")
  /\ SetRuntimeVolume(up)
  /\ UNCHANGED <<authenticated, flagVars, chime, capture>>

-----------------------------------------------------------------------------

UserStep == Wake \/ ButtonStart \/ StopSession \/ ReadyDetected \/ Mute \/ Unmute
ChimeRuns ==
  \/ ChimeSkipped \/ ChimeStarts \/ ChimePlays \/ ChimeHandedOver \/ Dac \/ ChimeDone
  \/ ChimeTimesOut
LoopStep == SendAuth \/ ChimeRuns \/ SendStart \/ StartSent
MicStep == MicCallback \/ AppendSample
SenderStep == SendControl \/ TakeFrame \/ NothingCaptured \/ SendFrame \/ SendFails
WebSocketStep ==
  \/ HandleConnected \/ HandleDisconnected \/ ReceiveAuthOk \/ ReceiveStarted \/ ReceiveEnded
  \/ \E on \in BOOLEAN : ReceiveKeyword(on) \/ ReceiveVolume(on)

=============================================================================
