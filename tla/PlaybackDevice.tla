---------------------------- MODULE PlaybackDevice ----------------------------
(***************************************************************************)
(* Playback in the firmware (RealtimeCompanion): four tasks share the      *)
(* playback queue, the stream id and the counters.  The WebSocket task     *)
(* runs handle_websocket_event and handle_text, the main loop moves frames *)
(* to the speaker and reports progress, the DAC counts what it has played, *)
(* and the audio sender task writes the report to the gateway.             *)
(*                                                                         *)
(* Atomics and queues are one step each where another task can see the     *)
(* intermediate state: playback.start and playback.flush change the stream *)
(* id and the counters in two steps.                                       *)
(***************************************************************************)
EXTENDS PlaybackWire

CONSTANTS
  DeviceQueue,   \* PLAYBACK_QUEUE_FRAMES
  Prebuffer,     \* playback_prebuffer_frames
  SpeakerBuffer, \* frames the speaker holds between play() and the DAC
  MaxMutes       \* bound: times the mute switch is closed

ASSUME DeviceAssumption ==
  /\ DeviceQueue \in Nat \ {0} /\ Prebuffer \in Nat \ {0}
  /\ SpeakerBuffer \in Nat \ {0} /\ MaxMutes \in Nat

Report == [stream : Streams, played : Nat]

VARIABLES
  frames,       \* playback_queue_
  streamId,     \* stream_id_
  expected,     \* expected_duration_ms_, in frames; 0 is unknown
  playedFrames, \* played_frames_, in 20 ms frames
  active,       \* playback_active_
  prebuffering, \* playback_prebuffering_
  endReceived,  \* playback_end_received_
  progress,     \* progress_queue_, of one report
  hand,         \* the frame the main loop took from the queue and has not placed yet
  speaker,      \* the speaker's buffer
  stopping,     \* speaker_->stop() has been asked for and has not taken effect
  webSocket,    \* where the WebSocket task is inside a handler
  mutes,        \* times muted so far
  heard,        \* the last frame that left the DAC
  dropped,      \* playback_dropped_frames_
  stale,        \* a report has been made of a stream with the count of the one before
  toGateway     \* reports in flight, device to gateway

streamIdVars == <<streamId, expected>>
countVars == <<playedFrames, active, prebuffering, endReceived>>
speakerVars == <<speaker, stopping, heard>>
deviceVars == <<frames, streamIdVars, countVars, progress, hand, speakerVars, webSocket,
                mutes, dropped, stale, toGateway>>

DeviceTypeOK ==
  /\ frames \in Seq(Frame) /\ Len(frames) <= DeviceQueue
  /\ streamId \in Streams \cup {None}
  /\ expected \in Nat /\ playedFrames \in Nat
  /\ active \in BOOLEAN /\ prebuffering \in BOOLEAN /\ endReceived \in BOOLEAN
  /\ progress \in Seq(Report) /\ Len(progress) <= 1
  /\ hand \in Seq(Frame) /\ Len(hand) <= 1
  /\ speaker \in Seq(Frame) /\ Len(speaker) <= SpeakerBuffer
  /\ stopping \in BOOLEAN
  /\ webSocket \in {"idle", "starting", "flushing"}
  /\ mutes \in 0 .. MaxMutes
  /\ heard \in [stream : Streams \cup {None}, n : Nat] /\ dropped \in Nat
  /\ stale \in BOOLEAN
  /\ toGateway \in Seq(Report)

DeviceInit ==
  /\ frames = <<>> /\ streamId = None /\ expected = 0 /\ playedFrames = 0
  /\ active = FALSE /\ prebuffering = FALSE /\ endReceived = FALSE
  /\ progress = <<>> /\ hand = <<>> /\ speaker = <<>> /\ stopping = FALSE
  /\ webSocket = "idle" /\ mutes = 0 /\ heard = [stream |-> None, n |-> 0] /\ dropped = 0
  /\ stale = FALSE /\ toGateway = <<>>

-----------------------------------------------------------------------------
(* The WebSocket task.                                                     *)

Receive(kind) ==
  /\ webSocket = "idle" /\ toDevice # <<>>
  /\ Head(toDevice).kind = kind
  /\ toDevice' = Tail(toDevice)

\* A binary frame: queued whatever stream is current, dropped when the queue is full.
ReceiveFrame ==
  /\ Receive("frame")
  /\ IF Len(frames) < DeviceQueue
     THEN /\ frames' = Append(frames, [stream |-> Head(toDevice).stream, n |-> Head(toDevice).n])
          /\ UNCHANGED dropped
     ELSE dropped' = dropped + 1 /\ UNCHANGED frames
  /\ UNCHANGED <<streamIdVars, countVars, progress, hand, speakerVars, webSocket, mutes,
                 stale, toGateway>>

\* playback.start: the queues are reset and the new stream id is published...
ReceiveStart ==
  /\ Receive("start")
  /\ frames' = <<>> /\ progress' = <<>>
  /\ streamId' = Head(toDevice).stream /\ expected' = 0
  /\ webSocket' = "starting"
  /\ UNCHANGED <<countVars, hand, speakerVars, mutes, dropped, stale, toGateway>>

\* ...and then the counters are reset.
StartPlayback ==
  /\ webSocket = "starting"
  /\ playedFrames' = 0 /\ endReceived' = FALSE
  /\ prebuffering' = TRUE /\ active' = TRUE
  /\ webSocket' = "idle"
  /\ UNCHANGED <<toDevice, frames, streamIdVars, progress, hand, speakerVars, mutes,
                 dropped, stale, toGateway>>

\* playback.end, of whatever stream
ReceiveEnd ==
  /\ Receive("end")
  /\ expected' = Head(toDevice).n /\ endReceived' = TRUE
  /\ UNCHANGED <<frames, streamId, playedFrames, active, prebuffering, progress, hand,
                 speakerVars, webSocket, mutes, dropped, stale, toGateway>>

\* flush_playback up to its lock
StopPlayback ==
  /\ frames' = <<>> /\ progress' = <<>>
  /\ stopping' = (speaker # <<>>)
  /\ playedFrames' = 0 /\ active' = FALSE /\ prebuffering' = FALSE /\ endReceived' = FALSE

\* flush_playback under its lock
ForgetStream == streamId' = None /\ expected' = 0

\* playback.flush, of whatever stream
ReceiveFlush ==
  /\ Receive("flush")
  /\ StopPlayback
  /\ webSocket' = "flushing"
  /\ UNCHANGED <<streamIdVars, hand, speaker, heard, mutes, dropped, stale, toGateway>>

FlushPlayback ==
  /\ webSocket = "flushing"
  /\ ForgetStream
  /\ webSocket' = "idle"
  /\ UNCHANGED <<toDevice, frames, countVars, progress, hand, speakerVars, mutes, dropped, stale,
                 toGateway>>

WebSocketTask ==
  ReceiveFrame \/ ReceiveStart \/ StartPlayback \/ ReceiveEnd \/ ReceiveFlush \/ FlushPlayback

-----------------------------------------------------------------------------
(* The main loop.                                                          *)

\* Enough is buffered, or everything there is: start the speaker.
PrebufferReady ==
  /\ prebuffering /\ hand = <<>>
  /\ Len(frames) >= Prebuffer \/ (frames # <<>> /\ endReceived)
  /\ prebuffering' = FALSE
  /\ UNCHANGED <<toDevice, frames, streamIdVars, playedFrames, active, endReceived, progress,
                 hand, speakerVars, webSocket, mutes, dropped, stale, toGateway>>

\* Take a frame from the queue.
TakeFrame ==
  /\ ~prebuffering /\ hand = <<>> /\ frames # <<>>
  /\ hand' = <<Head(frames)>> /\ frames' = Tail(frames)
  /\ UNCHANGED <<toDevice, streamIdVars, countVars, progress, speakerVars, webSocket, mutes,
                 dropped, stale, toGateway>>

\* Mutant of PlayFrame: the frame goes back to the end of the queue.
PlayFrameToBack ==
  /\ hand # <<>> /\ hand' = <<>>
  /\ IF ~stopping /\ Len(speaker) < SpeakerBuffer
     THEN speaker' = speaker \o hand /\ UNCHANGED <<frames, dropped>>
     ELSE IF Len(frames) < DeviceQueue
     THEN frames' = frames \o hand /\ UNCHANGED <<speaker, dropped>>
     ELSE dropped' = dropped + 1 /\ UNCHANGED <<frames, speaker>>
  /\ UNCHANGED <<toDevice, streamIdVars, countVars, progress, stopping, heard, webSocket,
                 mutes, stale, toGateway>>

\* Give it to the speaker; one that does not fit goes back to the front of the
\* queue, which may have been reset or filled up meanwhile.
PlayFrame ==
  /\ hand # <<>> /\ hand' = <<>>
  /\ IF ~stopping /\ Len(speaker) < SpeakerBuffer
     THEN speaker' = speaker \o hand /\ UNCHANGED <<frames, dropped>>
     ELSE IF Len(frames) < DeviceQueue
     THEN frames' = hand \o frames /\ UNCHANGED <<speaker, dropped>>
     ELSE dropped' = dropped + 1 /\ UNCHANGED <<frames, speaker>>
  /\ UNCHANGED <<toDevice, streamIdVars, countVars, progress, stopping, heard, webSocket,
                 mutes, stale, toGateway>>

\* send_playback_progress(): the one slot holds the newest report.
SendPlaybackProgress(report) == progress' = <<report>>

\* Mutant of ReportProgress: the report queues up behind the one before.
ReportQueued ==
  /\ hand = <<>> /\ streamId # None
  /\ Len(progress) < 2
  /\ progress' = Append(progress, [stream |-> streamId, played |-> playedFrames])
  /\ UNCHANGED <<toDevice, frames, streamIdVars, countVars, hand, speakerVars, webSocket,
                 mutes, dropped, stale, toGateway>>

\* The periodic report; a stream played to within the tolerance is over.
ReportProgress ==
  /\ hand = <<>> /\ streamId # None
  /\ SendPlaybackProgress([stream |-> streamId, played |-> playedFrames])
  /\ IF expected # 0 /\ playedFrames + Tolerance >= expected
     THEN ForgetStream /\ active' = FALSE
     ELSE UNCHANGED <<streamIdVars, active>>
  /\ stale' = (stale \/ (webSocket = "starting" /\ playedFrames > 0))
  /\ UNCHANGED <<toDevice, frames, playedFrames, prebuffering, endReceived, hand,
                 speakerVars, webSocket, mutes, dropped, toGateway>>

\* set_muted(true): the local switch flushes playback.
Mute ==
  /\ mutes < MaxMutes /\ mutes' = mutes + 1
  /\ hand = <<>>
  /\ StopPlayback /\ ForgetStream
  /\ UNCHANGED <<toDevice, hand, speaker, heard, webSocket, dropped, stale, toGateway>>

MainLoop == PrebufferReady \/ TakeFrame \/ PlayFrame \/ ReportProgress

-----------------------------------------------------------------------------
(* The DAC and its callback, the speaker's own stop, the sender task.      *)

DacOutput ==
  /\ speaker # <<>>
  /\ heard' = Head(speaker) /\ speaker' = Tail(speaker)
  /\ stopping' = (stopping /\ speaker' # <<>>)
  /\ playedFrames' = IF active THEN playedFrames + 1 ELSE playedFrames
  /\ UNCHANGED <<toDevice, frames, streamIdVars, active, prebuffering, endReceived, progress,
                 hand, webSocket, mutes, dropped, stale, toGateway>>

SpeakerStopped ==
  /\ stopping /\ stopping' = FALSE /\ speaker' = <<>>
  /\ UNCHANGED <<toDevice, frames, streamIdVars, countVars, progress, hand, heard, webSocket,
                 mutes, dropped, stale, toGateway>>

\* run_audio_sender: one report at a time on the socket
SendProgress ==
  /\ progress # <<>> /\ toGateway = <<>>
  /\ toGateway' = progress /\ progress' = <<>>
  /\ UNCHANGED <<toDevice, frames, streamIdVars, countVars, hand, speakerVars, webSocket,
                 mutes, dropped, stale>>

DeviceStep ==
  WebSocketTask \/ MainLoop \/ Mute \/ DacOutput \/ SpeakerStopped \/ SendProgress

=============================================================================
