--------------------------- MODULE PlaybackGateway ---------------------------
(***************************************************************************)
(* The assistant-audio half of DeviceSession (gateway/session.py).  Cloud  *)
(* audio deltas are cut into 20 ms frames of an output stream, queued, and *)
(* sent to the device by a task that keeps them at most Lead frames ahead  *)
(* of what the device says it has played.  Four asyncio tasks share this   *)
(* state: the cloud reader, the playback sender, the timeout watchdog and  *)
(* the loop that reads the device's socket.                                *)
(*                                                                         *)
(* One action is the code between two awaits that may suspend.  A send     *)
(* takes its place on the wire when it is requested (send_lock is fair)    *)
(* and its coroutine goes on in a later step, so whatever the other tasks  *)
(* do while a send waits is explored.                                      *)
(*                                                                         *)
(* The device is open here: it takes messages off the wire and reports any *)
(* progress.  PlaybackSystem closes the loop with the firmware.            *)
(***************************************************************************)
EXTENDS PlaybackWire

CONSTANTS
  MaxResponses,  \* bound: cloud responses in a behaviour
  MaxFrames,     \* bound: whole frames the cloud generates in a behaviour
  MaxDelta,      \* bound: whole frames completed by one audio delta
  Remainders,    \* bound: whether a delta may end inside a frame
  MaxTurns,      \* bound: times the user stops speaking or mutes, or the cloud errs
  MaxTimeouts,   \* bound: times the watchdog gives up on a stream
  GatewayQueue,  \* playback_queue's maxsize, in packets
  Lead,          \* max_device_playback_lead_ms, in frames
  Warmup,        \* BARGE_IN_WARMUP_MS, in frames
  BargeIn        \* settings.barge_in_enabled

ASSUME BoundsAssumption ==
  /\ MaxResponses \in Nat
  /\ MaxFrames \in Nat /\ MaxDelta \in Nat
  /\ Remainders \subseteq BOOLEAN /\ MaxTurns \in Nat /\ MaxTimeouts \in Nat
ASSUME QueueAssumption == GatewayQueue \in Nat
ASSUME LeadAssumption == Lead \in Nat \ {0}
ASSUME BargeInAssumption == Warmup \in Nat /\ BargeIn \in BOOLEAN

Responses == 1 .. MaxResponses
EndMarker == 0                 \* PlaybackPacket.data is None; frames count from 1
Packet == [stream : Streams, data : Nat]

VARIABLES
  output,      \* the current OutputStream, or None
  created,     \* how many streams have been opened; the newest one's number
  response,    \* OutputStream.response_id (one item per response)
  framed,      \* frames of the stream put on playback_queue so far
  played,      \* OutputStream.played_ms, in frames
  sent,        \* OutputStream.sent_ms, in frames
  endQueued,   \* OutputStream.end_queued
  ended,       \* OutputStream.ended
  kept,        \* audio the cloud was told to keep when it truncated the stream
  buffer,      \* whose samples output_buffer holds, None when it is empty
  queue,       \* playback_queue
  progressed,  \* playback_progress_event
  state,       \* DeviceState
  cancelled,   \* cancelled_response_ids
  reader,      \* where the cloud reader is suspended
  delta,       \* the audio delta it holds across the sends of playback.start
  interrupted, \* the stream interrupt() holds across its sends
  sender,      \* where the playback sender is suspended
  packet,      \* the packet it holds
  timeouts,    \* times the watchdog gave up
  watch,       \* where _watch_timeouts is suspended
  turns,       \* times the user stopped speaking or muted, or the cloud erred
  current,     \* the cloud's response in progress
  generated,   \* frames the cloud has generated
  audioDone    \* whether its response.output_audio.done has been delivered

streamVars == <<response, framed, played, sent, endQueued, ended, kept>>
watchVars == <<watch, timeouts>>
taskVars == <<reader, delta, interrupted, sender, packet, watchVars>>
cloudVars == <<turns, current, generated, audioDone>>
gatewayVars == <<output, created, streamVars, buffer, queue, progressed, state,
                 cancelled, taskVars, cloudVars>>

Counter == [Streams -> Nat]
Flag == [Streams -> BOOLEAN]

\* A delta completes frames, and leaves a partial one when rest holds.
Delta == [frames : Nat, rest : BOOLEAN]
NoDelta == [frames |-> 0, rest |-> FALSE]
NoPacket == [stream |-> None, data |-> EndMarker]

GatewayTypeOK ==
  /\ output \in Streams \cup {None}
  /\ created \in 0 .. MaxStreams
  /\ response \in Counter
  /\ framed \in Counter
  /\ played \in Counter
  /\ sent \in Counter
  /\ endQueued \in Flag
  /\ ended \in Flag
  /\ kept \in Counter
  /\ buffer \in Streams \cup {None}
  /\ queue \in Seq(Packet) /\ Len(queue) <= GatewayQueue
  /\ progressed \in BOOLEAN
  /\ state \in {"listening", "thinking", "speaking", "error", "muted"}
  /\ cancelled \subseteq Nat
  /\ reader \in {"idle", "starting", "speaking", "flushing", "truncating",
                "failing", "dead"}
  /\ delta \in Delta
  /\ interrupted \in Streams \cup {None}
  /\ sender \in {"get", "pacing", "waiting", "sending", "ending"}
  /\ packet \in Packet \cup {NoPacket}
  /\ timeouts \in 0 .. MaxTimeouts
  /\ watch \in {"sleep", "flushing"}
  /\ turns \in 0 .. MaxTurns
  /\ current \in Nat
  /\ generated \in Nat
  /\ audioDone \in BOOLEAN
  /\ toDevice \in Seq(Message)

GatewayInit ==
  /\ output = None /\ created = 0
  /\ response = [s \in Streams |-> 0]
  /\ framed = [s \in Streams |-> 0]
  /\ played = [s \in Streams |-> 0]
  /\ sent = [s \in Streams |-> 0]
  /\ endQueued = [s \in Streams |-> FALSE]
  /\ ended = [s \in Streams |-> FALSE]
  /\ kept = [s \in Streams |-> 0]
  /\ buffer = None /\ queue = <<>> /\ progressed = FALSE
  /\ state = "listening" /\ cancelled = {}
  /\ reader = "idle" /\ delta = NoDelta
  /\ interrupted = None
  /\ sender = "get" /\ packet = NoPacket
  /\ watch = "sleep" /\ timeouts = 0
  /\ turns = 0 /\ current = 1 /\ generated = 0 /\ audioDone = FALSE
  /\ toDevice = <<>>

-----------------------------------------------------------------------------
(* The cloud reader: handle_openai_event, one event at a time.             *)

\* Mutant of QueueAudio: the queue is unbounded.
QueueAudioUnbounded(frames, rest) ==
  /\ queue' = queue \o [i \in 1 .. frames |-> [stream |-> output, data |-> framed[output] + i]]
  /\ framed' = [framed EXCEPT ![output] = @ + frames]
  /\ buffer' = IF rest THEN output ELSE None
  /\ reader' = "idle"

\* put_nowait for each complete frame; on a full queue it raises and the frames
\* not yet cut stay in the buffer.
QueueAudio(frames, rest) ==
  LET room == Minimum(frames, GatewayQueue - Len(queue)) IN
  /\ queue' = queue \o [i \in 1 .. room |-> [stream |-> output, data |-> framed[output] + i]]
  /\ framed' = [framed EXCEPT ![output] = @ + room]
  /\ buffer' = IF rest \/ room + 1 < frames THEN output ELSE None
  /\ reader' = IF room < frames THEN "failing" ELSE "idle"

\* An exception ends the reader's task; it reports gateway.transport_error,
\* which is sent to the device before the state becomes ERROR.
TransportError ==
  /\ reader = "failing"
  /\ reader' = "dead" /\ state' = "error"
  /\ UNCHANGED <<output, created, streamVars, buffer, queue, progressed, cancelled,
                 delta, interrupted, sender, packet, watchVars, cloudVars, toDevice>>

\* The next delta of the response in progress: it completes `frames` frames
\* and leaves a partial one in the buffer when rest holds.
CloudDelta(frames, rest) ==
  /\ reader = "idle"
  /\ current \in Responses /\ ~audioDone
  /\ current \notin cancelled
  /\ generated + frames <= MaxFrames
  /\ frames = 0 => rest
  /\ generated' = generated + frames

\* The current stream carries response r.
Streaming(r) == output # None /\ response[output] = r

\* Mutant of StartStream: the partial frame of the stream before is kept.
StartStreamKeepsBuffer(frames, rest) ==
  /\ CloudDelta(frames, rest)
  /\ ~Streaming(current)
  /\ created < MaxStreams
  /\ created' = created + 1
  /\ output' = created'
  /\ response' = [response EXCEPT ![created'] = current]
  /\ Send("start", created', 0)
  /\ delta' = [frames |-> frames, rest |-> rest]
  /\ reader' = "starting"
  /\ UNCHANGED <<framed, played, sent, endQueued, ended, kept, buffer, queue, progressed,
                 state, cancelled, interrupted, sender, packet, watchVars,
                 turns, current, audioDone>>

\* _audio_delta opening a stream: playback.start is sent with the frames held back.
StartStream(frames, rest) ==
  /\ CloudDelta(frames, rest)
  /\ ~Streaming(current)
  /\ created < MaxStreams
  /\ created' = created + 1
  /\ output' = created'
  /\ response' = [response EXCEPT ![created'] = current]
  /\ buffer' = None
  /\ Send("start", created', 0)
  /\ delta' = [frames |-> frames, rest |-> rest]
  /\ reader' = "starting"
  /\ UNCHANGED <<framed, played, sent, endQueued, ended, kept, queue, progressed,
                 state, cancelled, interrupted, sender, packet, watchVars, turns, current,
                 audioDone>>

\* playback.start is out: set_state(SPEAKING) and its send.
StartSent ==
  /\ reader = "starting"
  /\ reader' = "speaking" /\ state' = "speaking"
  /\ UNCHANGED <<output, created, streamVars, buffer, queue, progressed, cancelled,
                 delta, interrupted, sender, packet, watchVars, cloudVars, toDevice>>

\* The rest of _audio_delta.  When the stream was completed under its feet
\* self.output is None and the attribute access raises.
StreamAnnounced ==
  /\ reader = "speaking"
  /\ delta' = NoDelta
  /\ IF output = None
     THEN reader' = "failing" /\ UNCHANGED <<queue, framed, buffer>>
     ELSE QueueAudio(delta.frames, delta.rest)
  /\ UNCHANGED <<output, created, response, played, sent, endQueued, ended, kept,
                 progressed, state, cancelled, interrupted, sender, packet, watchVars,
                 cloudVars, toDevice>>

\* _audio_delta of the stream already open.
AppendDelta(frames, rest) ==
  /\ CloudDelta(frames, rest)
  /\ Streaming(current)
  /\ QueueAudio(frames, rest)
  /\ UNCHANGED <<output, created, response, played, sent, endQueued, ended, kept,
                 progressed, state, cancelled, delta, interrupted, sender, packet, watchVars,
                 turns, current, audioDone, toDevice>>

\* Mutant of FinishAudioFrame: the end marker is queued before the padded frame.
FinishEndFirst ==
  IF output = None \/ endQueued[output]
  THEN UNCHANGED <<queue, framed, buffer, endQueued>>
  ELSE LET last == IF buffer = None THEN <<>>
                   ELSE <<[stream |-> output, data |-> framed[output] + 1]>>
           room == GatewayQueue - Len(queue)
           all  == <<[stream |-> output, data |-> EndMarker]>> \o last
       IN /\ queue' = queue \o SubSeq(all, 1, Minimum(room, Len(all)))
          /\ framed' = [framed EXCEPT ![output] = @ + Minimum(room, Len(last))]
          /\ buffer' = IF room < Len(last) THEN buffer ELSE None
          /\ endQueued' = [endQueued EXCEPT ![output] = room >= Len(last)]

\* Mutant of FinishAudioFrame: end_queued is not looked at.
FinishAgain ==
  IF output = None
  THEN UNCHANGED <<queue, framed, buffer, endQueued>>
  ELSE /\ Len(queue) < GatewayQueue
       /\ queue' = Append(queue, [stream |-> output, data |-> EndMarker])
       /\ endQueued' = [endQueued EXCEPT ![output] = TRUE]
       /\ UNCHANGED <<framed, buffer>>

\* _finish_audio_frame: pad the last partial frame, then queue the end marker
\* once.  What the queue has no room for raises.
FinishAudioFrame ==
  IF output = None \/ endQueued[output]
  THEN UNCHANGED <<queue, framed, buffer, endQueued>>
  ELSE LET last == IF buffer = None THEN <<>>
                   ELSE <<[stream |-> output, data |-> framed[output] + 1]>>
           room == GatewayQueue - Len(queue)
           all  == last \o <<[stream |-> output, data |-> EndMarker]>>
       IN /\ queue' = queue \o SubSeq(all, 1, Minimum(room, Len(all)))
          /\ framed' = [framed EXCEPT ![output] = @ + Minimum(room, Len(last))]
          /\ buffer' = IF room < Len(last) THEN buffer ELSE None
          /\ endQueued' = [endQueued EXCEPT ![output] = room >= Len(last)]

\* Whether FinishAudioFrame finds room for all it has to queue.
FinishFits ==
  \/ output = None \/ endQueued[output]
  \/ Len(queue) + (IF buffer = None THEN 1 ELSE 2) <= GatewayQueue

\* response.output_audio.done
OutputAudioDone ==
  /\ reader = "idle" /\ current \in Responses /\ ~audioDone
  /\ audioDone' = TRUE
  /\ FinishAudioFrame
  /\ reader' = IF FinishFits THEN "idle" ELSE "failing"
  /\ UNCHANGED <<output, created, response, played, sent, ended, kept, progressed, state,
                 cancelled, delta, interrupted, sender, packet, watchVars, turns, current,
                 generated,
                 toDevice>>

\* response.done, which may arrive without an output_audio.done before it.
ResponseDone ==
  /\ reader = "idle" /\ current \in Responses
  /\ current' = current + 1 /\ audioDone' = FALSE
  /\ FinishAudioFrame
  /\ reader' = IF FinishFits THEN "idle" ELSE "failing"
  /\ state' = IF FinishFits /\ output = None THEN "listening" ELSE state
  /\ UNCHANGED <<output, created, response, played, sent, ended, kept, progressed,
                 cancelled, delta, interrupted, sender, packet, watchVars, turns,
                 generated, toDevice>>

\* speech_started past the warm-up and echo guards: interrupt() sends the flush.
SpeechStarted ==
  /\ reader = "idle" /\ output # None
  /\ BargeIn /\ played[output] >= Warmup
  /\ cancelled' = cancelled \cup {response[output]}
  /\ interrupted' = output
  /\ Send("flush", output, 0)
  /\ reader' = "flushing"
  /\ UNCHANGED <<output, created, streamVars, buffer, queue, progressed, state,
                 delta, sender, packet, watchVars, cloudVars>>

\* The flush is out: tell the cloud how much of the stream was heard.
Truncate ==
  /\ reader = "flushing"
  /\ reader' = "truncating"
  /\ kept' = [kept EXCEPT ![interrupted] = played[interrupted]]
  /\ UNCHANGED <<output, created, response, framed, played, sent, endQueued, ended,
                 buffer, queue, progressed, state, cancelled, delta, interrupted,
                 sender, packet, watchVars, cloudVars, toDevice>>

\* The truncation is out: drop the stream and everything queued for it.
Interrupted ==
  /\ reader = "truncating"
  /\ reader' = "idle"
  /\ interrupted' = None
  /\ output' = None /\ buffer' = None /\ queue' = <<>>
  /\ progressed' = TRUE /\ state' = "listening"
  /\ UNCHANGED <<created, streamVars, cancelled, delta, sender, packet,
                 watchVars, cloudVars, toDevice>>

\* speech_stopped, past the warm-up guard
SpeechStopped ==
  /\ reader = "idle"
  /\ turns < MaxTurns /\ turns' = turns + 1
  /\ state' = "thinking"
  /\ UNCHANGED <<output, created, streamVars, buffer, queue, progressed, cancelled,
                 taskVars, current, generated, audioDone, toDevice>>

\* error: the cloud complains of something and the session goes on.
CloudError ==
  /\ reader = "idle"
  /\ turns < MaxTurns /\ turns' = turns + 1
  /\ state' = "error"
  /\ UNCHANGED <<output, created, streamVars, buffer, queue, progressed, cancelled,
                 taskVars, current, generated, audioDone, toDevice>>

Reader ==
  \/ \E frames \in 0 .. MaxDelta, rest \in Remainders :
       StartStream(frames, rest) \/ AppendDelta(frames, rest)
  \/ StartSent \/ StreamAnnounced \/ TransportError
  \/ OutputAudioDone \/ ResponseDone
  \/ SpeechStarted \/ Truncate \/ Interrupted \/ SpeechStopped \/ CloudError

-----------------------------------------------------------------------------
(* The playback sender: _playback_sender and _wait_for_playback_capacity.  *)

IsCurrent(p) == output # None /\ output = p.stream

\* Take a packet; one of a stream no longer current is dropped.
TakePacket ==
  /\ sender = "get" /\ queue # <<>>
  /\ queue' = Tail(queue)
  /\ packet' = IF IsCurrent(Head(queue)) THEN Head(queue) ELSE NoPacket
  /\ IF ~IsCurrent(Head(queue))
     THEN UNCHANGED <<sender, toDevice>>
     ELSE IF Head(queue).data = EndMarker
     THEN sender' = "ending" /\ Send("end", output, sent[output])
     ELSE sender' = "pacing" /\ UNCHANGED toDevice
  /\ UNCHANGED <<output, created, streamVars, buffer, progressed, state, cancelled,
                 reader, delta, interrupted, watchVars, cloudVars>>

\* playback.end is out.
EndSent ==
  /\ sender = "ending"
  /\ sender' = "get" /\ packet' = NoPacket
  /\ ended' = [ended EXCEPT ![packet.stream] = TRUE]
  /\ UNCHANGED <<output, created, response, framed, played, sent, endQueued, kept, buffer,
                 queue, progressed, state, cancelled, reader, delta, interrupted,
                 watchVars, cloudVars, toDevice>>

\* Mutant of SendFrame: the current stream is not looked at again after the wait.
SendFrameUnchecked ==
  /\ sender = "pacing"
  /\ IF sent[packet.stream] < played[packet.stream] + Lead
     THEN sender' = "sending" /\ Send("frame", packet.stream, packet.data)
          /\ UNCHANGED progressed
     ELSE sender' = "waiting" /\ progressed' = FALSE /\ UNCHANGED toDevice
  /\ UNCHANGED <<output, created, streamVars, buffer, queue, state, cancelled, reader,
                 delta, interrupted, packet, watchVars, cloudVars>>

\* Mutant of SendFrame: one frame more than the lead.
SendFrameOverLead ==
  /\ sender = "pacing"
  /\ IF ~IsCurrent(packet)
     THEN sender' = "get" /\ packet' = NoPacket /\ UNCHANGED <<progressed, toDevice>>
     ELSE IF sent[output] <= played[output] + Lead
     THEN sender' = "sending" /\ Send("frame", packet.stream, packet.data)
          /\ UNCHANGED <<progressed, packet>>
     ELSE sender' = "waiting" /\ progressed' = FALSE /\ UNCHANGED <<packet, toDevice>>
  /\ UNCHANGED <<output, created, streamVars, buffer, queue, state, cancelled, reader,
                 delta, interrupted, watchVars, cloudVars>>

\* The frame's time has come: send it if the device is less than Lead behind,
\* otherwise clear the event and wait for progress.
SendFrame ==
  /\ sender = "pacing"
  /\ IF ~IsCurrent(packet)
     THEN sender' = "get" /\ packet' = NoPacket /\ UNCHANGED <<progressed, toDevice>>
     ELSE IF sent[output] < played[output] + Lead
     THEN sender' = "sending" /\ Send("frame", packet.stream, packet.data)
          /\ UNCHANGED <<progressed, packet>>
     ELSE sender' = "waiting" /\ progressed' = FALSE /\ UNCHANGED <<packet, toDevice>>
  /\ UNCHANGED <<output, created, streamVars, buffer, queue, state, cancelled, reader,
                 delta, interrupted, watchVars, cloudVars>>

\* playback_progress_event was set: look at the capacity again.
CapacityAwaited ==
  /\ sender = "waiting" /\ progressed
  /\ sender' = "pacing"
  /\ UNCHANGED <<output, created, streamVars, buffer, queue, progressed, state, cancelled,
                 reader, delta, interrupted, packet, watchVars, cloudVars, toDevice>>

\* The frame is out.
FrameSent ==
  /\ sender = "sending"
  /\ sender' = "get" /\ packet' = NoPacket
  /\ sent' = [sent EXCEPT ![packet.stream] = @ + 1]
  /\ UNCHANGED <<output, created, response, framed, played, endQueued, ended, kept, buffer,
                 queue, progressed, state, cancelled, reader, delta, interrupted,
                 watchVars, cloudVars, toDevice>>

Sender == TakePacket \/ EndSent \/ SendFrame \/ CapacityAwaited \/ FrameSent

-----------------------------------------------------------------------------
(* Completion: device progress, and the watchdog behind it.                *)

\* Mutant of CompletePlayback: the state is left as it was.
CompleteSilently == output' = None /\ progressed' = TRUE /\ UNCHANGED state

\* _complete_playback: whatever stream is current is over.
CompletePlayback ==
  /\ output' = None /\ progressed' = TRUE /\ state' = "listening"

\* Mutant of PlaybackProgress: a report that completes nothing wakes nobody.
ProgressWithoutEvent(s, n) ==
  /\ IF output = None \/ output # s
     THEN UNCHANGED <<output, played, progressed, state>>
     ELSE /\ played' = [played EXCEPT ![s] = Minimum(n, sent[s])]
          /\ IF ended[s] /\ Minimum(n, sent[s]) + Tolerance >= sent[s]
             THEN CompletePlayback
             ELSE UNCHANGED <<output, progressed, state>>
  /\ UNCHANGED <<created, response, framed, sent, endQueued, ended, kept, buffer, queue,
                 cancelled, taskVars, cloudVars, toDevice>>

\* playback_progress, from the task that reads the device's socket
PlaybackProgress(s, n) ==
  /\ IF output = None \/ output # s
     THEN UNCHANGED <<output, played, progressed, state>>
     ELSE /\ played' = [played EXCEPT ![s] = Minimum(n, sent[s])]
          /\ IF ended[s] /\ Minimum(n, sent[s]) + Tolerance >= sent[s]
             THEN CompletePlayback
             ELSE progressed' = TRUE /\ UNCHANGED <<output, state>>
  /\ UNCHANGED <<created, response, framed, sent, endQueued, ended, kept, buffer, queue,
                 cancelled, taskVars, cloudVars, toDevice>>

\* _watch_timeouts: two seconds after the end marker the stream is still there.
WatchdogFlush ==
  /\ watch = "sleep"
  /\ output # None /\ ended[output]
  /\ timeouts < MaxTimeouts /\ timeouts' = timeouts + 1
  /\ watch' = "flushing" /\ Send("flush", output, 0)
  /\ UNCHANGED <<output, created, streamVars, buffer, queue, progressed, state, cancelled,
                 reader, delta, interrupted, sender, packet, cloudVars>>

\* Its flush is out: complete the stream that is current by now, if any.
WatchdogComplete ==
  /\ watch = "flushing"
  /\ watch' = "sleep"
  /\ IF output = None THEN UNCHANGED <<output, progressed, state>> ELSE CompletePlayback
  /\ UNCHANGED <<created, streamVars, buffer, queue, cancelled, reader, delta, interrupted,
                 sender, packet, timeouts, cloudVars, toDevice>>

Watchdog == WatchdogFlush \/ WatchdogComplete

GatewayStep == Reader \/ Sender \/ Watchdog

-----------------------------------------------------------------------------
(* The open device: it reads its messages in order and reports anything.   *)

DeviceReads ==
  /\ toDevice # <<>> /\ toDevice' = Tail(toDevice)
  /\ UNCHANGED gatewayVars

\* The device reports that it has been muted.
MuteReported ==
  /\ turns < MaxTurns /\ turns' = turns + 1
  /\ state' = "muted"
  /\ UNCHANGED <<output, created, streamVars, buffer, queue, progressed, cancelled,
                 taskVars, current, generated, audioDone, toDevice>>

DeviceReports == \E s \in Streams, n \in 0 .. MaxFrames : PlaybackProgress(s, n)

GatewayNext == GatewayStep \/ DeviceReads \/ DeviceReports \/ MuteReported

GatewaySpec == GatewayInit /\ [][GatewayNext]_<<gatewayVars, toDevice>>

-----------------------------------------------------------------------------
(* Properties.                                                             *)

\* What may follow message a on the wire.
MayFollow(a, b) ==
  \/ a.stream < b.stream
  \/ /\ a.stream = b.stream /\ b.kind # "start"
     /\ a.kind = "end" => b.kind = "flush"
     /\ a.kind = "frame" /\ b.kind = "frame" => a.n < b.n

\* Binary frames carry no stream id, so their place on the wire is all that ties
\* them to a stream: whatever waits between queue, sender and socket, nothing of
\* an older stream follows the start of a newer one, the frames of a stream are
\* sent in order and once, and its only end marker comes after all of them.
WireInOrder ==
  \A i, j \in DOMAIN toDevice : i < j => MayFollow(toDevice[i], toDevice[j])

\* When playback.end of the current stream has been sent, so has every frame cut
\* from its audio, the padded last one included (audio_match of _complete_playback).
EndedMeansAllSent ==
  output # None => (ended[output] =>
    buffer = None /\ sent[output] = framed[output] /\ framed[output] > 0)

\* A partial frame is only ever completed with audio of the stream it came from:
\* interrupt() and a superseding response leave no samples behind.
NoMixedFrame == output # None => buffer \in {None, output}

\* SPEAKING means a stream is being played and LISTENING, in which the idle timeout
\* runs, that none is, whichever of reader, device progress and watchdog ended the
\* last one, and whatever the reader was sending then.
StateMatchesOutput ==
  /\ state = "speaking" /\ reader \notin {"starting", "speaking", "failing"} => output # None
  /\ state = "listening" /\ reader # "starting" => output = None

\* Once a barge-in has been handled nothing of the cancelled response is sent, and
\* while it is handled only frames of the stream being dropped are: the sender
\* looks at the current stream again after every wait.
CancelledIsSilent ==
  [][\A s \in Streams :
       toDevice' = Append(toDevice, [kind |-> "frame", stream |-> s, n |-> packet.data])
         => \/ response[s] \notin cancelled
            \/ reader \in {"flushing", "truncating"} /\ s = interrupted
    ]_<<gatewayVars, toDevice>>

=============================================================================
