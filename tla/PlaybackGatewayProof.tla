------------------------- MODULE PlaybackGatewayProof -------------------------
(***************************************************************************)
(* PlaybackGateway is type correct, and WireInOrder holds of it, for every *)
(* device and every bound.                                                 *)
(*                                                                         *)
(* WireInOrder is not inductive as it stands: what keeps the next frame or *)
(* end marker in order is how the audio of the current stream lies in the  *)
(* queue, in the sender's hands and on the wire, and that the cloud reader *)
(* adds nothing to a stream whose end it has queued.                       *)
(***************************************************************************)
EXTENDS PlaybackGateway, TLAPS

\* Counters and flags of the streams stay so when one of them is set.
LEMMA CounterUpdate ==
  ASSUME NEW f \in Counter, NEW s, NEW n \in Nat
  PROVE  [f EXCEPT ![s] = n] \in Counter
  BY DEF Counter

LEMMA CounterIncrement ==
  ASSUME NEW f \in Counter, NEW s
  PROVE  [f EXCEPT ![s] = @ + 1] \in Counter
<1>1. CASE s \in Streams
  BY <1>1 DEF Counter
<1>2. CASE s \notin Streams
  BY <1>2 DEF Counter
<1> QED BY <1>1, <1>2

LEMMA CounterCopy ==
  ASSUME NEW f \in Counter, NEW g \in Counter, NEW s
  PROVE  [f EXCEPT ![s] = g[s]] \in Counter
<1>1. CASE s \in Streams
  BY <1>1 DEF Counter
<1>2. CASE s \notin Streams
  BY <1>2 DEF Counter
<1> QED BY <1>1, <1>2

LEMMA FlagUpdate ==
  ASSUME NEW f \in Flag, NEW s, NEW b \in BOOLEAN
  PROVE  [f EXCEPT ![s] = b] \in Flag
  BY DEF Flag

\* What Send appends to the wire is a message.
LEMMA SendType ==
  ASSUME NEW kind \in {"start", "frame", "end", "flush"}, NEW s \in Streams, NEW n \in Nat,
         toDevice \in Seq(Message), Send(kind, s, n)
  PROVE  toDevice' \in Seq(Message)
  BY DEF Send, Message

\* What QueueAudio leaves in the queue and the counters.
LEMMA QueueAudioType ==
  ASSUME NEW f \in Nat, NEW r \in BOOLEAN, GatewayTypeOK, output # None, QueueAudio(f, r)
  PROVE  /\ queue' \in Seq(Packet) /\ Len(queue') <= GatewayQueue
         /\ framed' \in Counter
         /\ buffer' \in Streams \cup {None}
         /\ reader' \in {"idle", "failing"}
<1> DEFINE room == Minimum(f, GatewayQueue - Len(queue))
           added == [i \in 1 .. room |-> [stream |-> output, data |-> framed[output] + i]]
<1>1. room \in Nat /\ room <= GatewayQueue - Len(queue)
  BY QueueAssumption DEF GatewayTypeOK, Minimum
<1>2. output \in Streams /\ framed[output] \in Nat
  BY DEF GatewayTypeOK, Counter
<1>3. added \in Seq(Packet) /\ Len(added) = room
  <2> HIDE DEF room
  <2>1. \A i \in 1 .. room : [stream |-> output, data |-> framed[output] + i] \in Packet
    BY <1>1, <1>2 DEF Packet
  <2>2. added \in [1 .. room -> Packet]
    BY <2>1
  <2>3. DOMAIN added = 1 .. room
    OBVIOUS
  <2> HIDE DEF added
  <2> QED BY <1>1, <2>2, <2>3
<1>4. queue' = queue \o added
  BY DEF QueueAudio
<1>5. queue' \in Seq(Packet) /\ Len(queue') <= GatewayQueue
  <2> HIDE DEF added, room
  <2> QED BY <1>1, <1>3, <1>4, QueueAssumption DEF GatewayTypeOK
<1>6. framed' \in Counter
  <2>1. framed' = [framed EXCEPT ![output] = framed[output] + room]
    BY <1>2 DEF QueueAudio
  <2>2. framed[output] + room \in Nat
    BY <1>1, <1>2
  <2> HIDE DEF room
  <2>3. framed \in Counter
    BY DEF GatewayTypeOK
  <2> QED BY <2>1, <2>2, <2>3, CounterUpdate
<1>7. buffer' \in Streams \cup {None} /\ reader' \in {"idle", "failing"}
  BY <1>2 DEF QueueAudio
<1> QED BY <1>5, <1>6, <1>7

\* What FinishAudioFrame leaves in the queue and the counters.
LEMMA FinishType ==
  ASSUME GatewayTypeOK, FinishAudioFrame
  PROVE  /\ queue' \in Seq(Packet) /\ Len(queue') <= GatewayQueue
         /\ framed' \in Counter
         /\ buffer' \in Streams \cup {None}
         /\ endQueued' \in Flag
<1>1. CASE output = None \/ endQueued[output]
  BY <1>1 DEF FinishAudioFrame, GatewayTypeOK
<1>2. CASE ~(output = None \/ endQueued[output])
  <2> DEFINE last == IF buffer = None THEN <<>>
                     ELSE <<[stream |-> output, data |-> framed[output] + 1]>>
             room == GatewayQueue - Len(queue)
             all  == last \o <<[stream |-> output, data |-> EndMarker]>>
             n    == Minimum(room, Len(all))
             added == SubSeq(all, 1, n)
  <2>1. output \in Streams /\ framed[output] \in Nat
    BY <1>2 DEF GatewayTypeOK, Counter
  <2>2. last \in Seq(Packet) /\ Len(last) \in Nat
    <3>1. [stream |-> output, data |-> framed[output] + 1] \in Packet
      BY <2>1 DEF Packet
    <3>2. <<[stream |-> output, data |-> framed[output] + 1]>> \in Seq(Packet)
      BY <3>1
    <3>3. last \in Seq(Packet)
      BY <3>2
    <3> QED BY <3>3
  <2>3. all \in Seq(Packet)
    <3>1. <<[stream |-> output, data |-> EndMarker]>> \in Seq(Packet)
      BY <2>1 DEF Packet, EndMarker
    <3> QED BY <2>2, <3>1
  <2>4. room \in Nat
    BY QueueAssumption DEF GatewayTypeOK
  <2>5. n \in 0 .. Len(all) /\ n <= room
    BY <2>3, <2>4 DEF Minimum
  <2>6. added \in Seq(Packet) /\ Len(added) = n
    <3> HIDE DEF all, n
    <3> QED BY <2>3, <2>5
  <2>7. queue' = queue \o added
    BY <1>2 DEF FinishAudioFrame
  <2>8. queue' \in Seq(Packet) /\ Len(queue') <= GatewayQueue
    <3> HIDE DEF added, n
    <3> QED BY <2>4, <2>5, <2>6, <2>7, QueueAssumption DEF GatewayTypeOK
  <2>9. Minimum(room, Len(last)) \in Nat
    BY <2>2, <2>4 DEF Minimum
  <2>10. framed' = [framed EXCEPT ![output] = framed[output] + Minimum(room, Len(last))]
    BY <1>2 DEF FinishAudioFrame
  <2>11. framed' \in Counter
    <3>1. framed[output] + Minimum(room, Len(last)) \in Nat
      BY <2>1, <2>9
    <3>2. framed \in Counter
      BY DEF GatewayTypeOK
    <3> HIDE DEF last, room
    <3> QED BY <2>10, <3>1, <3>2, CounterUpdate
  <2>12. buffer' \in Streams \cup {None} /\ endQueued' \in Flag
    <3>1. buffer' = (IF room < Len(last) THEN buffer ELSE None)
      BY <1>2 DEF FinishAudioFrame
    <3>2. endQueued' = [endQueued EXCEPT ![output] = room >= Len(last)]
      BY <1>2 DEF FinishAudioFrame
    <3>3. (room >= Len(last)) \in BOOLEAN
      BY <2>2, <2>4
    <3>4. buffer \in Streams \cup {None} /\ endQueued \in Flag
      BY DEF GatewayTypeOK
    <3>5. buffer' \in Streams \cup {None}
      BY <3>1, <3>4
    <3> HIDE DEF last, room
    <3> QED BY <3>2, <3>3, <3>4, <3>5, FlagUpdate
  <2> QED BY <2>8, <2>11, <2>12
<1> QED BY <1>1, <1>2

\* The types hold initially.
LEMMA GatewayInitType == GatewayInit => GatewayTypeOK
<1> SUFFICES ASSUME GatewayInit PROVE GatewayTypeOK
  OBVIOUS
<1>1. /\ response \in Counter /\ framed \in Counter
      /\ played \in Counter /\ sent \in Counter
      /\ kept \in Counter
      /\ endQueued \in Flag /\ ended \in Flag
  BY DEF GatewayInit, Counter, Flag
<1>2. queue \in Seq(Packet) /\ Len(queue) <= GatewayQueue /\ toDevice \in Seq(Message)
  BY QueueAssumption DEF GatewayInit
<1>3. created \in 0 .. MaxStreams /\ timeouts \in 0 .. MaxTimeouts /\ turns \in 0 .. MaxTurns
  BY StreamsAssumption, BoundsAssumption DEF GatewayInit
<1>4. delta \in Delta /\ packet \in Packet \cup {NoPacket}
  BY DEF GatewayInit, NoDelta, Delta
<1>5. /\ output \in Streams \cup {None} /\ buffer \in Streams \cup {None}
      /\ interrupted \in Streams \cup {None}
      /\ cancelled \subseteq Nat /\ current \in Nat /\ generated \in Nat
  BY DEF GatewayInit
<1>6. /\ progressed \in BOOLEAN /\ audioDone \in BOOLEAN
      /\ state \in {"listening", "thinking", "speaking", "error", "muted"}
      /\ reader \in {"idle", "starting", "speaking", "flushing", "truncating", "failing", "dead"}
      /\ sender \in {"get", "pacing", "waiting", "sending", "ending"}
      /\ watch \in {"sleep", "flushing"}
  BY DEF GatewayInit
<1> QED
  BY <1>1, <1>2, <1>3, <1>4, <1>5, <1>6 DEF GatewayTypeOK

\* Steps that touch neither the queue nor the wire, or only empty the queue.
LEMMA StartSentType == GatewayTypeOK /\ StartSent => GatewayTypeOK'
  BY DEF GatewayTypeOK, StartSent, streamVars, taskVars, watchVars, cloudVars

LEMMA TransportErrorType == GatewayTypeOK /\ TransportError => GatewayTypeOK'
  BY DEF GatewayTypeOK, TransportError, streamVars, taskVars, watchVars, cloudVars

LEMMA TruncateType == GatewayTypeOK /\ Truncate => GatewayTypeOK'
<1> SUFFICES ASSUME GatewayTypeOK, Truncate PROVE GatewayTypeOK'
  OBVIOUS
<1>1. kept' \in Counter
  BY CounterCopy DEF GatewayTypeOK, Truncate
<1> QED
  BY <1>1 DEF GatewayTypeOK, Truncate, streamVars, taskVars, watchVars, cloudVars

LEMMA CapacityAwaitedType == GatewayTypeOK /\ CapacityAwaited => GatewayTypeOK'
  BY DEF GatewayTypeOK, CapacityAwaited, streamVars, taskVars, watchVars, cloudVars

LEMMA InterruptedType == GatewayTypeOK /\ Interrupted => GatewayTypeOK'
<1> SUFFICES ASSUME GatewayTypeOK, Interrupted PROVE GatewayTypeOK'
  OBVIOUS
<1>1. queue' \in Seq(Packet) /\ Len(queue') <= GatewayQueue
  BY QueueAssumption DEF Interrupted
<1> QED
  BY <1>1 DEF GatewayTypeOK, Interrupted, streamVars, taskVars, watchVars, cloudVars

LEMMA SpeechStoppedType == GatewayTypeOK /\ SpeechStopped => GatewayTypeOK'
<1> SUFFICES ASSUME GatewayTypeOK, SpeechStopped PROVE GatewayTypeOK'
  OBVIOUS
<1>1. turns' \in 0 .. MaxTurns
  BY BoundsAssumption DEF GatewayTypeOK, SpeechStopped
<1> QED
  BY <1>1 DEF GatewayTypeOK, SpeechStopped, streamVars, taskVars, watchVars, cloudVars

LEMMA CloudErrorType == GatewayTypeOK /\ CloudError => GatewayTypeOK'
<1> SUFFICES ASSUME GatewayTypeOK, CloudError PROVE GatewayTypeOK'
  OBVIOUS
<1>1. turns' \in 0 .. MaxTurns
  BY BoundsAssumption DEF GatewayTypeOK, CloudError
<1> QED
  BY <1>1 DEF GatewayTypeOK, CloudError, streamVars, taskVars, watchVars, cloudVars

LEMMA MuteReportedType == GatewayTypeOK /\ MuteReported => GatewayTypeOK'
<1> SUFFICES ASSUME GatewayTypeOK, MuteReported PROVE GatewayTypeOK'
  OBVIOUS
<1>1. turns' \in 0 .. MaxTurns
  BY BoundsAssumption DEF GatewayTypeOK, MuteReported
<1> QED
  BY <1>1 DEF GatewayTypeOK, MuteReported, streamVars, taskVars, watchVars, cloudVars

LEMMA EndSentType == GatewayTypeOK /\ EndSent => GatewayTypeOK'
<1> SUFFICES ASSUME GatewayTypeOK, EndSent PROVE GatewayTypeOK'
  OBVIOUS
<1>1. ended' \in Flag
  BY FlagUpdate DEF GatewayTypeOK, EndSent
<1> QED
  BY <1>1 DEF GatewayTypeOK, EndSent, streamVars, taskVars, watchVars, cloudVars

LEMMA FrameSentType == GatewayTypeOK /\ FrameSent => GatewayTypeOK'
<1> SUFFICES ASSUME GatewayTypeOK, FrameSent PROVE GatewayTypeOK'
  OBVIOUS
<1>1. sent' \in Counter
  BY CounterIncrement DEF GatewayTypeOK, FrameSent
<1> QED
  BY <1>1 DEF GatewayTypeOK, FrameSent, streamVars, taskVars, watchVars, cloudVars

LEMMA WatchdogCompleteType == GatewayTypeOK /\ WatchdogComplete => GatewayTypeOK'
<1> SUFFICES ASSUME GatewayTypeOK, WatchdogComplete PROVE GatewayTypeOK'
  OBVIOUS
<1>1. /\ output' \in Streams \cup {None} /\ progressed' \in BOOLEAN
      /\ state' \in {"listening", "thinking", "speaking", "error", "muted"}
  BY DEF GatewayTypeOK, WatchdogComplete, CompletePlayback
<1> QED
  BY <1>1 DEF GatewayTypeOK, WatchdogComplete, streamVars, taskVars, watchVars, cloudVars

\* Steps that send or queue.
LEMMA StartStreamType ==
  ASSUME GatewayTypeOK, NEW frames \in 0 .. MaxDelta, NEW rest \in BOOLEAN,
         StartStream(frames, rest)
  PROVE  GatewayTypeOK'
<1>1. current \in Nat /\ frames \in Nat /\ generated' \in Nat
  BY BoundsAssumption DEF GatewayTypeOK, StartStream, CloudDelta
<1>2. created' \in Streams /\ created' \in 0 .. MaxStreams
  BY StreamsAssumption DEF GatewayTypeOK, StartStream, Streams
<1>3. response' \in Counter
  BY <1>1, CounterUpdate DEF GatewayTypeOK, StartStream
<1>4. toDevice' \in Seq(Message)
  BY <1>2, SendType DEF GatewayTypeOK, StartStream
<1>5. delta' \in Delta
  BY <1>1 DEF StartStream, Delta
<1> QED
  BY <1>1, <1>2, <1>3, <1>4, <1>5 DEF GatewayTypeOK, StartStream, streamVars, taskVars, watchVars, cloudVars

LEMMA AppendDeltaType ==
  ASSUME GatewayTypeOK, NEW frames \in 0 .. MaxDelta, NEW rest \in BOOLEAN,
         AppendDelta(frames, rest)
  PROVE  GatewayTypeOK'
<1>1. frames \in Nat /\ generated' \in Nat
  BY BoundsAssumption DEF GatewayTypeOK, AppendDelta, CloudDelta
<1>2. output # None /\ QueueAudio(frames, rest)
  BY DEF AppendDelta, Streaming
<1>3. /\ queue' \in Seq(Packet) /\ Len(queue') <= GatewayQueue
      /\ framed' \in Counter /\ buffer' \in Streams \cup {None}
      /\ reader' \in {"idle", "failing"}
  BY <1>1, <1>2, QueueAudioType
<1> QED
  BY <1>1, <1>3 DEF GatewayTypeOK, AppendDelta, streamVars, taskVars, watchVars, cloudVars

LEMMA StreamAnnouncedType ==
  ASSUME GatewayTypeOK, StreamAnnounced
  PROVE  GatewayTypeOK'
<1>1. delta.frames \in Nat /\ delta.rest \in BOOLEAN
  BY DEF GatewayTypeOK, Delta
<1>2. /\ queue' \in Seq(Packet) /\ Len(queue') <= GatewayQueue
      /\ framed' \in Counter /\ buffer' \in Streams \cup {None}
      /\ reader' \in {"idle", "failing"}
  BY <1>1, QueueAudioType DEF GatewayTypeOK, StreamAnnounced
<1>3. delta' \in Delta
  BY DEF StreamAnnounced, NoDelta, Delta
<1> QED
  BY <1>2, <1>3 DEF GatewayTypeOK, StreamAnnounced, streamVars, taskVars, watchVars, cloudVars

LEMMA OutputAudioDoneType ==
  ASSUME GatewayTypeOK, OutputAudioDone
  PROVE  GatewayTypeOK'
<1>1. /\ queue' \in Seq(Packet) /\ Len(queue') <= GatewayQueue
      /\ framed' \in Counter /\ buffer' \in Streams \cup {None} /\ endQueued' \in Flag
  BY FinishType DEF OutputAudioDone
<1> QED
  BY <1>1 DEF GatewayTypeOK, OutputAudioDone, streamVars, taskVars, watchVars, cloudVars

LEMMA ResponseDoneType ==
  ASSUME GatewayTypeOK, ResponseDone
  PROVE  GatewayTypeOK'
<1>1. /\ queue' \in Seq(Packet) /\ Len(queue') <= GatewayQueue
      /\ framed' \in Counter /\ buffer' \in Streams \cup {None} /\ endQueued' \in Flag
  BY FinishType DEF ResponseDone
<1>2. /\ state' \in {"listening", "thinking", "speaking", "error", "muted"}
      /\ reader' \in {"idle", "failing"} /\ current' \in Nat
  BY DEF GatewayTypeOK, ResponseDone
<1> QED
  BY <1>1, <1>2 DEF GatewayTypeOK, ResponseDone, streamVars, taskVars, watchVars, cloudVars

LEMMA SpeechStartedType ==
  ASSUME GatewayTypeOK, SpeechStarted
  PROVE  GatewayTypeOK'
<1>1. output \in Streams /\ response[output] \in Nat
  BY DEF GatewayTypeOK, SpeechStarted, Counter
<1>2. toDevice' \in Seq(Message)
  BY <1>1, SendType DEF GatewayTypeOK, SpeechStarted
<1> QED
  BY <1>1, <1>2 DEF GatewayTypeOK, SpeechStarted, streamVars, taskVars, watchVars, cloudVars

LEMMA TakePacketType ==
  ASSUME GatewayTypeOK, TakePacket
  PROVE  GatewayTypeOK'
<1>1. Head(queue) \in Packet /\ Tail(queue) \in Seq(Packet) /\ Len(Tail(queue)) <= Len(queue)
  BY DEF GatewayTypeOK, TakePacket
<1>2. queue' \in Seq(Packet) /\ Len(queue') <= GatewayQueue
  BY <1>1, QueueAssumption DEF GatewayTypeOK, TakePacket
<1>3. packet' \in Packet \cup {NoPacket} /\ sender' \in {"get", "pacing", "ending"}
  BY <1>1 DEF GatewayTypeOK, TakePacket
<1>4. toDevice' \in Seq(Message)
  <2>1. CASE toDevice' = toDevice
    BY <2>1 DEF GatewayTypeOK
  <2>2. CASE IsCurrent(Head(queue)) /\ Send("end", output, sent[output])
    <3>1. output \in Streams /\ sent[output] \in Nat
      BY <2>2 DEF GatewayTypeOK, IsCurrent, Counter
    <3> QED BY <2>2, <3>1, SendType DEF GatewayTypeOK
  <2> QED BY <2>1, <2>2 DEF TakePacket
<1> QED
  BY <1>2, <1>3, <1>4 DEF GatewayTypeOK, TakePacket, streamVars, taskVars, watchVars, cloudVars

LEMMA SendFrameType ==
  ASSUME GatewayTypeOK, SendFrame
  PROVE  GatewayTypeOK'
<1>1. packet' \in Packet \cup {NoPacket}
  BY DEF GatewayTypeOK, SendFrame
<1>2. toDevice' \in Seq(Message)
  <2>1. CASE toDevice' = toDevice
    BY <2>1 DEF GatewayTypeOK
  <2>2. CASE IsCurrent(packet) /\ Send("frame", packet.stream, packet.data)
    <3>1. packet.stream \in Streams /\ packet.data \in Nat
      BY <2>2 DEF GatewayTypeOK, IsCurrent, Packet, NoPacket
    <3> QED BY <2>2, <3>1, SendType DEF GatewayTypeOK
  <2> QED BY <2>1, <2>2 DEF SendFrame
<1>3. sender' \in {"get", "sending", "waiting"} /\ progressed' \in BOOLEAN
  BY DEF GatewayTypeOK, SendFrame
<1> QED
  BY <1>1, <1>2, <1>3 DEF GatewayTypeOK, SendFrame, streamVars, taskVars, watchVars, cloudVars

LEMMA WatchdogFlushType ==
  ASSUME GatewayTypeOK, WatchdogFlush
  PROVE  GatewayTypeOK'
<1>1. toDevice' \in Seq(Message)
  BY SendType DEF GatewayTypeOK, WatchdogFlush
<1>2. timeouts' \in 0 .. MaxTimeouts
  BY BoundsAssumption DEF GatewayTypeOK, WatchdogFlush
<1> QED
  BY <1>1, <1>2 DEF GatewayTypeOK, WatchdogFlush, streamVars, taskVars, watchVars, cloudVars

LEMMA PlaybackProgressType ==
  ASSUME GatewayTypeOK, NEW s \in Streams, NEW n \in Nat,
         PlaybackProgress(s, n)
  PROVE  GatewayTypeOK'
<1>1. played' \in Counter
  <2>1. sent[s] \in Nat
    BY DEF GatewayTypeOK, Counter
  <2>2. Minimum(n, sent[s]) \in Nat
    BY <2>1 DEF Minimum
  <2>3. played \in Counter
    BY DEF GatewayTypeOK
  <2>4. played' = played \/ played' = [played EXCEPT ![s] = Minimum(n, sent[s])]
    BY DEF PlaybackProgress
  <2> QED BY <2>2, <2>3, <2>4, CounterUpdate
<1>2. /\ output' \in Streams \cup {None} /\ progressed' \in BOOLEAN
      /\ state' \in {"listening", "thinking", "speaking", "error", "muted"}
  BY DEF GatewayTypeOK, PlaybackProgress, CompletePlayback
<1> QED
  BY <1>1, <1>2 DEF GatewayTypeOK, PlaybackProgress, streamVars, taskVars, watchVars, cloudVars

LEMMA DeviceReadsType ==
  ASSUME GatewayTypeOK, DeviceReads
  PROVE  GatewayTypeOK'
<1>1. toDevice' \in Seq(Message)
  BY DEF GatewayTypeOK, DeviceReads
<1> QED
  BY <1>1 DEF GatewayTypeOK, DeviceReads, gatewayVars, streamVars, taskVars, watchVars, cloudVars

\* No step of the gateway, whatever the device does, leaves the types: in particular
\* playback_queue never holds more than its maxsize.
LEMMA GatewayTypeStep ==
  ASSUME GatewayTypeOK, [GatewayNext]_<<gatewayVars, toDevice>>
  PROVE  GatewayTypeOK'
<1>1. CASE Reader
  <2>1. ASSUME NEW frames \in 0 .. MaxDelta, NEW rest \in Remainders,
               StartStream(frames, rest) \/ AppendDelta(frames, rest)
        PROVE  GatewayTypeOK'
    BY <2>1, StartStreamType, AppendDeltaType, BoundsAssumption
  <2> QED
    BY <1>1, <2>1, StartSentType, StreamAnnouncedType, TransportErrorType,
       OutputAudioDoneType, ResponseDoneType, SpeechStartedType, TruncateType,
       InterruptedType, SpeechStoppedType, CloudErrorType DEF Reader
<1>2. CASE Sender
  BY <1>2, TakePacketType, EndSentType, SendFrameType, CapacityAwaitedType, FrameSentType
     DEF Sender
<1>3. CASE Watchdog
  BY <1>3, WatchdogFlushType, WatchdogCompleteType DEF Watchdog
<1>4. CASE DeviceReads
  BY <1>4, DeviceReadsType
<1>5. CASE DeviceReports
  BY <1>5, PlaybackProgressType, BoundsAssumption DEF DeviceReports
<1>6. CASE MuteReported
  BY <1>6, MuteReportedType
<1>7. CASE UNCHANGED <<gatewayVars, toDevice>>
  BY <1>7 DEF GatewayTypeOK, gatewayVars, streamVars, taskVars, watchVars, cloudVars
<1> QED
  BY <1>1, <1>2, <1>3, <1>4, <1>5, <1>6, <1>7 DEF GatewayNext, GatewayStep

\* Type correctness.  It includes the bound on playback_queue: put_nowait raises
\* rather than grow it, whatever the cloud generates and however slowly the device plays.
THEOREM GatewayTypeCorrect == GatewaySpec => []GatewayTypeOK
<1>1. GatewayInit => GatewayTypeOK
  BY GatewayInitType
<1>2. GatewayTypeOK /\ [GatewayNext]_<<gatewayVars, toDevice>> => GatewayTypeOK'
  BY GatewayTypeStep
<1> QED
  BY <1>1, <1>2, PTL DEF GatewaySpec

-----------------------------------------------------------------------------
\* Audio a may be followed by audio b of the same stream.
Before(a, b) == a # EndMarker /\ (b = EndMarker \/ a < b)

\* A message of stream s that came from the queue, and the data it was.
Audio(m, s) == m.stream = s /\ m.kind \in {"frame", "end"}
Datum(m) == IF m.kind = "end" THEN EndMarker ELSE m.n

\* The sender waits to send audio of stream s.
Holds(s) == sender \in {"pacing", "waiting"} /\ packet.stream = s

\* Audio d of stream s was put on the queue.
Queued(s, d) == d <= framed[s] /\ (d = EndMarker => endQueued[s])

QueueOrdered(s) ==
  /\ \A i \in DOMAIN queue : queue[i].stream = s => Queued(s, queue[i].data)
  /\ \A i, j \in DOMAIN queue :
       i < j /\ queue[i].stream = s /\ queue[j].stream = s => Before(queue[i].data, queue[j].data)

HeldOrdered(s) ==
  Holds(s) => /\ packet.data # EndMarker /\ packet.data <= framed[s]
              /\ \A j \in DOMAIN queue : queue[j].stream = s => Before(packet.data, queue[j].data)

WireOrdered(s) ==
  \A k \in DOMAIN toDevice : Audio(toDevice[k], s) =>
    /\ Queued(s, Datum(toDevice[k]))
    /\ Holds(s) => Before(Datum(toDevice[k]), packet.data)
    /\ \A j \in DOMAIN queue : queue[j].stream = s => Before(Datum(toDevice[k]), queue[j].data)

EndIsFinal(s) ==
  /\ response[s] <= current
  /\ endQueued[s] => reader \notin {"starting", "speaking"} /\ (response[s] = current => audioDone)

NothingBeyond(c) ==
  /\ packet.stream <= c
  /\ \A i \in DOMAIN queue : queue[i].stream <= c
  /\ \A k \in DOMAIN toDevice : toDevice[k].stream <= c
  /\ \A s \in Streams : s > c => ~endQueued[s]

InOrder(s) == QueueOrdered(s) /\ HeldOrdered(s) /\ WireOrdered(s) /\ EndIsFinal(s)

OrderInv ==
  /\ output \in {None, created}
  /\ NothingBeyond(created)
  /\ output # None => InOrder(output)
  /\ WireInOrder

-----------------------------------------------------------------------------
(* The wire.                                                                *)

\* Appending to the wire what may follow everything on it.
LEMMA WireAppend ==
  ASSUME toDevice \in Seq(Message), WireInOrder, NEW m,
         toDevice' = Append(toDevice, m),
         \A k \in DOMAIN toDevice : MayFollow(toDevice[k], m)
  PROVE  WireInOrder'
<1> SUFFICES ASSUME NEW i \in DOMAIN toDevice', NEW j \in DOMAIN toDevice', i < j
             PROVE  MayFollow(toDevice'[i], toDevice'[j])
  BY DEF WireInOrder, MayFollow
<1>1. CASE j \in DOMAIN toDevice
  BY <1>1 DEF WireInOrder
<1>2. CASE j \notin DOMAIN toDevice
  BY <1>2
<1> QED BY <1>1, <1>2

\* A step that sends nothing, queues nothing and opens no stream.
LEMMA KeepOrder ==
  ASSUME GatewayTypeOK, OrderInv,
         UNCHANGED <<toDevice, created, queue, framed, endQueued>>,
         output' \in {output, None},
         packet' \in {packet, NoPacket},
         sender' \in {"pacing", "waiting"} => sender \in {"pacing", "waiting"} /\ packet' = packet,
         output' # None => EndIsFinal(output)'
  PROVE  OrderInv'
<1>1. WireInOrder'
  BY DEF OrderInv, WireInOrder, MayFollow
<1>2. output' \in {None, created'}
  BY DEF OrderInv
<1>3. NothingBeyond(created)'
  BY StreamsAssumption DEF OrderInv, NothingBeyond, NoPacket, None, GatewayTypeOK
<1>4. ASSUME output' # None
      PROVE  InOrder(output)'
  <2>1. output' = output /\ output # None
    BY <1>4
  <2>2. InOrder(output)
    BY <2>1 DEF OrderInv
  <2>3. QueueOrdered(output)'
    BY <2>1, <2>2 DEF InOrder, QueueOrdered, Queued, Before
  <2>4. HeldOrdered(output)'
    BY <2>1, <2>2 DEF InOrder, HeldOrdered, Holds, Before
  <2>5. WireOrdered(output)'
    BY <2>1, <2>2 DEF InOrder, WireOrdered, Audio, Datum, Queued, Holds, Before
  <2> QED BY <1>4, <2>3, <2>4, <2>5 DEF InOrder
<1> QED BY <1>1, <1>2, <1>3, <1>4 DEF OrderInv

\* One that does not touch the cloud's response either.
LEMMA QuietOrder ==
  ASSUME GatewayTypeOK, OrderInv,
         UNCHANGED <<toDevice, created, queue, framed, endQueued, response, current, audioDone>>,
         output' \in {output, None},
         packet' \in {packet, NoPacket},
         sender' \in {"pacing", "waiting"} => sender \in {"pacing", "waiting"} /\ packet' = packet,
         reader' \in {"starting", "speaking"} => reader \in {"starting", "speaking"}
  PROVE  OrderInv'
<1>1. ASSUME output' # None
      PROVE  EndIsFinal(output)'
  BY <1>1 DEF OrderInv, InOrder, EndIsFinal
<1> QED BY <1>1, KeepOrder

\* The quiet steps.
LEMMA QuietSteps ==
  ASSUME GatewayTypeOK, OrderInv,
         \/ StartSent \/ TransportError \/ Truncate \/ SpeechStopped \/ CloudError
         \/ EndSent \/ CapacityAwaited \/ FrameSent \/ WatchdogComplete \/ MuteReported
         \/ \E s \in Streams, n \in Nat : PlaybackProgress(s, n)
         \/ UNCHANGED <<gatewayVars, toDevice>>
  PROVE  OrderInv'
<1>1. CASE StartSent
  BY <1>1, QuietOrder DEF StartSent, streamVars, watchVars, cloudVars, taskVars
<1>2. CASE TransportError
  BY <1>2, QuietOrder DEF TransportError, streamVars, watchVars, cloudVars, taskVars
<1>3. CASE Truncate
  BY <1>3, QuietOrder DEF Truncate, streamVars, watchVars, cloudVars, taskVars
<1>4. CASE SpeechStopped
  BY <1>4, QuietOrder DEF SpeechStopped, streamVars, watchVars, cloudVars, taskVars
<1>5. CASE CloudError
  BY <1>5, QuietOrder DEF CloudError, streamVars, watchVars, cloudVars, taskVars
<1>6. CASE EndSent
  BY <1>6, QuietOrder DEF EndSent, streamVars, watchVars, cloudVars, taskVars
<1>7. CASE CapacityAwaited
  BY <1>7, QuietOrder DEF CapacityAwaited, streamVars, watchVars, cloudVars, taskVars
<1>8. CASE FrameSent
  BY <1>8, QuietOrder DEF FrameSent, streamVars, watchVars, cloudVars, taskVars
<1>9. CASE WatchdogComplete
  BY <1>9, QuietOrder DEF WatchdogComplete, CompletePlayback, streamVars, watchVars, cloudVars, taskVars
<1>10. ASSUME NEW s \in Streams, NEW n \in Nat, PlaybackProgress(s, n)
      PROVE  OrderInv'
  BY <1>10, QuietOrder DEF PlaybackProgress, CompletePlayback, streamVars, watchVars, cloudVars, taskVars
<1>11. CASE UNCHANGED <<gatewayVars, toDevice>>
  BY <1>11, QuietOrder DEF gatewayVars, streamVars, watchVars, cloudVars, taskVars
<1>12. CASE MuteReported
  BY <1>12, QuietOrder DEF MuteReported, streamVars, watchVars, cloudVars, taskVars
<1> QED
  BY <1>1, <1>2, <1>3, <1>4, <1>5, <1>6, <1>7, <1>8, <1>9, <1>10, <1>11, <1>12

\* A flush of the current stream, which may follow anything.
LEMMA FlushOrder ==
  ASSUME GatewayTypeOK, OrderInv, output # None, Send("flush", output, 0),
         UNCHANGED <<created, queue, framed, endQueued, response, current, audioDone, output,
                     packet, sender>>,
         reader' \notin {"starting", "speaking"} \/ reader' = reader
  PROVE  OrderInv'
<1> DEFINE m == [kind |-> "flush", stream |-> output, n |-> 0]
<1>1. toDevice \in Seq(Message) /\ toDevice' = Append(toDevice, m)
  BY DEF GatewayTypeOK, Send
<1>2. output \in Streams /\ output = created
  BY DEF GatewayTypeOK, OrderInv
<1>3. \A k \in DOMAIN toDevice : MayFollow(toDevice[k], m)
  <2> SUFFICES ASSUME NEW k \in DOMAIN toDevice PROVE MayFollow(toDevice[k], m)
    OBVIOUS
  <2>1. toDevice[k] \in Message
    BY <1>1
  <2>2. toDevice[k].stream <= output /\ toDevice[k].stream \in Nat
    BY <1>2, <2>1 DEF OrderInv, NothingBeyond, Message, Streams
  <2> QED BY <1>2, <2>2, StreamsAssumption DEF MayFollow, Streams
<1>4. WireInOrder'
  BY <1>1, <1>3, WireAppend DEF OrderInv
<1>5. NothingBeyond(created)'
  BY <1>1, <1>2, StreamsAssumption DEF OrderInv, NothingBeyond, Streams
<1>6. QueueOrdered(output)' /\ HeldOrdered(output)' /\ EndIsFinal(output)'
  BY DEF OrderInv, InOrder, QueueOrdered, HeldOrdered, EndIsFinal, Queued, Holds, Before
<1>7. WireOrdered(output)'
  <2> SUFFICES ASSUME NEW k \in DOMAIN toDevice', Audio(toDevice'[k], output)
               PROVE  k \in DOMAIN toDevice /\ toDevice'[k] = toDevice[k]
    BY DEF OrderInv, InOrder, WireOrdered, Audio, Datum, Queued, Holds, Before
  <2> QED BY <1>1 DEF Audio
<1> QED BY <1>4, <1>5, <1>6, <1>7 DEF OrderInv, InOrder

\* The stream is dropped with everything queued.
LEMMA InterruptedOrder ==
  ASSUME GatewayTypeOK, OrderInv, Interrupted
  PROVE  OrderInv'
<1>1. output' = None /\ queue' = <<>>
  BY DEF Interrupted
<1>2. WireInOrder'
  BY DEF Interrupted, OrderInv, WireInOrder, MayFollow
<1>3. NothingBeyond(created)'
  BY <1>1 DEF Interrupted, OrderInv, NothingBeyond, streamVars
<1> QED BY <1>1, <1>2, <1>3 DEF OrderInv

\* A new stream, of which there is nothing anywhere.
LEMMA StartOrder ==
  ASSUME GatewayTypeOK, OrderInv, NEW frames, NEW rest, StartStream(frames, rest)
  PROVE  OrderInv'
<1> DEFINE m == [kind |-> "start", stream |-> created', n |-> 0]
<1>1. toDevice \in Seq(Message) /\ toDevice' = Append(toDevice, m)
  BY DEF GatewayTypeOK, Send, StartStream
<1>2. /\ created \in Nat /\ created' = created + 1 /\ output' = created'
      /\ created' \in Streams
  BY StreamsAssumption DEF GatewayTypeOK, StartStream, Streams
<1>3. \A k \in DOMAIN toDevice : toDevice[k].stream \in Nat /\ toDevice[k].stream < created'
  <2> SUFFICES ASSUME NEW k \in DOMAIN toDevice
               PROVE  toDevice[k].stream \in Nat /\ toDevice[k].stream < created'
    OBVIOUS
  <2>1. toDevice[k] \in Message
    BY <1>1
  <2>2. toDevice[k].stream \in Nat
    BY <2>1, StreamsAssumption DEF Message, Streams
  <2> QED BY <1>2, <2>2 DEF OrderInv, NothingBeyond
<1>4. WireInOrder'
  <2>1. \A k \in DOMAIN toDevice : MayFollow(toDevice[k], m)
    BY <1>3 DEF MayFollow
  <2> QED BY <1>1, <2>1, WireAppend DEF OrderInv
<1>5. UNCHANGED <<queue, packet, endQueued, sender>>
  BY DEF StartStream
<1>6. \A i \in DOMAIN queue : queue[i].stream \in Nat /\ queue[i].stream < created'
  <2> SUFFICES ASSUME NEW i \in DOMAIN queue
               PROVE  queue[i].stream \in Nat /\ queue[i].stream < created'
    OBVIOUS
  <2>1. queue[i] \in Packet
    BY DEF GatewayTypeOK
  <2>2. queue[i].stream \in Nat
    BY <2>1, StreamsAssumption DEF Packet, Streams
  <2> QED BY <1>2, <2>2 DEF OrderInv, NothingBeyond
<1>7. packet.stream \in Nat /\ packet.stream < created'
  <2>1. packet.stream \in Nat
    BY StreamsAssumption DEF GatewayTypeOK, Packet, NoPacket, Streams, None
  <2> QED BY <1>2, <2>1 DEF OrderInv, NothingBeyond
<1>8. NothingBeyond(created)'
  <2>1. packet'.stream <= created' /\ \A i \in DOMAIN queue' : queue'[i].stream <= created'
    BY <1>2, <1>5, <1>6, <1>7
  <2>2. \A k \in DOMAIN toDevice' : toDevice'[k].stream <= created'
    BY <1>1, <1>2, <1>3
  <2>3. \A s \in Streams : s > created' => ~endQueued'[s]
    BY <1>2, <1>5, StreamsAssumption DEF OrderInv, NothingBeyond, Streams
  <2> QED BY <2>1, <2>2, <2>3 DEF NothingBeyond
<1>9. QueueOrdered(output)' /\ HeldOrdered(output)'
  BY <1>2, <1>5, <1>6, <1>7 DEF QueueOrdered, HeldOrdered, Holds
<1>10. WireOrdered(output)'
  BY <1>1, <1>2, <1>3 DEF WireOrdered, Audio
<1>11. EndIsFinal(output)'
  <2>1. ~endQueued'[created']
    BY <1>2, <1>5 DEF OrderInv, NothingBeyond
  <2>2. response'[created'] = current /\ current' = current /\ current \in Nat
    BY <1>2 DEF StartStream, GatewayTypeOK, Counter
  <2> QED BY <1>2, <2>1, <2>2 DEF EndIsFinal
<1> QED BY <1>2, <1>4, <1>8, <1>9, <1>10, <1>11 DEF OrderInv, InOrder

\* The device takes a message off the wire.
LEMMA DeviceReadsOrder ==
  ASSUME GatewayTypeOK, OrderInv, DeviceReads
  PROVE  OrderInv'
<1>1. toDevice \in Seq(Message) /\ toDevice # <<>> /\ toDevice' = Tail(toDevice)
  BY DEF GatewayTypeOK, DeviceReads
<1>2. /\ DOMAIN toDevice = 1 .. Len(toDevice) /\ Len(toDevice) \in Nat
      /\ DOMAIN toDevice' = 1 .. Len(toDevice) - 1
      /\ \A k \in DOMAIN toDevice' : k + 1 \in DOMAIN toDevice /\ toDevice'[k] = toDevice[k + 1]
  BY <1>1
<1>3. WireInOrder'
  <2> SUFFICES ASSUME NEW k \in DOMAIN toDevice', NEW l \in DOMAIN toDevice', k < l
               PROVE  MayFollow(toDevice'[k], toDevice'[l])
    BY DEF WireInOrder, MayFollow
  <2>1. k + 1 \in DOMAIN toDevice /\ l + 1 \in DOMAIN toDevice /\ k + 1 < l + 1
    BY <1>2
  <2> QED BY <1>2, <2>1 DEF OrderInv, WireInOrder
<1>4. UNCHANGED gatewayVars
  BY DEF DeviceReads
<1>5. NothingBeyond(created)'
  BY <1>2, <1>4 DEF OrderInv, NothingBeyond, gatewayVars, streamVars, taskVars
<1>6. ASSUME output' # None PROVE InOrder(output)'
  <2>1. InOrder(output)
    BY <1>4, <1>6 DEF OrderInv, gatewayVars
  <2>2. QueueOrdered(output)' /\ HeldOrdered(output)' /\ EndIsFinal(output)'
    BY <1>4, <2>1 DEF InOrder, QueueOrdered, HeldOrdered, EndIsFinal, Queued, Holds, Before,
                      gatewayVars, streamVars, taskVars, cloudVars
  <2>3. WireOrdered(output)'
    <3> SUFFICES ASSUME NEW k \in DOMAIN toDevice', Audio(toDevice'[k], output)
                 PROVE  \E l \in DOMAIN toDevice : toDevice'[k] = toDevice[l]
      BY <1>4, <2>1 DEF InOrder, WireOrdered, Audio, Datum, Queued, Holds, Before,
                        gatewayVars, streamVars, taskVars
    <3> QED BY <1>2
  <2> QED BY <2>2, <2>3 DEF InOrder
<1>7. output' \in {None, created'}
  BY <1>4 DEF OrderInv, gatewayVars
<1> QED BY <1>3, <1>5, <1>6, <1>7 DEF OrderInv

-----------------------------------------------------------------------------
(* The queue.                                                               *)

\* The cloud reader appends audio of a stream whose end is not queued: frames
\* numbered on from the last one and, when last holds, an end marker after them.
LEMMA QueueGrows ==
  ASSUME GatewayTypeOK, OrderInv, output # None, ~endQueued[output],
         NEW added \in Seq(Packet),
         queue' = queue \o added,
         \A i \in DOMAIN added :
           /\ added[i].stream = output
           /\ added[i].data # EndMarker => added[i].data > framed[output]
           /\ added[i].data <= framed'[output]
           /\ added[i].data = EndMarker => endQueued'[output],
         \A i, j \in DOMAIN added : i < j => Before(added[i].data, added[j].data),
         framed'[output] \in Nat, framed'[output] >= framed[output],
         UNCHANGED <<toDevice, created, output, packet, sender, response>>,
         \A s \in Streams : s # output => endQueued'[s] = endQueued[s],
         EndIsFinal(output)'
  PROVE  OrderInv'
<1> DEFINE o == output
<1>1. o \in Streams /\ o = created /\ framed[o] \in Nat /\ created \in Nat
  BY StreamsAssumption DEF OrderInv, GatewayTypeOK, Counter, Streams
<1>2. queue \in Seq(Packet)
  BY DEF GatewayTypeOK
<1>3. ASSUME NEW i \in DOMAIN queue'
      PROVE  \/ i \in DOMAIN queue /\ queue'[i] = queue[i]
             \/ i - Len(queue) \in DOMAIN added /\ queue'[i] = added[i - Len(queue)]
                /\ i \notin DOMAIN queue
  BY <1>2
<1>4. QueueOrdered(o) /\ HeldOrdered(o) /\ WireOrdered(o)
  BY DEF OrderInv, InOrder
<1>5. \A d \in Nat : Queued(o, d) =>
        /\ d # EndMarker /\ d <= framed[o]
        /\ d <= framed'[o] /\ (d = EndMarker => endQueued'[o])
  BY <1>1 DEF Queued
<1>6. \A d \in Nat, i \in DOMAIN added : Queued(o, d) => Before(d, added[i].data)
  <2> SUFFICES ASSUME NEW d \in Nat, NEW i \in DOMAIN added, Queued(o, d)
               PROVE  Before(d, added[i].data)
    OBVIOUS
  <2>1. added[i] \in Packet
    OBVIOUS
  <2>2. added[i].data \in Nat
    BY <2>1 DEF Packet
  <2> QED BY <1>1, <1>5, <2>2 DEF Before
<1>7. \A i \in DOMAIN queue : queue[i].data \in Nat
  <2> SUFFICES ASSUME NEW i \in DOMAIN queue PROVE queue[i].data \in Nat
    OBVIOUS
  <2>1. queue[i] \in Packet
    BY <1>2
  <2> QED BY <2>1 DEF Packet
<1>8. QueueOrdered(o)'
  <2>1. ASSUME NEW i \in DOMAIN queue', queue'[i].stream = o
        PROVE  /\ queue'[i].data <= framed'[o]
               /\ queue'[i].data = EndMarker => endQueued'[o]
    <3>1. CASE i \in DOMAIN queue
      <4>1. queue'[i] = queue[i] /\ Queued(o, queue[i].data)
        BY <1>3, <1>4, <2>1, <3>1 DEF QueueOrdered
      <4> QED BY <1>5, <1>7, <3>1, <4>1
    <3>2. CASE i \notin DOMAIN queue
      BY <1>3, <2>1, <3>2
    <3> QED BY <3>1, <3>2
  <2>2. ASSUME NEW i \in DOMAIN queue', NEW j \in DOMAIN queue', i < j,
               queue'[i].stream = o, queue'[j].stream = o
        PROVE  Before(queue'[i].data, queue'[j].data)
    <3>1. CASE i \in DOMAIN queue /\ j \in DOMAIN queue
      BY <1>2, <1>4, <2>2, <3>1 DEF QueueOrdered
    <3>2. CASE i \in DOMAIN queue /\ j \notin DOMAIN queue
      <4>1. queue'[i] = queue[i] /\ Queued(o, queue[i].data)
        BY <1>2, <1>4, <2>2, <3>2 DEF QueueOrdered
      <4>2. j - Len(queue) \in DOMAIN added /\ queue'[j] = added[j - Len(queue)]
        BY <1>3, <2>2, <3>2
      <4> QED BY <1>6, <1>7, <3>2, <4>1, <4>2
    <3>3. CASE i \notin DOMAIN queue
      <4>1. i - Len(queue) \in DOMAIN added /\ queue'[i] = added[i - Len(queue)]
        BY <1>3, <2>2, <3>3
      <4>2. j \notin DOMAIN queue
        BY <1>2, <2>2, <3>3
      <4>3. j - Len(queue) \in DOMAIN added /\ queue'[j] = added[j - Len(queue)]
        BY <1>3, <2>2, <4>2
      <4>4. i - Len(queue) < j - Len(queue)
        BY <1>2, <2>2
      <4> QED BY <4>1, <4>3, <4>4
    <3> QED BY <3>1, <3>2, <3>3
  <2>3. \A i \in DOMAIN queue' : queue'[i].stream = output' => Queued(output, queue[i].data)'
    BY <2>1 DEF Queued
  <2>4. \A i, j \in DOMAIN queue' :
          i < j /\ queue'[i].stream = output' /\ queue'[j].stream = output'
            => Before(queue[i].data, queue[j].data)'
    BY <2>2 DEF Before
  <2> QED BY <2>3, <2>4 DEF QueueOrdered
<1>9. HeldOrdered(o)'
  <2>1. SUFFICES ASSUME Holds(o)
                 PROVE  /\ packet.data # EndMarker /\ packet.data <= framed'[o]
                        /\ \A j \in DOMAIN queue' : queue'[j].stream = o => Before(packet.data, queue'[j].data)
    BY DEF HeldOrdered, Holds, Before
  <2>2. packet \in Packet /\ packet.data \in Nat
    BY <1>1, <2>1, StreamsAssumption DEF GatewayTypeOK, Holds, Packet, NoPacket, None, Streams
  <2>3. packet.data # EndMarker /\ packet.data <= framed[o]
    BY <1>4, <2>1 DEF HeldOrdered
  <2>4. Queued(o, packet.data)
    BY <2>3 DEF Queued
  <2>5. ASSUME NEW j \in DOMAIN queue', queue'[j].stream = o
        PROVE  Before(packet.data, queue'[j].data)
    <3>1. CASE j \in DOMAIN queue
      BY <1>2, <1>4, <2>1, <2>5, <3>1 DEF HeldOrdered
    <3>2. CASE j \notin DOMAIN queue
      BY <1>3, <1>6, <2>2, <2>4, <3>2
    <3> QED BY <3>1, <3>2
  <2> QED BY <1>1, <2>2, <2>3, <2>5
<1>10. WireOrdered(o)'
  <2>1. SUFFICES ASSUME NEW k \in DOMAIN toDevice, Audio(toDevice[k], o)
                 PROVE  /\ Datum(toDevice[k]) <= framed'[o]
                        /\ Datum(toDevice[k]) = EndMarker => endQueued'[o]
                        /\ Holds(o) => Before(Datum(toDevice[k]), packet.data)
                        /\ \A j \in DOMAIN queue' :
                             queue'[j].stream = o => Before(Datum(toDevice[k]), queue'[j].data)
    BY DEF WireOrdered, Audio, Datum, Holds, Before, Queued
  <2>2. toDevice[k] \in Message
    BY DEF GatewayTypeOK
  <2>3. Datum(toDevice[k]) \in Nat
    BY <2>2 DEF Datum, Message, EndMarker
  <2>4. /\ Queued(o, Datum(toDevice[k]))
        /\ Holds(o) => Before(Datum(toDevice[k]), packet.data)
        /\ \A j \in DOMAIN queue : queue[j].stream = o => Before(Datum(toDevice[k]), queue[j].data)
    BY <1>4, <2>1 DEF WireOrdered
  <2>5. /\ Datum(toDevice[k]) <= framed'[o]
        /\ Datum(toDevice[k]) = EndMarker => endQueued'[o]
    BY <1>5, <2>3, <2>4
  <2>6. ASSUME NEW j \in DOMAIN queue', queue'[j].stream = o
        PROVE  Before(Datum(toDevice[k]), queue'[j].data)
    <3>1. CASE j \in DOMAIN queue
      BY <1>2, <2>4, <2>6, <3>1
    <3>2. CASE j \notin DOMAIN queue
      BY <1>3, <1>6, <2>3, <2>4, <3>2
    <3> QED BY <3>1, <3>2
  <2> QED BY <2>4, <2>5, <2>6
<1>11. WireInOrder' /\ output' \in {None, created'}
  BY DEF OrderInv, WireInOrder, MayFollow
<1>12. NothingBeyond(created)'
  <2>1. \A i \in DOMAIN queue' : queue'[i].stream <= created
    BY <1>1, <1>3 DEF OrderInv, NothingBeyond
  <2>2. \A s \in Streams : s > created => ~endQueued'[s]
    <3> SUFFICES ASSUME NEW s \in Streams, s > created PROVE ~endQueued'[s]
      OBVIOUS
    <3>1. s # output
      BY <1>1, StreamsAssumption DEF Streams
    <3> QED BY <3>1 DEF OrderInv, NothingBeyond
  <2> QED BY <2>1, <2>2 DEF OrderInv, NothingBeyond
<1> QED
  BY <1>8, <1>9, <1>10, <1>11, <1>12 DEF OrderInv, InOrder

\* Audio deltas.
LEMMA QueueAudioOrder ==
  ASSUME GatewayTypeOK, OrderInv, output # None, ~endQueued[output],
         NEW f \in Nat, NEW r \in BOOLEAN, QueueAudio(f, r),
         UNCHANGED <<toDevice, created, output, packet, sender, response, endQueued,
                     current, audioDone>>
  PROVE  OrderInv'
<1> DEFINE room == Minimum(f, GatewayQueue - Len(queue))
           added == [i \in 1 .. room |-> [stream |-> output, data |-> framed[output] + i]]
<1>1. room \in Nat
  BY QueueAssumption DEF GatewayTypeOK, Minimum
<1>2. output \in Streams /\ framed \in Counter /\ framed[output] \in Nat
  BY DEF GatewayTypeOK, Counter
<1>3. queue' = queue \o added /\ framed' = [framed EXCEPT ![output] = framed[output] + room]
  BY <1>2 DEF QueueAudio
<1>4. framed'[output] = framed[output] + room
  BY <1>2, <1>3 DEF Counter
<1>5. \A i \in 1 .. room : framed[output] + i \in Nat /\ framed[output] + i # EndMarker
                           /\ framed[output] + i > framed[output]
                           /\ framed[output] + i <= framed[output] + room
  <2> HIDE DEF room
  <2> QED BY <1>1, <1>2 DEF EndMarker
<1>6. /\ added \in Seq(Packet) /\ DOMAIN added = 1 .. room
      /\ \A i \in 1 .. room : added[i].stream = output /\ added[i].data = framed[output] + i
  <2> HIDE DEF room
  <2>1. \A i \in 1 .. room : [stream |-> output, data |-> framed[output] + i] \in Packet
    BY <1>2, <1>5 DEF Packet
  <2>2. added \in [1 .. room -> Packet]
    BY <2>1
  <2>3. DOMAIN added = 1 .. room
    OBVIOUS
  <2>4. \A i \in 1 .. room : added[i].stream = output /\ added[i].data = framed[output] + i
    OBVIOUS
  <2> HIDE DEF added
  <2> QED BY <1>1, <2>2, <2>3, <2>4
<1> HIDE DEF room, added
<1>7. \A i \in DOMAIN added :
        /\ added[i].stream = output
        /\ added[i].data # EndMarker => added[i].data > framed[output]
        /\ added[i].data <= framed'[output]
        /\ added[i].data = EndMarker => endQueued'[output]
  <2> SUFFICES ASSUME NEW i \in 1 .. room
               PROVE  /\ added[i].stream = output /\ added[i].data # EndMarker
                      /\ added[i].data > framed[output] /\ added[i].data <= framed'[output]
    BY <1>6
  <2> QED BY <1>4, <1>5, <1>6
<1>8. \A i, j \in DOMAIN added : i < j => Before(added[i].data, added[j].data)
  BY <1>1, <1>2, <1>5, <1>6 DEF Before
<1>9. framed'[output] \in Nat /\ framed'[output] >= framed[output]
  BY <1>1, <1>2, <1>4
<1>10. EndIsFinal(output)'
  BY DEF OrderInv, InOrder, EndIsFinal
<1> QED
  BY <1>3, <1>6, <1>7, <1>8, <1>9, <1>10, QueueGrows

\* A delta of a stream that is open: its end is not queued, as the cloud has not
\* said that the response's audio is done.
LEMMA AppendOrder ==
  ASSUME GatewayTypeOK, OrderInv, NEW frames \in Nat, NEW rest \in BOOLEAN,
         AppendDelta(frames, rest)
  PROVE  OrderInv'
<1>1. output # None /\ ~endQueued[output]
  BY DEF AppendDelta, CloudDelta, Streaming, OrderInv, InOrder, EndIsFinal
<1> QED
  BY <1>1, QueueAudioOrder DEF AppendDelta

\* The delta held while the stream was announced.
LEMMA AnnouncedOrder ==
  ASSUME GatewayTypeOK, OrderInv, StreamAnnounced
  PROVE  OrderInv'
<1>1. CASE output = None
  BY <1>1, QuietOrder DEF StreamAnnounced, watchVars, cloudVars
<1>2. CASE output # None
  <2>1. ~endQueued[output]
    BY <1>2 DEF StreamAnnounced, OrderInv, InOrder, EndIsFinal
  <2>2. delta.frames \in Nat /\ delta.rest \in BOOLEAN
    BY DEF GatewayTypeOK, Delta
  <2> QED
    BY <1>2, <2>1, <2>2, QueueAudioOrder DEF StreamAnnounced, cloudVars
<1> QED BY <1>1, <1>2

\* The end of the audio: the padded frame, if there is one, and the end marker.
LEMMA FinishOrder ==
  ASSUME GatewayTypeOK, OrderInv, FinishAudioFrame,
         UNCHANGED <<toDevice, created, output, packet, sender, response>>,
         reader' \in {"idle", "failing"},
         \/ current' = current /\ audioDone'
         \/ current' = current + 1
  PROVE  OrderInv'
<1>1. ASSUME output # None PROVE EndIsFinal(output)'
  <2>1. response[output] \in Nat /\ current \in Nat /\ response[output] <= current
    BY <1>1 DEF OrderInv, InOrder, EndIsFinal, GatewayTypeOK, Counter
  <2> QED BY <2>1 DEF EndIsFinal
<1>2. CASE output = None \/ endQueued[output]
  BY <1>1, <1>2, KeepOrder DEF FinishAudioFrame
<1>3. CASE ~(output = None \/ endQueued[output])
  <2> DEFINE f    == framed[output]
             last == IF buffer = None THEN <<>> ELSE <<[stream |-> output, data |-> f + 1]>>
             room == GatewayQueue - Len(queue)
             all  == last \o <<[stream |-> output, data |-> EndMarker]>>
             n    == Minimum(room, Len(all))
             added == SubSeq(all, 1, n)
  <2>1. output \in Streams /\ f \in Nat /\ framed \in Counter /\ endQueued \in Flag
    BY <1>3 DEF GatewayTypeOK, Counter
  <2>2. room \in Nat
    BY QueueAssumption DEF GatewayTypeOK
  <2>3. last \in Seq(Packet) /\ Len(last) \in {0, 1}
    <3>1. [stream |-> output, data |-> f + 1] \in Packet
      BY <2>1 DEF Packet
    <3>2. <<[stream |-> output, data |-> f + 1]>> \in Seq(Packet)
      BY <3>1
    <3> QED BY <3>2
  <2>4. \A i \in 1 .. Len(last) : last[i].stream = output /\ last[i].data = f + 1
    OBVIOUS
  <2>5. /\ all \in Seq(Packet) /\ Len(all) = Len(last) + 1
        /\ \A i \in 1 .. Len(all) :
             all[i] = IF i <= Len(last) THEN last[i] ELSE [stream |-> output, data |-> EndMarker]
    <3>1. <<[stream |-> output, data |-> EndMarker]>> \in Seq(Packet)
      BY <2>1 DEF Packet, EndMarker
    <3> HIDE DEF last
    <3> QED BY <2>3, <3>1
  <2>6. /\ queue' = queue \o added
        /\ framed' = [framed EXCEPT ![output] = f + Minimum(room, Len(last))]
        /\ endQueued' = [endQueued EXCEPT ![output] = room >= Len(last)]
    BY <1>3 DEF FinishAudioFrame
  <2> HIDE DEF last, room, f, all
  <2>7. n \in 0 .. Len(all) /\ n <= room /\ (n > Len(last) => room >= Len(last))
        /\ (n >= 1 /\ Len(last) = 1 => Minimum(room, Len(last)) = 1)
    BY <2>2, <2>3, <2>5 DEF Minimum
  <2>8. /\ added \in Seq(Packet) /\ DOMAIN added = 1 .. n
        /\ \A i \in 1 .. n : added[i] = all[i]
    <3> HIDE DEF n
    <3> QED BY <2>5, <2>7
  <2>9. /\ framed'[output] = f + Minimum(room, Len(last))
        /\ endQueued'[output] = (room >= Len(last))
        /\ \A s \in Streams : s # output => endQueued'[s] = endQueued[s]
    BY <2>1, <2>6 DEF Counter, Flag
  <2>10. Minimum(room, Len(last)) \in Nat
    BY <2>2, <2>3 DEF Minimum
  <2> HIDE DEF added, n
  <2>11. \A i \in DOMAIN added :
           /\ added[i].stream = output
           /\ added[i].data = IF i <= Len(last) THEN f + 1 ELSE EndMarker
    <3> SUFFICES ASSUME NEW i \in 1 .. n
                 PROVE  /\ added[i].stream = output
                        /\ added[i].data = IF i <= Len(last) THEN f + 1 ELSE EndMarker
      BY <2>8
    <3>1. added[i] = IF i <= Len(last) THEN last[i] ELSE [stream |-> output, data |-> EndMarker]
      BY <2>5, <2>7, <2>8
    <3>2. CASE i <= Len(last)
      BY <2>3, <2>4, <3>1, <3>2
    <3>3. CASE ~(i <= Len(last))
      BY <3>1, <3>3
    <3> QED BY <3>2, <3>3
  <2>12. ASSUME NEW i \in 1 .. n
         PROVE  /\ added[i].data # EndMarker => added[i].data > f
                /\ added[i].data <= framed'[output]
                /\ added[i].data = EndMarker => endQueued'[output]
    <3>1. CASE i <= Len(last)
      <4>1. added[i].data = f + 1
        BY <2>8, <2>11, <3>1
      <4>2. n >= 1 /\ Len(last) = 1
        BY <2>3, <2>5, <2>7, <3>1
      <4> QED BY <2>1, <2>7, <2>9, <4>1, <4>2 DEF EndMarker
    <3>2. CASE ~(i <= Len(last))
      <4>1. added[i].data = EndMarker
        BY <2>8, <2>11, <3>2
      <4>2. n > Len(last)
        BY <2>3, <2>5, <2>7, <3>2
      <4>3. endQueued'[output]
        BY <2>7, <2>9, <4>2
      <4>4. 0 <= framed'[output]
        BY <2>1, <2>9, <2>10
      <4> QED BY <4>1, <4>3, <4>4 DEF EndMarker
    <3> QED BY <3>1, <3>2
  <2>13. \A i, j \in DOMAIN added : i < j => Before(added[i].data, added[j].data)
    <3> SUFFICES ASSUME NEW i \in 1 .. n, NEW j \in 1 .. n, i < j
                 PROVE  Before(added[i].data, added[j].data)
      BY <2>8
    <3>1. i <= Len(last) /\ ~(j <= Len(last))
      BY <2>3, <2>5, <2>7
    <3>2. added[i].data = f + 1 /\ added[j].data = EndMarker
      BY <2>8, <2>11, <3>1
    <3> QED BY <2>1, <3>2 DEF Before, EndMarker
  <2>14. framed'[output] \in Nat /\ framed'[output] >= framed[output]
    BY <2>1, <2>9, <2>10 DEF f
  <2>15. \A i \in DOMAIN added :
           /\ added[i].stream = output
           /\ added[i].data # EndMarker => added[i].data > framed[output]
           /\ added[i].data <= framed'[output]
           /\ added[i].data = EndMarker => endQueued'[output]
    BY <2>8, <2>11, <2>12 DEF f
  <2> QED
    BY <1>1, <1>3, <2>6, <2>8, <2>9, <2>13, <2>14, <2>15, QueueGrows
<1> QED BY <1>2, <1>3

-----------------------------------------------------------------------------
(* The sender.                                                              *)

\* A frame or an end marker of the current stream goes on the wire when it comes
\* before everything of the stream still queued and after everything of it sent.
LEMMA SendOrder ==
  ASSUME GatewayTypeOK, OrderInv, output # None,
         NEW m \in Message, Audio(m, output), toDevice' = Append(toDevice, m),
         Queued(output, Datum(m)),
         m.kind = "frame" => m.n # EndMarker,
         \A k \in DOMAIN toDevice :
           Audio(toDevice[k], output) => Before(Datum(toDevice[k]), Datum(m)),
         NEW q \in Nat, queue' = SubSeq(queue, 1 + q, Len(queue)), q <= Len(queue),
         \A j \in DOMAIN queue' : queue'[j].stream = output => Before(Datum(m), queue'[j].data),
         packet'.stream <= created, sender' \in {"sending", "ending"},
         UNCHANGED <<created, output, framed, endQueued, response, current, audioDone, reader>>
  PROVE  OrderInv'
<1>1. toDevice \in Seq(Message) /\ queue \in Seq(Packet)
  BY DEF GatewayTypeOK
<1>2. output \in Streams /\ output = created
  BY DEF GatewayTypeOK, OrderInv
<1>3. \A k \in DOMAIN toDevice : MayFollow(toDevice[k], m)
  <2> SUFFICES ASSUME NEW k \in DOMAIN toDevice PROVE MayFollow(toDevice[k], m)
    OBVIOUS
  <2>1. toDevice[k] \in Message
    BY <1>1
  <2>2. toDevice[k].stream \in Nat /\ toDevice[k].stream <= output /\ output \in Nat
    BY <1>2, <2>1, StreamsAssumption DEF OrderInv, NothingBeyond, Message, Streams
  <2>3. CASE toDevice[k].stream < output
    BY <2>3 DEF MayFollow, Audio
  <2>4. CASE toDevice[k].stream = output /\ toDevice[k].kind \in {"frame", "end"}
    <3>1. Before(Datum(toDevice[k]), Datum(m))
      BY <2>4 DEF Audio
    <3> QED BY <2>4, <3>1 DEF MayFollow, Audio, Before, Datum
  <2>5. CASE toDevice[k].stream = output /\ toDevice[k].kind \notin {"frame", "end"}
    BY <2>5 DEF MayFollow, Audio
  <2> QED BY <2>2, <2>3, <2>4, <2>5
<1>4. WireInOrder'
  BY <1>1, <1>3, WireAppend DEF OrderInv
<1>5. /\ DOMAIN queue' = 1 .. Len(queue) - q
      /\ \A i \in DOMAIN queue' : i + q \in DOMAIN queue /\ queue'[i] = queue[i + q]
  BY <1>1
<1>6. \A k \in DOMAIN toDevice' :
        \/ k \in DOMAIN toDevice /\ toDevice'[k] = toDevice[k]
        \/ toDevice'[k] = m
  BY <1>1
<1>7. NothingBeyond(created)'
  <2>1. \A k \in DOMAIN toDevice' : toDevice'[k].stream <= created
    BY <1>2, <1>6, StreamsAssumption DEF OrderInv, NothingBeyond, Audio, Streams
  <2>2. \A i \in DOMAIN queue' : queue'[i].stream <= created
    BY <1>5 DEF OrderInv, NothingBeyond
  <2> QED BY <2>1, <2>2 DEF OrderInv, NothingBeyond
<1>8. QueueOrdered(output) /\ WireOrdered(output) /\ EndIsFinal(output)
  BY DEF OrderInv, InOrder
<1>9. QueueOrdered(output)'
  <2>1. ASSUME NEW i \in DOMAIN queue', queue'[i].stream = output
        PROVE  Queued(output, queue'[i].data)
    BY <1>5, <1>8, <2>1 DEF QueueOrdered
  <2>2. ASSUME NEW i \in DOMAIN queue', NEW j \in DOMAIN queue', i < j,
               queue'[i].stream = output, queue'[j].stream = output
        PROVE  Before(queue'[i].data, queue'[j].data)
    <3>1. i + q \in DOMAIN queue /\ j + q \in DOMAIN queue /\ i + q < j + q
      BY <1>5, <2>2
    <3> QED BY <1>5, <1>8, <2>2, <3>1 DEF QueueOrdered
  <2> QED BY <2>1, <2>2 DEF QueueOrdered, Queued, Before
<1>10. HeldOrdered(output)'
  BY DEF HeldOrdered, Holds
<1>11. WireOrdered(output)'
  <2> SUFFICES ASSUME NEW k \in DOMAIN toDevice', Audio(toDevice'[k], output)
               PROVE  /\ Queued(output, Datum(toDevice'[k]))
                      /\ \A j \in DOMAIN queue' :
                           queue'[j].stream = output => Before(Datum(toDevice'[k]), queue'[j].data)
    BY DEF WireOrdered, Audio, Datum, Queued, Before, Holds
  <2>1. CASE toDevice'[k] = m
    BY <2>1
  <2>2. CASE k \in DOMAIN toDevice /\ toDevice'[k] = toDevice[k]
    BY <1>5, <1>8, <2>2 DEF WireOrdered
  <2> QED BY <1>6, <2>1, <2>2
<1>12. EndIsFinal(output)'
  BY <1>8 DEF EndIsFinal
<1> QED BY <1>2, <1>4, <1>7, <1>9, <1>10, <1>11, <1>12 DEF OrderInv, InOrder

\* A packet is taken: one of a stream no longer current is dropped, an end marker is
\* sent and a frame is held.
LEMMA TakeOrder ==
  ASSUME GatewayTypeOK, OrderInv, TakePacket
  PROVE  OrderInv'
<1> DEFINE p == Head(queue)
<1>1. queue \in Seq(Packet) /\ queue # <<>> /\ toDevice \in Seq(Message)
  BY DEF GatewayTypeOK, TakePacket
<1>2. p \in Packet /\ p = queue[1] /\ 1 \in DOMAIN queue
  BY <1>1
<1>3. /\ DOMAIN queue' = 1 .. Len(queue) - 1
      /\ \A i \in DOMAIN queue' : i + 1 \in DOMAIN queue /\ queue'[i] = queue[i + 1]
  BY <1>1 DEF TakePacket
<1>4. UNCHANGED <<created, output, framed, endQueued, response, current, audioDone, reader>>
  BY DEF TakePacket, streamVars, cloudVars
<1>5. packet'.stream <= created
  BY <1>2, StreamsAssumption DEF TakePacket, OrderInv, NothingBeyond, NoPacket, None, GatewayTypeOK
<1>6. \A j \in DOMAIN queue' : output # None /\ p.stream = output /\ queue'[j].stream = output
                                => Before(p.data, queue'[j].data)
  <2> SUFFICES ASSUME NEW j \in DOMAIN queue', output # None, p.stream = output,
                      queue'[j].stream = output
               PROVE  Before(p.data, queue'[j].data)
    OBVIOUS
  <2>1. j + 1 \in DOMAIN queue /\ 1 < j + 1 /\ queue'[j] = queue[j + 1]
    BY <1>3
  <2> QED BY <1>2, <2>1 DEF OrderInv, InOrder, QueueOrdered
<1>7. CASE output # None /\ IsCurrent(p) /\ p.data = EndMarker
  <2> DEFINE m == [kind |-> "end", stream |-> output, n |-> sent[output]]
  <2>1. m \in Message /\ Audio(m, output) /\ Datum(m) = EndMarker /\ m.kind = "end"
    BY <1>7 DEF GatewayTypeOK, Message, Counter, Audio, Datum
  <2>2. toDevice' = Append(toDevice, m) /\ sender' = "ending"
    BY <1>7 DEF TakePacket, Send
  <2>3. Queued(output, Datum(m))
    BY <1>2, <1>7, <2>1 DEF IsCurrent, OrderInv, InOrder, QueueOrdered
  <2>4. \A k \in DOMAIN toDevice :
          Audio(toDevice[k], output) => Before(Datum(toDevice[k]), Datum(m))
    BY <1>2, <1>7, <2>1 DEF IsCurrent, OrderInv, InOrder, WireOrdered
  <2>5. queue' = SubSeq(queue, 1 + 1, Len(queue)) /\ 1 <= Len(queue)
    BY <1>1 DEF TakePacket
  <2>6. \A j \in DOMAIN queue' : queue'[j].stream = output => Before(Datum(m), queue'[j].data)
    BY <1>6, <1>7, <2>1 DEF IsCurrent
  <2> HIDE DEF m
  <2> QED
    BY <1>4, <1>5, <1>7, <2>1, <2>2, <2>3, <2>4, <2>5, <2>6, SendOrder
<1>8. CASE ~(output # None /\ IsCurrent(p) /\ p.data = EndMarker)
  <2>1. toDevice' = toDevice
    BY <1>8 DEF TakePacket, IsCurrent
  <2>2. WireInOrder'
    BY <2>1 DEF OrderInv, WireInOrder, MayFollow
  <2>3. NothingBeyond(created)'
    BY <1>3, <1>4, <1>5, <2>1 DEF OrderInv, NothingBeyond
  <2>4. ASSUME output' # None PROVE InOrder(output)'
    <3>1. output # None /\ QueueOrdered(output) /\ WireOrdered(output) /\ EndIsFinal(output)
      BY <1>4, <2>4 DEF OrderInv, InOrder
    <3>2. QueueOrdered(output)'
      <4>1. ASSUME NEW i \in DOMAIN queue', queue'[i].stream = output
            PROVE  Queued(output, queue'[i].data)
        BY <1>3, <3>1, <4>1 DEF QueueOrdered
      <4>2. ASSUME NEW i \in DOMAIN queue', NEW j \in DOMAIN queue', i < j,
                   queue'[i].stream = output, queue'[j].stream = output
            PROVE  Before(queue'[i].data, queue'[j].data)
        <5>1. i + 1 \in DOMAIN queue /\ j + 1 \in DOMAIN queue /\ i + 1 < j + 1
          BY <1>3, <4>2
        <5> QED BY <1>3, <3>1, <4>2, <5>1 DEF QueueOrdered
      <4> QED BY <1>4, <4>1, <4>2 DEF QueueOrdered, Queued, Before
    <3>3. Holds(output)' => packet' = p /\ p.stream = output /\ p.data # EndMarker
      BY <1>4, <1>8, <3>1 DEF Holds, TakePacket, IsCurrent, NoPacket
    <3>4. HeldOrdered(output)'
      <4>1. p.stream = output => Queued(output, p.data)
        BY <1>2, <3>1 DEF QueueOrdered
      <4> QED BY <1>4, <1>6, <3>1, <3>3, <4>1 DEF HeldOrdered, Queued, Before
    <3>5. WireOrdered(output)'
      <4> SUFFICES ASSUME NEW k \in DOMAIN toDevice, Audio(toDevice[k], output)
                   PROVE  /\ Queued(output, Datum(toDevice[k]))
                          /\ Holds(output)' => Before(Datum(toDevice[k]), packet'.data)
                          /\ \A j \in DOMAIN queue' : queue'[j].stream = output
                               => Before(Datum(toDevice[k]), queue'[j].data)
        BY <1>4, <2>1 DEF WireOrdered, Audio, Datum, Queued, Before, Holds
      <4>1. /\ Queued(output, Datum(toDevice[k]))
            /\ \A j \in DOMAIN queue : queue[j].stream = output
                 => Before(Datum(toDevice[k]), queue[j].data)
        BY <3>1 DEF WireOrdered
      <4> QED BY <1>2, <1>3, <3>3, <4>1
    <3>6. EndIsFinal(output)'
      BY <1>4, <3>1 DEF EndIsFinal
    <3> QED BY <3>2, <3>4, <3>5, <3>6 DEF InOrder
  <2> QED BY <1>4, <2>2, <2>3, <2>4 DEF OrderInv
<1> QED BY <1>7, <1>8

\* The frame held is sent, dropped or held on to.
LEMMA SendFrameOrder ==
  ASSUME GatewayTypeOK, OrderInv, SendFrame
  PROVE  OrderInv'
<1>1. CASE toDevice' = toDevice
  BY <1>1, QuietOrder DEF SendFrame, streamVars, cloudVars
<1>2. CASE /\ IsCurrent(packet) /\ sender' = "sending" /\ packet' = packet
           /\ Send("frame", packet.stream, packet.data)
  <2> DEFINE m == [kind |-> "frame", stream |-> output, n |-> packet.data]
  <2>1. output # None /\ output = packet.stream /\ output \in Streams /\ packet.data \in Nat
    BY <1>2 DEF IsCurrent, GatewayTypeOK, Packet, NoPacket
  <2>2. m \in Message /\ Audio(m, output) /\ Datum(m) = packet.data /\ m.n = packet.data
    BY <2>1 DEF Message, Audio, Datum
  <2>3. toDevice' = Append(toDevice, m)
    BY <1>2, <2>1 DEF Send
  <2>4. Holds(output) /\ HeldOrdered(output) /\ WireOrdered(output)
    BY <2>1 DEF SendFrame, Holds, OrderInv, InOrder
  <2>5. Queued(output, Datum(m)) /\ m.n # EndMarker
    BY <2>2, <2>4 DEF HeldOrdered, Queued
  <2>6. \A k \in DOMAIN toDevice :
          Audio(toDevice[k], output) => Before(Datum(toDevice[k]), Datum(m))
    BY <2>2, <2>4 DEF WireOrdered
  <2>7. /\ queue' = queue /\ queue = SubSeq(queue, 1 + 0, Len(queue)) /\ 0 <= Len(queue)
        /\ UNCHANGED <<created, output, framed, endQueued, response, current, audioDone, reader>>
    BY DEF GatewayTypeOK, SendFrame, streamVars, cloudVars
  <2>8. \A j \in DOMAIN queue' : queue'[j].stream = output => Before(Datum(m), queue'[j].data)
    BY <2>2, <2>4, <2>7 DEF HeldOrdered
  <2>9. packet'.stream <= created
    BY <1>2 DEF OrderInv, NothingBeyond
  <2> HIDE DEF m
  <2> QED
    BY <1>2, <2>1, <2>2, <2>3, <2>5, <2>6, <2>7, <2>8, <2>9, SendOrder
<1> QED BY <1>1, <1>2 DEF SendFrame

-----------------------------------------------------------------------------

LEMMA OrderInit == GatewayInit => OrderInv
<1> SUFFICES ASSUME GatewayInit PROVE OrderInv
  OBVIOUS
<1>1. output = None /\ toDevice = <<>> /\ queue = <<>>
  BY DEF GatewayInit
<1>2. WireInOrder
  BY <1>1 DEF WireInOrder
<1>3. NothingBeyond(created)
  BY <1>1 DEF GatewayInit, NothingBeyond, NoPacket, None
<1> QED BY <1>1, <1>2, <1>3 DEF OrderInv

LEMMA OrderStep ==
  ASSUME GatewayTypeOK, OrderInv, [GatewayNext]_<<gatewayVars, toDevice>>
  PROVE  OrderInv'
<1>1. CASE Reader
  <2>1. ASSUME NEW frames \in 0 .. MaxDelta, NEW rest \in Remainders,
               StartStream(frames, rest) \/ AppendDelta(frames, rest)
        PROVE  OrderInv'
    BY <2>1, StartOrder, AppendOrder, BoundsAssumption
  <2>2. CASE OutputAudioDone
    BY <2>2, FinishOrder DEF OutputAudioDone
  <2>3. CASE ResponseDone
    BY <2>3, FinishOrder DEF ResponseDone
  <2>4. CASE SpeechStarted
    BY <2>4, FlushOrder DEF SpeechStarted, streamVars, cloudVars
  <2> QED
    BY <1>1, <2>1, <2>2, <2>3, <2>4, QuietSteps, AnnouncedOrder, InterruptedOrder DEF Reader
<1>2. CASE Sender
  BY <1>2, TakeOrder, SendFrameOrder, QuietSteps DEF Sender
<1>3. CASE Watchdog
  <2>1. CASE WatchdogFlush
    BY <2>1, FlushOrder DEF WatchdogFlush, streamVars, cloudVars
  <2> QED BY <1>3, <2>1, QuietSteps DEF Watchdog
<1>4. CASE DeviceReads
  BY <1>4, DeviceReadsOrder
<1>5. CASE DeviceReports
  BY <1>5, QuietSteps, BoundsAssumption DEF DeviceReports
<1>6. CASE MuteReported \/ UNCHANGED <<gatewayVars, toDevice>>
  BY <1>6, QuietSteps
<1> QED
  BY <1>1, <1>2, <1>3, <1>4, <1>5, <1>6 DEF GatewayNext, GatewayStep

\* What follows what on the device's socket is always in order: nothing of a stream
\* after the start of a newer one, its frames in the order they were cut and each once,
\* its end marker after all of them; however many streams and frames there are, however
\* the four tasks interleave and whatever the device reports.
THEOREM WireAlwaysInOrder == GatewaySpec => []WireInOrder
<1>1. GatewayInit => GatewayTypeOK /\ OrderInv
  BY GatewayInitType, OrderInit
<1>2. GatewayTypeOK /\ OrderInv /\ [GatewayNext]_<<gatewayVars, toDevice>>
        => (GatewayTypeOK /\ OrderInv)'
  BY GatewayTypeStep, OrderStep
<1>3. OrderInv => WireInOrder
  BY DEF OrderInv
<1> QED
  BY <1>1, <1>2, <1>3, PTL DEF GatewaySpec

=============================================================================
