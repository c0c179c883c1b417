------------------------- MODULE PlaybackOutputProof -------------------------
(***************************************************************************)
(* NoMixedFrame, StateMatchesOutput, EndedMeansAllSent and                 *)
(* CancelledIsSilent hold of PlaybackGateway, for every device and every   *)
(* bound.                                                                  *)
(*                                                                         *)
(* The first two are inductive.  EndedMeansAllSent is not: that nothing is *)
(* lost between the cloud's audio and playback.end rests on where each     *)
(* frame of the current stream is (sent, with the sender, or queued), and  *)
(* on the order of the queue, which PlaybackGatewayProof has shown.        *)
(* CancelledIsSilent rests on whose response the current stream carries.   *)
(***************************************************************************)
EXTENDS PlaybackGatewayProof

\* The sender has a frame of stream s that is not counted in sent yet.
Handled(s) == sender \in {"pacing", "waiting", "sending"} /\ packet.stream = s

\* Frames of stream s taken off the queue.
Taken(s) == sent[s] + (IF Handled(s) THEN 1 ELSE 0)

\* Every frame framed and not taken is queued, and only those are.
Accounted(s) ==
  /\ Taken(s) <= framed[s]
  /\ \A d \in 1 .. framed[s] : Taken(s) < d
       => \E i \in DOMAIN queue : queue[i].stream = s /\ queue[i].data = d
  /\ \A i \in DOMAIN queue : queue[i].stream = s /\ queue[i].data # EndMarker
       => Taken(s) < queue[i].data

\* The end marker of stream s has been taken off the queue.
EndTaken(s) == ended[s] \/ (sender = "ending" /\ packet.stream = s)

\* It is taken after all frames, of which there is one at least.
Finished(s) ==
  /\ EndTaken(s) => endQueued[s] /\ sent[s] = framed[s]
  /\ endQueued[s] => buffer = None /\ framed[s] > 0
  /\ reader \in {"idle", "flushing", "truncating"} => buffer # None \/ framed[s] > 0

\* The delta that opened a stream is not empty.
DeltaHeld == reader \in {"starting", "speaking"} => delta.frames > 0 \/ delta.rest

Untouched == \A s \in Streams : s > created => sent[s] = 0 /\ framed[s] = 0 /\ ~ended[s]

OutputInv ==
  /\ Untouched
  /\ DeltaHeld
  /\ output # None => Accounted(output) /\ Finished(output)

-----------------------------------------------------------------------------
(* The partial frame and the state.                                        *)

\* Only opening a stream changes what output_buffer may hold, and it empties it.
LEMMA MixedStep ==
  ASSUME GatewayTypeOK, NoMixedFrame, [GatewayNext]_<<gatewayVars, toDevice>>
  PROVE  NoMixedFrame'
<1>1. CASE Reader
  <2>1. ASSUME NEW frames \in 0 .. MaxDelta, NEW rest \in Remainders,
               StartStream(frames, rest) \/ AppendDelta(frames, rest)
        PROVE  NoMixedFrame'
    BY <2>1 DEF StartStream, AppendDelta, QueueAudio, NoMixedFrame, None
  <2>2. CASE StreamAnnounced
    BY <2>2 DEF StreamAnnounced, QueueAudio, NoMixedFrame, None
  <2>3. CASE OutputAudioDone \/ ResponseDone
    BY <2>3 DEF OutputAudioDone, ResponseDone, FinishAudioFrame, NoMixedFrame
  <2>4. CASE StartSent \/ TransportError \/ SpeechStarted \/ Truncate \/ Interrupted
             \/ SpeechStopped \/ CloudError
    BY <2>4 DEF StartSent, TransportError, SpeechStarted, Truncate, Interrupted,
                SpeechStopped, CloudError, NoMixedFrame
  <2> QED BY <1>1, <2>1, <2>2, <2>3, <2>4 DEF Reader
<1>2. CASE Sender
  BY <1>2 DEF Sender, TakePacket, EndSent, SendFrame, CapacityAwaited, FrameSent, NoMixedFrame
<1>3. CASE Watchdog
  BY <1>3 DEF Watchdog, WatchdogFlush, WatchdogComplete, CompletePlayback, NoMixedFrame
<1>4. CASE DeviceReads \/ MuteReported \/ UNCHANGED <<gatewayVars, toDevice>>
  BY <1>4 DEF DeviceReads, MuteReported, gatewayVars, NoMixedFrame
<1>5. ASSUME NEW s \in Streams, NEW n \in 0 .. MaxFrames, PlaybackProgress(s, n)
      PROVE  NoMixedFrame'
  BY <1>5 DEF PlaybackProgress, CompletePlayback, NoMixedFrame
<1> QED
  BY <1>1, <1>2, <1>3, <1>4, <1>5 DEF GatewayNext, GatewayStep, DeviceReports

\* Whoever ends a stream leaves SPEAKING, and the reader leaves LISTENING with
\* the stream it opens.
LEMMA StateStep ==
  ASSUME GatewayTypeOK, StateMatchesOutput, [GatewayNext]_<<gatewayVars, toDevice>>
  PROVE  StateMatchesOutput'
<1>1. CASE Reader
  <2>1. ASSUME NEW frames \in 0 .. MaxDelta, NEW rest \in Remainders,
               StartStream(frames, rest) \/ AppendDelta(frames, rest)
        PROVE  StateMatchesOutput'
    BY <2>1 DEF StartStream, AppendDelta, CloudDelta, Streaming, QueueAudio, StateMatchesOutput
  <2>2. CASE StreamAnnounced
    BY <2>2 DEF StreamAnnounced, QueueAudio, StateMatchesOutput
  <2>3. CASE OutputAudioDone \/ ResponseDone
    BY <2>3 DEF OutputAudioDone, ResponseDone, StateMatchesOutput
  <2>4. CASE StartSent \/ TransportError \/ SpeechStarted \/ Truncate \/ Interrupted
             \/ SpeechStopped \/ CloudError
    BY <2>4 DEF StartSent, TransportError, SpeechStarted, Truncate, Interrupted,
                SpeechStopped, CloudError, StateMatchesOutput
  <2> QED BY <1>1, <2>1, <2>2, <2>3, <2>4 DEF Reader
<1>2. CASE Sender
  BY <1>2 DEF Sender, TakePacket, EndSent, SendFrame, CapacityAwaited, FrameSent,
              StateMatchesOutput
<1>3. CASE Watchdog
  BY <1>3 DEF Watchdog, WatchdogFlush, WatchdogComplete, CompletePlayback, StateMatchesOutput
<1>4. CASE DeviceReads \/ MuteReported \/ UNCHANGED <<gatewayVars, toDevice>>
  BY <1>4 DEF DeviceReads, MuteReported, taskVars, gatewayVars, StateMatchesOutput
<1>5. ASSUME NEW s \in Streams, NEW n \in 0 .. MaxFrames, PlaybackProgress(s, n)
      PROVE  StateMatchesOutput'
  BY <1>5 DEF PlaybackProgress, CompletePlayback, taskVars, StateMatchesOutput
<1> QED
  BY <1>1, <1>2, <1>3, <1>4, <1>5 DEF GatewayNext, GatewayStep, DeviceReports

-----------------------------------------------------------------------------
(* Where the frames are.                                                   *)

\* The sender's frame is the same, or is dropped with its stream.
SenderKeeps ==
  \/ UNCHANGED <<sender, packet>>
  \/ /\ {sender, sender'} \subseteq {"pacing", "waiting", "sending"}
     /\ packet' = packet
  \/ sender = "pacing" /\ sender' = "get" /\ ~IsCurrent(packet)

\* A step that neither takes, queues nor counts a frame, and opens no stream.
LEMMA KeepOutput ==
  ASSUME GatewayTypeOK, OutputInv, SenderKeeps,
         UNCHANGED <<created, framed, sent, endQueued, ended, buffer, queue, delta>>,
         output' \in {output, None},
         reader' \in {"starting", "speaking"} => reader \in {"starting", "speaking"},
         reader' \in {"idle", "flushing", "truncating"}
           => reader \in {"idle", "flushing", "truncating"}
  PROVE  OutputInv'
<1>1. Untouched' /\ DeltaHeld'
  BY DEF OutputInv, Untouched, DeltaHeld
<1>2. ASSUME output' # None PROVE Accounted(output)' /\ Finished(output)'
  <2>1. output' = output /\ output # None /\ Accounted(output) /\ Finished(output)
    BY <1>2 DEF OutputInv
  <2>2. Handled(output)' <=> Handled(output)
    BY <2>1 DEF SenderKeeps, Handled, IsCurrent
  <2>3. EndTaken(output)' => EndTaken(output)
    BY <2>1 DEF SenderKeeps, EndTaken
  <2>4. Taken(output)' = Taken(output)
    BY <2>1, <2>2 DEF Taken
  <2>5. Accounted(output)'
    BY <2>1, <2>4 DEF Accounted
  <2>6. Finished(output)'
    BY <2>1, <2>3 DEF Finished
  <2> QED BY <2>5, <2>6
<1> QED BY <1>1, <1>2 DEF OutputInv

LEMMA KeepOutputSteps ==
  ASSUME GatewayTypeOK, OutputInv,
         \/ StartSent \/ TransportError \/ SpeechStarted \/ Truncate \/ SpeechStopped
         \/ CloudError \/ SendFrame \/ CapacityAwaited \/ Watchdog \/ DeviceReads
         \/ MuteReported \/ UNCHANGED <<gatewayVars, toDevice>>
         \/ \E s \in Streams, n \in 0 .. MaxFrames : PlaybackProgress(s, n)
  PROVE  OutputInv'
<1>1. CASE StartSent \/ TransportError
  BY <1>1, KeepOutput DEF StartSent, TransportError, streamVars, SenderKeeps
<1>2. CASE SpeechStarted \/ Truncate \/ SpeechStopped \/ CloudError
  BY <1>2, KeepOutput DEF SpeechStarted, Truncate, SpeechStopped, CloudError, taskVars,
                          streamVars, SenderKeeps
<1>3. CASE SendFrame \/ CapacityAwaited
  BY <1>3, KeepOutput DEF SendFrame, CapacityAwaited, streamVars, SenderKeeps
<1>4. CASE Watchdog
  BY <1>4, KeepOutput DEF Watchdog, WatchdogFlush, WatchdogComplete, CompletePlayback,
                          streamVars, SenderKeeps
<1>5. CASE DeviceReads \/ MuteReported \/ UNCHANGED <<gatewayVars, toDevice>>
  BY <1>5, KeepOutput DEF DeviceReads, MuteReported, gatewayVars, taskVars, streamVars,
                          SenderKeeps
<1>6. ASSUME NEW s \in Streams, NEW n \in 0 .. MaxFrames, PlaybackProgress(s, n)
      PROVE  OutputInv'
  BY <1>6, KeepOutput DEF PlaybackProgress, CompletePlayback, taskVars, SenderKeeps
<1> QED BY <1>1, <1>2, <1>3, <1>4, <1>5, <1>6

\* The stream is dropped.
LEMMA InterruptedOutput ==
  ASSUME OutputInv, Interrupted
  PROVE  OutputInv'
  BY DEF OutputInv, Untouched, DeltaHeld, Interrupted, streamVars

\* A new stream has no frames yet, and the delta that opens it waits.
LEMMA StartOutput ==
  ASSUME GatewayTypeOK, OrderInv, OutputInv,
         NEW frames \in Nat, NEW rest \in BOOLEAN, StartStream(frames, rest)
  PROVE  OutputInv'
<1>1. /\ created \in Nat /\ created' = created + 1 /\ output' = created'
      /\ created' \in Streams
  BY StreamsAssumption DEF GatewayTypeOK, StartStream, Streams
<1>2. UNCHANGED <<framed, sent, ended, endQueued, queue, sender, packet>>
  BY DEF StartStream
<1>3. Untouched'
  BY <1>1, <1>2, StreamsAssumption DEF OutputInv, Untouched, Streams
<1>4. DeltaHeld'
  BY DEF StartStream, CloudDelta, DeltaHeld
<1>5. sent[created'] = 0 /\ framed[created'] = 0 /\ ~ended[created'] /\ ~endQueued[created']
  BY <1>1 DEF OutputInv, Untouched, OrderInv, NothingBeyond
<1>6. packet.stream # created' /\ \A i \in DOMAIN queue : queue[i].stream # created'
  BY <1>1 DEF OrderInv, NothingBeyond
<1>7. Accounted(output)'
  BY <1>1, <1>2, <1>5, <1>6 DEF Accounted, Taken, Handled
<1>8. Finished(output)'
  BY <1>1, <1>2, <1>5, <1>6 DEF Finished, EndTaken, StartStream
<1> QED BY <1>3, <1>4, <1>7, <1>8 DEF OutputInv

-----------------------------------------------------------------------------
(* The sender.                                                             *)

\* A frame taken is the next one of its stream, and when the end marker is taken
\* there is none left.
LEMMA TakeOutput ==
  ASSUME GatewayTypeOK, OrderInv, OutputInv, TakePacket
  PROVE  OutputInv'
<1> DEFINE p == Head(queue)
<1>1. UNCHANGED <<created, output, framed, sent, endQueued, ended, buffer, delta, reader>>
  BY DEF TakePacket, streamVars
<1>2. Untouched' /\ DeltaHeld'
  BY <1>1 DEF OutputInv, Untouched, DeltaHeld
<1>3. ASSUME output' # None PROVE Accounted(output)' /\ Finished(output)'
  <2>1. /\ output # None /\ output' = output /\ output \in Streams
        /\ Accounted(output) /\ Finished(output) /\ QueueOrdered(output)
    BY <1>1, <1>3 DEF OutputInv, OrderInv, InOrder, GatewayTypeOK
  <2>2. sent[output] \in Nat /\ framed[output] \in Nat
    BY <2>1 DEF GatewayTypeOK, Counter
  <2>3. Taken(output) = sent[output] /\ sender = "get"
    BY <2>2 DEF TakePacket, Taken, Handled
  <2>4. queue \in Seq(Packet) /\ queue # <<>> /\ queue' = Tail(queue)
    BY DEF GatewayTypeOK, TakePacket
  <2>5. /\ 1 \in DOMAIN queue /\ p = queue[1] /\ DOMAIN queue' = 1 .. Len(queue) - 1
        /\ \A i \in DOMAIN queue' : i + 1 \in DOMAIN queue /\ queue'[i] = queue[i + 1]
    BY <2>4
  <2>6. \A i \in DOMAIN queue : i # 1 => i - 1 \in DOMAIN queue' /\ queue'[i - 1] = queue[i]
    BY <2>4, <2>5
  <2>7. \A i \in DOMAIN queue : queue[i].data \in Nat
    <3> SUFFICES ASSUME NEW i \in DOMAIN queue PROVE queue[i].data \in Nat
      OBVIOUS
    <3>1. queue[i] \in Packet
      BY <2>4
    <3> QED BY <3>1 DEF Packet
  <2>8. CASE p.stream # output
    <3>1. sender' = "get" /\ packet' = NoPacket
      BY <2>3, <2>8 DEF TakePacket, IsCurrent
    <3>2. Taken(output)' = Taken(output) /\ (EndTaken(output)' => EndTaken(output))
      BY <1>1, <2>2, <2>3, <3>1 DEF Taken, Handled, EndTaken
    <3>3. Accounted(output)'
      BY <1>1, <2>1, <2>5, <2>6, <2>8, <3>2 DEF Accounted
    <3> QED BY <1>1, <2>1, <3>2, <3>3 DEF Finished
  <2>9. CASE p.stream = output /\ p.data = EndMarker
    <3>1. sender' = "ending" /\ packet' = p
      BY <2>1, <2>9 DEF TakePacket, IsCurrent
    <3>2. Taken(output)' = Taken(output)
      BY <1>1, <2>2, <2>3, <3>1 DEF Taken, Handled
    <3>3. \A i \in DOMAIN queue : i # 1 => queue[i].stream # output
      BY <2>1, <2>4, <2>5, <2>9 DEF QueueOrdered, Before
    <3>4. sent[output] = framed[output] /\ endQueued[output]
      <4>1. endQueued[output]
        BY <2>1, <2>5, <2>9 DEF QueueOrdered, Queued
      <4>2. ~(sent[output] < framed[output])
        <5> SUFFICES ASSUME sent[output] < framed[output] PROVE FALSE
          OBVIOUS
        <5>1. framed[output] \in 1 .. framed[output]
          BY <2>2
        <5>2. PICK i \in DOMAIN queue : queue[i].stream = output /\ queue[i].data = framed[output]
          BY <2>1, <2>3, <5>1 DEF Accounted
        <5> QED BY <2>2, <2>5, <2>9, <3>3, <5>1, <5>2 DEF EndMarker
      <4> QED BY <2>1, <2>2, <2>3, <4>1, <4>2 DEF Accounted
    <3>5. Accounted(output)'
      BY <1>1, <2>1, <2>2, <2>3, <2>5, <3>2, <3>3, <3>4 DEF Accounted
    <3> QED BY <1>1, <2>1, <3>4, <3>5 DEF Finished
  <2>10. CASE p.stream = output /\ p.data # EndMarker
    <3>1. sender' = "pacing" /\ packet' = p
      BY <2>1, <2>10 DEF TakePacket, IsCurrent
    <3>2. Taken(output)' = sent[output] + 1 /\ (EndTaken(output)' => EndTaken(output))
      BY <1>1, <2>10, <3>1 DEF Taken, Handled, EndTaken
    <3>3. \A i \in DOMAIN queue' : queue'[i].stream = output =>
            queue'[i].data = EndMarker \/ p.data < queue'[i].data
      BY <2>1, <2>4, <2>5, <2>10 DEF QueueOrdered, Before
    <3>4. p.data \in Nat /\ sent[output] < p.data /\ p.data <= framed[output]
      BY <2>1, <2>3, <2>5, <2>7, <2>10 DEF Accounted, QueueOrdered, Queued
    <3>5. \A d \in 1 .. framed[output] : sent[output] + 1 < d
            => \E i \in DOMAIN queue' : queue'[i].stream = output /\ queue'[i].data = d
      <4> SUFFICES ASSUME NEW d \in 1 .. framed[output], sent[output] + 1 < d
                   PROVE  \E i \in DOMAIN queue' : queue'[i].stream = output /\ queue'[i].data = d
        OBVIOUS
      <4>1. PICK i \in DOMAIN queue : queue[i].stream = output /\ queue[i].data = d
        BY <2>1, <2>2, <2>3 DEF Accounted
      <4>2. i # 1
        <5> SUFFICES ASSUME p.data = d PROVE FALSE
          BY <2>5, <4>1
        <5>1. PICK j \in DOMAIN queue :
                queue[j].stream = output /\ queue[j].data = sent[output] + 1
          BY <2>1, <2>2, <2>3 DEF Accounted
        <5>2. j # 1 /\ 1 < j
          BY <2>2, <2>4, <2>5, <5>1
        <5>3. p.data < sent[output] + 1
          BY <2>1, <2>2, <2>5, <2>10, <5>1, <5>2 DEF QueueOrdered, Before, EndMarker
        <5> QED BY <2>2, <5>3
      <4> QED BY <2>6, <4>1, <4>2
    <3>6. p.data = sent[output] + 1
      <4> SUFFICES ASSUME sent[output] + 1 < p.data PROVE FALSE
        BY <2>2, <3>4
      <4>1. PICK i \in DOMAIN queue : queue[i].stream = output /\ queue[i].data = sent[output] + 1
        BY <2>1, <2>2, <2>3, <3>4 DEF Accounted
      <4>2. i # 1
        BY <2>5, <4>1, <2>2
      <4> QED BY <2>2, <2>6, <3>3, <3>4, <4>1, <4>2 DEF EndMarker
    <3>7. Accounted(output)'
      BY <1>1, <2>1, <2>2, <3>2, <3>3, <3>4, <3>5, <3>6 DEF Accounted
    <3> QED BY <1>1, <2>1, <3>2, <3>7 DEF Finished
  <2> QED BY <2>8, <2>9, <2>10
<1> QED BY <1>1, <1>2, <1>3 DEF OutputInv

\* A frame that is out is counted.
LEMMA FrameOutput ==
  ASSUME GatewayTypeOK, OrderInv, OutputInv, FrameSent
  PROVE  OutputInv'
<1>1. UNCHANGED <<created, output, framed, endQueued, ended, buffer, queue, delta, reader>>
      /\ sent' = [sent EXCEPT ![packet.stream] = @ + 1] /\ sender = "sending" /\ sender' = "get"
  BY DEF FrameSent
<1>2. Untouched' /\ DeltaHeld'
  <2>1. ASSUME NEW s \in Streams, s > created PROVE sent'[s] = sent[s]
    <3>1. packet.stream # s /\ sent \in Counter
      BY <2>1, StreamsAssumption DEF OrderInv, NothingBeyond, Streams, GatewayTypeOK
    <3> QED BY <1>1, <3>1 DEF Counter
  <2> QED BY <1>1, <2>1 DEF OutputInv, Untouched, DeltaHeld
<1>3. ASSUME output' # None PROVE Accounted(output)' /\ Finished(output)'
  <2>1. /\ output # None /\ output \in Streams /\ Accounted(output) /\ Finished(output)
        /\ sent \in Counter /\ sent[output] \in Nat /\ framed[output] \in Nat
    BY <1>1, <1>3 DEF OutputInv, GatewayTypeOK, Counter
  <2>2. Taken(output)' = Taken(output)
    BY <1>1, <2>1 DEF Taken, Handled, Counter
  <2>3. EndTaken(output)' => EndTaken(output) /\ sent'[output] = sent[output]
    BY <1>1, <2>1 DEF EndTaken, Finished, Accounted, Taken, Handled, Counter
  <2> QED BY <1>1, <2>1, <2>2, <2>3 DEF Accounted, Finished
<1> QED BY <1>1, <1>2, <1>3 DEF OutputInv

\* An end marker that is out has been taken.
LEMMA EndOutput ==
  ASSUME GatewayTypeOK, OrderInv, OutputInv, EndSent
  PROVE  OutputInv'
<1>1. UNCHANGED <<created, output, framed, endQueued, sent, buffer, queue, delta, reader>>
      /\ ended' = [ended EXCEPT ![packet.stream] = TRUE] /\ sender = "ending" /\ sender' = "get"
  BY DEF EndSent
<1>2. Untouched' /\ DeltaHeld'
  BY <1>1, StreamsAssumption
     DEF OutputInv, Untouched, DeltaHeld, OrderInv, NothingBeyond, Streams, GatewayTypeOK, Flag
<1>3. ASSUME output' # None PROVE Accounted(output)' /\ Finished(output)'
  <2>1. output # None /\ output \in Streams /\ Accounted(output) /\ Finished(output)
    BY <1>1, <1>3 DEF OutputInv, GatewayTypeOK
  <2>2. Taken(output)' = Taken(output)
    BY <1>1 DEF Taken, Handled
  <2>3. EndTaken(output)' => EndTaken(output)
    BY <1>1, <2>1 DEF EndTaken, GatewayTypeOK, Flag
  <2> QED BY <1>1, <2>1, <2>2, <2>3 DEF Accounted, Finished
<1> QED BY <1>1, <1>2, <1>3 DEF OutputInv

-----------------------------------------------------------------------------
(* The cloud reader.                                                       *)

\* What the reader queues is accounted for: every frame it adds to framed.
LEMMA GrowAccounted ==
  ASSUME GatewayTypeOK, output # None, Accounted(output),
         NEW added \in Seq(Packet), queue' = queue \o added,
         framed'[output] \in Nat, framed[output] <= framed'[output],
         \A d \in 1 .. framed'[output] : framed[output] < d
           => \E i \in DOMAIN added : added[i].stream = output /\ added[i].data = d,
         \A i \in DOMAIN added : added[i].data # EndMarker => framed[output] < added[i].data,
         UNCHANGED <<output, sender, packet, sent>>
  PROVE  Accounted(output)'
<1>1. output \in Streams /\ framed[output] \in Nat /\ sent[output] \in Nat
  BY DEF GatewayTypeOK, Counter
<1>2. Taken(output)' = Taken(output) /\ Taken(output) \in Nat
  BY <1>1 DEF Taken, Handled
<1>3. queue \in Seq(Packet)
  BY DEF GatewayTypeOK
<1>4. /\ \A i \in DOMAIN queue : i \in DOMAIN queue' /\ queue'[i] = queue[i]
      /\ \A i \in DOMAIN added :
           Len(queue) + i \in DOMAIN queue' /\ queue'[Len(queue) + i] = added[i]
      /\ \A i \in DOMAIN queue' : \/ i \in DOMAIN queue
                                  \/ i - Len(queue) \in DOMAIN added
                                     /\ queue'[i] = added[i - Len(queue)]
  BY <1>3
<1>5. ASSUME NEW d \in 1 .. framed'[output], Taken(output) < d
      PROVE  \E i \in DOMAIN queue' : queue'[i].stream = output /\ queue'[i].data = d
  <2>1. CASE framed[output] < d
    <3>1. PICK i \in DOMAIN added : added[i].stream = output /\ added[i].data = d
      BY <2>1
    <3> QED BY <1>4, <3>1
  <2>2. CASE d <= framed[output]
    <3>1. PICK i \in DOMAIN queue : queue[i].stream = output /\ queue[i].data = d
      BY <1>1, <1>5, <2>2 DEF Accounted
    <3> QED BY <1>4, <3>1
  <2> QED BY <1>1, <2>1, <2>2
<1>6. ASSUME NEW i \in DOMAIN queue', queue'[i].stream = output, queue'[i].data # EndMarker
      PROVE  Taken(output) < queue'[i].data
  <2>1. CASE i \in DOMAIN queue
    BY <1>4, <1>6, <2>1 DEF Accounted
  <2>2. CASE i - Len(queue) \in DOMAIN added /\ queue'[i] = added[i - Len(queue)]
    <3>1. added[i - Len(queue)] \in Packet
      BY <2>2
    <3>2. queue'[i].data \in Nat /\ framed[output] < queue'[i].data
      BY <1>6, <2>2, <3>1 DEF Packet
    <3> QED BY <1>1, <1>2, <3>2 DEF Accounted
  <2> QED BY <1>4, <2>1, <2>2
<1>7. Taken(output) <= framed'[output]
  BY <1>1, <1>2 DEF Accounted
<1> QED BY <1>2, <1>5, <1>6, <1>7 DEF Accounted

\* A delta that is not empty, of a stream whose end is not queued.
LEMMA QueueAudioOutput ==
  ASSUME GatewayTypeOK, OrderInv, OutputInv, output # None, ~endQueued[output],
         NEW f \in Nat, NEW r \in BOOLEAN, f > 0 \/ r, QueueAudio(f, r),
         UNCHANGED <<created, output, packet, sender, sent, ended, endQueued>>
  PROVE  OutputInv'
<1> DEFINE room == Minimum(f, GatewayQueue - Len(queue))
           added == [i \in 1 .. room |-> [stream |-> output, data |-> framed[output] + i]]
<1>1. room \in Nat
  BY QueueAssumption DEF GatewayTypeOK, Minimum
<1>2. /\ output \in Streams /\ output = created /\ framed \in Counter /\ framed[output] \in Nat
      /\ Accounted(output) /\ Finished(output)
  BY DEF GatewayTypeOK, Counter, OutputInv, OrderInv
<1>3. /\ queue' = queue \o added /\ framed' = [framed EXCEPT ![output] = framed[output] + room]
      /\ reader' = "idle" => room = f
      /\ reader' \in {"idle", "failing"}
      /\ r => buffer' = output
  <2>1. /\ queue' = queue \o added /\ framed' = [framed EXCEPT ![output] = framed[output] + room]
        /\ reader' = IF room < f THEN "failing" ELSE "idle"
        /\ r => buffer' = output
    BY <1>2 DEF QueueAudio
  <2>2. room <= f
    BY QueueAssumption DEF GatewayTypeOK, Minimum
  <2> HIDE DEF room, added
  <2> QED BY <1>1, <2>1, <2>2
<1> HIDE DEF room
<1>4. framed'[output] = framed[output] + room
  BY <1>2, <1>3 DEF Counter
<1>5. \A i \in 1 .. room : [stream |-> output, data |-> framed[output] + i] \in Packet
  BY <1>1, <1>2 DEF Packet
<1>6. /\ added \in Seq(Packet) /\ DOMAIN added = 1 .. room
      /\ \A i \in 1 .. room : added[i].stream = output /\ added[i].data = framed[output] + i
  <2>1. added \in [1 .. room -> Packet]
    BY <1>5
  <2>2. DOMAIN added = 1 .. room
    OBVIOUS
  <2>3. \A i \in 1 .. room : added[i].stream = output /\ added[i].data = framed[output] + i
    OBVIOUS
  <2> HIDE DEF added
  <2> QED BY <1>1, <2>1, <2>2, <2>3
<1> HIDE DEF added
<1>7. ASSUME NEW d \in 1 .. framed'[output], framed[output] < d
      PROVE  \E i \in DOMAIN added : added[i].stream = output /\ added[i].data = d
  <2>1. d - framed[output] \in 1 .. room
    BY <1>1, <1>2, <1>4, <1>7
  <2> QED BY <1>2, <1>6, <2>1
<1>8. \A i \in DOMAIN added : added[i].data # EndMarker => framed[output] < added[i].data
  BY <1>1, <1>2, <1>6
<1>9. framed'[output] \in Nat /\ framed[output] <= framed'[output]
  BY <1>1, <1>2, <1>4
<1>10. Accounted(output)'
  BY <1>2, <1>3, <1>6, <1>7, <1>8, <1>9, GrowAccounted
<1>11. Finished(output)'
  <2>1. ~EndTaken(output)'
    BY <1>2 DEF EndTaken, Finished
  <2>2. reader' = "idle" => buffer' # None \/ framed'[output] > 0
    BY <1>1, <1>2, <1>3, <1>4, StreamsAssumption DEF None, Streams
  <2> QED BY <1>3, <2>1, <2>2 DEF Finished
<1>12. Untouched'
  BY <1>2, <1>3, StreamsAssumption DEF OutputInv, Untouched, Streams, Counter
<1>13. DeltaHeld'
  BY <1>3 DEF DeltaHeld
<1> QED BY <1>10, <1>11, <1>12, <1>13 DEF OutputInv

LEMMA DeltaOutput ==
  ASSUME GatewayTypeOK, OrderInv, OutputInv,
         \/ StreamAnnounced
         \/ \E frames \in Nat, rest \in BOOLEAN : AppendDelta(frames, rest)
  PROVE  OutputInv'
<1>1. ASSUME NEW frames \in Nat, NEW rest \in BOOLEAN, AppendDelta(frames, rest)
      PROVE  OutputInv'
  <2>1. output # None /\ ~endQueued[output] /\ (frames > 0 \/ rest)
    BY <1>1 DEF AppendDelta, CloudDelta, Streaming, OrderInv, InOrder, EndIsFinal
  <2> QED BY <1>1, <2>1, QueueAudioOutput DEF AppendDelta
<1>2. CASE StreamAnnounced /\ output = None
  BY <1>2 DEF StreamAnnounced, OutputInv, Untouched, DeltaHeld
<1>3. CASE StreamAnnounced /\ output # None
  <2>1. ~endQueued[output]
    BY <1>3 DEF StreamAnnounced, OrderInv, InOrder, EndIsFinal
  <2>2. delta.frames \in Nat /\ delta.rest \in BOOLEAN /\ (delta.frames > 0 \/ delta.rest)
    BY <1>3 DEF StreamAnnounced, OutputInv, DeltaHeld, GatewayTypeOK, Delta
  <2> QED BY <1>3, <2>1, <2>2, QueueAudioOutput DEF StreamAnnounced
<1> QED BY <1>1, <1>2, <1>3

\* The end of the audio: the end marker is queued behind all of it, the padded
\* frame included, and the buffer is empty.
LEMMA FinishOutput ==
  ASSUME GatewayTypeOK, OrderInv, OutputInv, FinishAudioFrame,
         UNCHANGED <<created, output, packet, sender, sent, ended>>,
         reader = "idle", reader' \in {"idle", "failing"}
  PROVE  OutputInv'
<1>1. DeltaHeld'
  BY DEF DeltaHeld
<1>2. CASE output = None \/ endQueued[output]
  <2>1. UNCHANGED <<queue, framed, buffer, endQueued>>
    BY <1>2 DEF FinishAudioFrame
  <2>2. Untouched'
    BY <2>1 DEF OutputInv, Untouched
  <2>3. ASSUME output # None PROVE Accounted(output)' /\ Finished(output)'
    BY <2>1, <2>3 DEF OutputInv, Accounted, Finished, Taken, Handled, EndTaken
  <2> QED BY <1>1, <2>2, <2>3 DEF OutputInv
<1>3. CASE ~(output = None \/ endQueued[output])
  <2> DEFINE f    == framed[output]
             last == IF buffer = None THEN <<>> ELSE <<[stream |-> output, data |-> f + 1]>>
             room == GatewayQueue - Len(queue)
             all  == last \o <<[stream |-> output, data |-> EndMarker]>>
             n    == Minimum(room, Len(all))
             added == SubSeq(all, 1, n)
  <2>1. /\ output \in Streams /\ output = created /\ f \in Nat
        /\ framed \in Counter /\ endQueued \in Flag
        /\ Accounted(output) /\ Finished(output)
    BY <1>3 DEF GatewayTypeOK, Counter, OutputInv, OrderInv
  <2>2. room \in Nat
    BY QueueAssumption DEF GatewayTypeOK
  <2>3. last \in Seq(Packet) /\ Len(last) \in {0, 1}
    <3>1. [stream |-> output, data |-> f + 1] \in Packet
      BY <2>1 DEF Packet
    <3>2. <<[stream |-> output, data |-> f + 1]>> \in Seq(Packet)
      BY <3>1
    <3> QED BY <3>2
  <2>4. /\ \A i \in 1 .. Len(last) : last[i].stream = output /\ last[i].data = f + 1
        /\ Len(last) = 0 <=> buffer = None
    OBVIOUS
  <2>5. /\ all \in Seq(Packet) /\ Len(all) = Len(last) + 1
        /\ \A i \in 1 .. Len(all) :
             all[i] = IF i <= Len(last) THEN last[i] ELSE [stream |-> output, data |-> EndMarker]
    <3>1. <<[stream |-> output, data |-> EndMarker]>> \in Seq(Packet)
      BY <2>1 DEF Packet, EndMarker
    <3> HIDE DEF last
    <3> QED BY <2>3, <3>1
  <2>6. /\ queue' = queue \o added
        /\ framed' = [framed EXCEPT ![output] = f + Minimum(room, Len(last))]
        /\ buffer' = IF room < Len(last) THEN buffer ELSE None
        /\ endQueued' = [endQueued EXCEPT ![output] = room >= Len(last)]
    BY <1>3 DEF FinishAudioFrame
  <2> HIDE DEF last, room, f, all
  <2>7. n \in 0 .. Len(all) /\ Minimum(room, Len(last)) \in 0 .. Len(last)
        /\ Minimum(room, Len(last)) <= n
        /\ (room >= Len(last) => Minimum(room, Len(last)) = Len(last))
    BY <2>2, <2>3, <2>5 DEF Minimum
  <2>8. /\ added \in Seq(Packet) /\ DOMAIN added = 1 .. n
        /\ \A i \in 1 .. n : added[i] = all[i]
    <3> HIDE DEF n
    <3> QED BY <2>5, <2>7
  <2> HIDE DEF n, added
  <2>9. /\ framed'[output] = f + Minimum(room, Len(last))
        /\ endQueued'[output] => room >= Len(last)
    BY <2>1, <2>6 DEF Counter, Flag
  <2>10. framed'[output] \in Nat /\ f <= framed'[output]
    BY <2>1, <2>3, <2>7, <2>9
  <2>11. ASSUME NEW d \in 1 .. framed'[output], f < d
         PROVE  \E i \in DOMAIN added : added[i].stream = output /\ added[i].data = d
    <3>1. Len(last) = 1 /\ n >= 1 /\ d = f + 1
      BY <2>1, <2>3, <2>5, <2>7, <2>9, <2>11
    <3>2. 1 \in DOMAIN added /\ added[1] = last[1]
      BY <2>5, <2>7, <2>8, <3>1
    <3> QED BY <2>4, <3>1, <3>2
  <2>12. ASSUME NEW i \in DOMAIN added, added[i].data # EndMarker
         PROVE  f < added[i].data
    <3>1. i \in 1 .. Len(all) /\ added[i] = all[i]
      BY <2>5, <2>7, <2>8
    <3>2. i \in 1 .. Len(last) /\ added[i] = last[i]
      BY <2>3, <2>5, <2>12, <3>1
    <3> QED BY <2>1, <2>4, <3>2
  <2>13. Accounted(output)'
    BY <1>3, <2>1, <2>6, <2>8, <2>10, <2>11, <2>12, GrowAccounted DEF f
  <2>14. Finished(output)'
    <3>1. ~EndTaken(output)'
      BY <1>3, <2>1 DEF EndTaken, Finished
    <3>2. buffer # None \/ f > 0
      BY <2>1 DEF Finished, f
    <3>3. endQueued'[output] => buffer' = None /\ framed'[output] > 0
      BY <2>1, <2>2, <2>3, <2>4, <2>6, <2>7, <2>9, <3>2
    <3>4. buffer' # None \/ framed'[output] > 0
      BY <2>1, <2>2, <2>3, <2>4, <2>6, <2>7, <2>9, <3>2
    <3> QED BY <3>1, <3>3, <3>4 DEF Finished
  <2>15. Untouched'
    BY <2>1, <2>6, StreamsAssumption DEF OutputInv, Untouched, Streams, Counter
  <2> QED BY <1>1, <2>13, <2>14, <2>15 DEF OutputInv
<1> QED BY <1>2, <1>3

-----------------------------------------------------------------------------

LEMMA OutputInit == GatewayInit => OutputInv
  BY DEF GatewayInit, OutputInv, Untouched, DeltaHeld

LEMMA OutputStep ==
  ASSUME GatewayTypeOK, OrderInv, OutputInv, [GatewayNext]_<<gatewayVars, toDevice>>
  PROVE  OutputInv'
<1>1. CASE Reader
  <2>1. ASSUME NEW frames \in 0 .. MaxDelta, NEW rest \in Remainders,
               StartStream(frames, rest) \/ AppendDelta(frames, rest)
        PROVE  OutputInv'
    <3>1. frames \in Nat /\ rest \in BOOLEAN
      BY BoundsAssumption
    <3> QED BY <2>1, <3>1, StartOutput, DeltaOutput
  <2>2. CASE OutputAudioDone
    BY <2>2, FinishOutput DEF OutputAudioDone
  <2>3. CASE ResponseDone
    BY <2>3, FinishOutput DEF ResponseDone
  <2> QED
    BY <1>1, <2>1, <2>2, <2>3, DeltaOutput, InterruptedOutput, KeepOutputSteps DEF Reader
<1>2. CASE Sender
  BY <1>2, TakeOutput, FrameOutput, EndOutput, KeepOutputSteps DEF Sender
<1> QED
  BY <1>1, <1>2, KeepOutputSteps DEF GatewayNext, GatewayStep, DeviceReports

\* A partial frame is only ever completed with audio of the stream it came from,
\* whichever of barge-in, completion and watchdog took the stream away before
\* _finish_audio_frame could.
THEOREM FramesNeverMixed == GatewaySpec => []NoMixedFrame
<1>1. GatewayInit => NoMixedFrame
  BY DEF GatewayInit, NoMixedFrame
<1>2. GatewayTypeOK /\ NoMixedFrame /\ [GatewayNext]_<<gatewayVars, toDevice>> => NoMixedFrame'
  BY MixedStep
<1> QED
  BY <1>1, <1>2, GatewayTypeCorrect, PTL DEF GatewaySpec

\* SPEAKING means that a stream is being played and LISTENING that none is, while
\* the cloud reader, device progress and the watchdog each may end a stream in the
\* middle of what another was doing.
THEOREM StateAlwaysMatches == GatewaySpec => []StateMatchesOutput
<1>1. GatewayInit => StateMatchesOutput
  BY DEF GatewayInit, StateMatchesOutput
<1>2. GatewayTypeOK /\ StateMatchesOutput /\ [GatewayNext]_<<gatewayVars, toDevice>>
        => StateMatchesOutput'
  BY StateStep
<1> QED
  BY <1>1, <1>2, GatewayTypeCorrect, PTL DEF GatewaySpec

\* Once playback.end of the current stream is out, every frame cut from its audio
\* has been sent, the padded last one included: none is lost to a full queue, to
\* pacing or to another stream's packets before it.
THEOREM EndedAlwaysSent == GatewaySpec => []EndedMeansAllSent
<1>1. GatewayInit => GatewayTypeOK /\ OrderInv /\ OutputInv
  BY GatewayInitType, OrderInit, OutputInit
<1>2. GatewayTypeOK /\ OrderInv /\ OutputInv /\ [GatewayNext]_<<gatewayVars, toDevice>>
        => (GatewayTypeOK /\ OrderInv /\ OutputInv)'
  BY GatewayTypeStep, OrderStep, OutputStep
<1>3. GatewayTypeOK /\ OutputInv => EndedMeansAllSent
  BY DEF OutputInv, Finished, EndTaken, EndedMeansAllSent
<1> QED
  BY <1>1, <1>2, <1>3, PTL DEF GatewaySpec

-----------------------------------------------------------------------------
(* Barge-in.                                                               *)

\* The stream of a cancelled response is the one interrupt() is dropping.
CancelledIsLeaving ==
  output # None => \/ response[output] \notin cancelled
                   \/ reader \in {"flushing", "truncating"} /\ output = interrupted

LEMMA LeavingStep ==
  ASSUME GatewayTypeOK, CancelledIsLeaving, [GatewayNext]_<<gatewayVars, toDevice>>
  PROVE  CancelledIsLeaving'
<1>1. CASE Reader
  <2>1. ASSUME NEW frames \in 0 .. MaxDelta, NEW rest \in Remainders, StartStream(frames, rest)
        PROVE  CancelledIsLeaving'
    <3>1. response \in Counter /\ created' \in Streams
      BY <2>1, StreamsAssumption DEF StartStream, GatewayTypeOK, Streams
    <3> QED BY <2>1, <3>1 DEF StartStream, CloudDelta, CancelledIsLeaving, Counter
  <2>2. ASSUME NEW frames \in 0 .. MaxDelta, NEW rest \in Remainders, AppendDelta(frames, rest)
        PROVE  CancelledIsLeaving'
    BY <2>2 DEF AppendDelta, CloudDelta, CancelledIsLeaving
  <2>3. CASE OutputAudioDone \/ ResponseDone \/ StreamAnnounced
    BY <2>3 DEF OutputAudioDone, ResponseDone, StreamAnnounced, CancelledIsLeaving
  <2>4. CASE StartSent \/ TransportError \/ SpeechStarted \/ Truncate \/ Interrupted
             \/ SpeechStopped \/ CloudError
    BY <2>4 DEF StartSent, TransportError, SpeechStarted, Truncate, Interrupted,
                SpeechStopped, CloudError, streamVars, CancelledIsLeaving
  <2> QED BY <1>1, <2>1, <2>2, <2>3, <2>4 DEF Reader
<1>2. CASE Sender
  BY <1>2 DEF Sender, TakePacket, EndSent, SendFrame, CapacityAwaited, FrameSent, streamVars,
              CancelledIsLeaving
<1>3. CASE Watchdog
  BY <1>3 DEF Watchdog, WatchdogFlush, WatchdogComplete, CompletePlayback, streamVars,
              CancelledIsLeaving
<1>4. CASE DeviceReads \/ MuteReported \/ UNCHANGED <<gatewayVars, toDevice>>
  BY <1>4 DEF DeviceReads, MuteReported, taskVars, gatewayVars, streamVars, CancelledIsLeaving
<1>5. ASSUME NEW s \in Streams, NEW n \in 0 .. MaxFrames, PlaybackProgress(s, n)
      PROVE  CancelledIsLeaving'
  BY <1>5 DEF PlaybackProgress, CompletePlayback, taskVars, CancelledIsLeaving
<1> QED
  BY <1>1, <1>2, <1>3, <1>4, <1>5 DEF GatewayNext, GatewayStep, DeviceReports

\* Only SendFrame puts a frame on the wire, and it is of the current stream.
LEMMA FramesAreCurrent ==
  ASSUME GatewayTypeOK, [GatewayNext]_<<gatewayVars, toDevice>>, NEW s \in Streams,
         toDevice' = Append(toDevice, [kind |-> "frame", stream |-> s, n |-> packet.data])
  PROVE  output # None /\ s = output
<1> DEFINE frame == [kind |-> "frame", stream |-> s, n |-> packet.data]
<1>1. toDevice \in Seq(Message)
  BY DEF GatewayTypeOK
<1>2. toDevice' # toDevice /\ (toDevice # <<>> => toDevice' # Tail(toDevice))
  <2>1. frame \in Message
    BY DEF GatewayTypeOK, Packet, NoPacket, EndMarker, Message
  <2>2. Len(toDevice') = Len(toDevice) + 1
    BY <1>1, <2>1
  <2>3. toDevice # <<>> => Len(Tail(toDevice)) = Len(toDevice) - 1
    BY <1>1
  <2> QED BY <1>1, <2>2, <2>3
<1>3. ASSUME NEW kind, NEW t, NEW n, Send(kind, t, n)
      PROVE  kind = "frame" /\ t = s
  <2>1. [kind |-> kind, stream |-> t, n |-> n] = frame
    BY <1>1, <1>3 DEF Send
  <2> QED BY <2>1
<1>4. SendFrame
  <2>1. CASE Reader
    BY <1>2, <1>3, <2>1
       DEF Reader, StartStream, AppendDelta, StartSent, StreamAnnounced, TransportError,
           OutputAudioDone, ResponseDone, SpeechStarted, Truncate, Interrupted, SpeechStopped,
           CloudError
  <2>2. CASE Sender
    BY <1>2, <1>3, <2>2 DEF Sender, TakePacket, EndSent, CapacityAwaited, FrameSent
  <2>3. CASE Watchdog
    BY <1>2, <1>3, <2>3 DEF Watchdog, WatchdogFlush, WatchdogComplete
  <2>4. CASE DeviceReads \/ DeviceReports \/ MuteReported \/ UNCHANGED <<gatewayVars, toDevice>>
    BY <1>2, <2>4 DEF DeviceReads, DeviceReports, PlaybackProgress, MuteReported
  <2> QED BY <2>1, <2>2, <2>3, <2>4 DEF GatewayNext, GatewayStep
<1> QED
  BY <1>2, <1>3, <1>4 DEF SendFrame, IsCurrent

\* After a barge-in nothing of the cancelled response is sent, and while interrupt()
\* waits for its own sends only frames of the stream it is dropping are, wherever the
\* sender was suspended when the user spoke.
THEOREM CancelledAlwaysSilent == GatewaySpec => CancelledIsSilent
<1>1. GatewayInit => CancelledIsLeaving
  BY DEF GatewayInit, CancelledIsLeaving
<1>2. GatewayTypeOK /\ CancelledIsLeaving /\ [GatewayNext]_<<gatewayVars, toDevice>>
        => CancelledIsLeaving'
  BY LeavingStep
<1>3. GatewayTypeOK /\ CancelledIsLeaving /\ [GatewayNext]_<<gatewayVars, toDevice>>
        => [\A s \in Streams :
              toDevice' = Append(toDevice, [kind |-> "frame", stream |-> s, n |-> packet.data])
                => \/ response[s] \notin cancelled
                   \/ reader \in {"flushing", "truncating"} /\ s = interrupted
           ]_<<gatewayVars, toDevice>>
  BY FramesAreCurrent DEF CancelledIsLeaving
<1> QED
  BY <1>1, <1>2, <1>3, GatewayTypeCorrect, PTL DEF GatewaySpec, CancelledIsSilent

=============================================================================
