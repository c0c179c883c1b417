------------------------- MODULE PlaybackSystemProof -------------------------
(***************************************************************************)
(* HeardInOrder and NoOverrun hold of PlaybackSystem, gateway and firmware *)
(* together, for every bound.                                              *)
(*                                                                         *)
(* The invariants of the gateway hold whatever the device does, so they    *)
(* hold here; from them follows that a frame that has left the gateway     *)
(* stays behind whatever it sends later.  The device only ever thins out   *)
(* what it holds, and adds what comes off the wire at its end.             *)
(*                                                                         *)
(* NoOverrun rests on what a count of played frames can be: of a stream    *)
(* that has started the device holds older frames in the speaker and in    *)
(* the loop's hands at most, and only those are counted besides the        *)
(* stream's own.  A count stays so bounded on its way to the gateway,      *)
(* because frames only ever move up and those of older streams no longer   *)
(* arrive; the gateway sends the lead beyond the count it knows; and a     *)
(* stream's frames are numbered apart by their places, so a frame beyond   *)
(* the bound would carry a number not sent yet.                            *)
(***************************************************************************)
EXTENDS PlaybackSystem, PlaybackOutputProof, WellFoundedInduction

\* A frame, or none yet, as the DAC puts it out.
Heard == [stream : Streams \cup {None}, n : Nat]

\* What the gateway sends from now on comes after frame f.
Behind(f) ==
  /\ f.stream <= created
  /\ output # None /\ f.stream = output =>
       /\ f.n <= framed[output]
       /\ Holds(output) => f.n < packet.data
       /\ \A j \in DOMAIN queue : queue[j].stream = output /\ queue[j].data # EndMarker
            => f.n < queue[j].data

HeldInv ==
  /\ Ascending(Pipeline)
  /\ \A i \in DOMAIN Pipeline, k \in FramesOnWire : Earlier(Pipeline[i], toDevice[k])
  /\ \A i \in DOMAIN Pipeline : Behind(Pipeline[i])

SystemInv == TypeOK /\ OrderInv /\ HeldInv

-----------------------------------------------------------------------------
(* Types, and what the gateway keeps with any device.                      *)

\* What adding to and taking from a bounded queue of frames leaves.
LEMMA AppendFits ==
  ASSUME NEW q \in Seq(Frame), NEW x \in Frame, NEW n \in Nat, Len(q) < n
  PROVE  Append(q, x) \in Seq(Frame) /\ Len(Append(q, x)) <= n
  OBVIOUS

LEMMA JoinFits ==
  ASSUME NEW p \in Seq(Frame), NEW q \in Seq(Frame), NEW n \in Nat, Len(p) <= 1, Len(q) < n
  PROVE  /\ p \o q \in Seq(Frame) /\ Len(p \o q) <= n
         /\ q \o p \in Seq(Frame) /\ Len(q \o p) <= n
<1>1. Len(p) \in Nat /\ Len(q) \in Nat
  OBVIOUS
<1>2. p \o q \in Seq(Frame) /\ Len(p \o q) = Len(p) + Len(q)
  OBVIOUS
<1>3. q \o p \in Seq(Frame) /\ Len(q \o p) = Len(q) + Len(p)
  OBVIOUS
<1> QED BY <1>1, <1>2, <1>3

LEMMA TailFits ==
  ASSUME NEW q \in Seq(Frame), q # <<>>, NEW n \in Nat, Len(q) <= n
  PROVE  Head(q) \in Frame /\ Tail(q) \in Seq(Frame) /\ Len(Tail(q)) <= n
  OBVIOUS

LEMMA WebSocketType ==
  ASSUME TypeOK, WebSocketTask
  PROVE  DeviceTypeOK'
<1> USE DEF DeviceTypeOK
<1> DeviceTypeOK
  BY DEF TypeOK
<1>1. ASSUME NEW kind, Receive(kind)
      PROVE  Head(toDevice).stream \in Streams /\ Head(toDevice).n \in Nat
  <2>1. toDevice \in Seq(Message) /\ toDevice # <<>>
    BY <1>1 DEF TypeOK, GatewayTypeOK, Receive
  <2>2. Head(toDevice) \in Message
    BY <2>1
  <2> QED BY <2>2 DEF Message
<1>2. /\ <<>> \in Seq(Frame) /\ <<>> \in Seq(Report) /\ Len(<<>>) = 0
      /\ DeviceQueue \in Nat
  BY DeviceAssumption
<1>3. CASE ReceiveFrame
  <2> DEFINE f == [stream |-> Head(toDevice).stream, n |-> Head(toDevice).n]
  <2>1. f \in Frame
    BY <1>1, <1>3 DEF ReceiveFrame, Frame
  <2>2. UNCHANGED frames \/ (Len(frames) < DeviceQueue /\ frames' = Append(frames, f))
    BY <1>3 DEF ReceiveFrame
  <2>3. frames' \in Seq(Frame) /\ Len(frames') <= DeviceQueue
    <3>1. frames \in Seq(Frame) /\ Len(frames) <= DeviceQueue
      OBVIOUS
    <3> HIDE DEF f, DeviceTypeOK
    <3> QED BY <1>2, <2>1, <2>2, <3>1, AppendFits
  <2>4. dropped' \in Nat
    BY <1>3 DEF ReceiveFrame
  <2> QED
    BY <1>3, <2>3, <2>4 DEF ReceiveFrame, streamIdVars, countVars, speakerVars
<1>4. CASE ReceiveStart
  BY <1>1, <1>2, <1>4 DEF ReceiveStart, countVars, speakerVars
<1>5. CASE StartPlayback
  BY <1>5 DEF StartPlayback, streamIdVars, speakerVars
<1>6. CASE ReceiveEnd
  BY <1>1, <1>6 DEF ReceiveEnd, speakerVars
<1>7. CASE ReceiveFlush
  <2>1. {stopping', active', prebuffering', endReceived'} \subseteq BOOLEAN
    BY <1>7, Zenon DEF ReceiveFlush, StopPlayback
  <2>2. /\ frames' = <<>> /\ progress' = <<>> /\ playedFrames' = 0 /\ webSocket' = "flushing"
        /\ UNCHANGED <<streamId, expected, hand, speaker, heard, mutes, dropped, stale, toGateway>>
    BY <1>7 DEF ReceiveFlush, StopPlayback, streamIdVars
  <2> QED BY <1>2, <2>1, <2>2
<1>8. CASE FlushPlayback
  BY <1>8 DEF FlushPlayback, ForgetStream, countVars, speakerVars
<1> QED BY <1>3, <1>4, <1>5, <1>6, <1>7, <1>8 DEF WebSocketTask

LEMMA LoopType ==
  ASSUME DeviceTypeOK, MainLoop \/ Mute \/ DacOutput \/ SpeakerStopped \/ SendProgress
  PROVE  DeviceTypeOK'
<1> USE DEF DeviceTypeOK
<1>1. CASE PrebufferReady
  BY <1>1 DEF PrebufferReady, streamIdVars, speakerVars
<1>2. CASE TakeFrame
  <2>1. /\ <<Head(frames)>> \in Seq(Frame) /\ Len(<<Head(frames)>>) <= 1
        /\ Tail(frames) \in Seq(Frame) /\ Len(Tail(frames)) <= DeviceQueue
    BY <1>2, TailFits, DeviceAssumption DEF TakeFrame
  <2> QED BY <1>2, <2>1 DEF TakeFrame, streamIdVars, countVars, speakerVars
<1>3. CASE PlayFrame
  <2>1. hand \in Seq(Frame) /\ Len(hand) <= 1 /\ hand' \in Seq(Frame) /\ Len(hand') <= 1
    BY <1>3 DEF PlayFrame
  <2>2. speaker' \in Seq(Frame) /\ Len(speaker') <= SpeakerBuffer
    <3>1. UNCHANGED speaker \/ (Len(speaker) < SpeakerBuffer /\ speaker' = speaker \o hand)
      BY <1>3 DEF PlayFrame
    <3>2. speaker \in Seq(Frame) /\ Len(speaker) <= SpeakerBuffer /\ SpeakerBuffer \in Nat
      BY DeviceAssumption
    <3>3. hand \in Seq(Frame) /\ Len(hand) <= 1
      OBVIOUS
    <3> HIDE DEF DeviceTypeOK
    <3> QED BY <3>1, <3>2, <3>3, JoinFits
  <2>3. frames' \in Seq(Frame) /\ Len(frames') <= DeviceQueue
    <3>1. UNCHANGED frames \/ (Len(frames) < DeviceQueue /\ frames' = hand \o frames)
      BY <1>3 DEF PlayFrame
    <3>2. frames \in Seq(Frame) /\ Len(frames) <= DeviceQueue /\ DeviceQueue \in Nat
      BY DeviceAssumption
    <3>3. hand \in Seq(Frame) /\ Len(hand) <= 1
      OBVIOUS
    <3> HIDE DEF DeviceTypeOK
    <3> QED BY <3>1, <3>2, <3>3, JoinFits
  <2>4. dropped' \in Nat
    BY <1>3 DEF PlayFrame
  <2> QED BY <1>3, <2>1, <2>2, <2>3, <2>4 DEF PlayFrame, streamIdVars, countVars
<1>4. CASE ReportProgress
  <2> DEFINE report == [stream |-> streamId, played |-> playedFrames]
  <2>1. report \in Report
    BY <1>4 DEF ReportProgress, Report
  <2>2. progress' = <<report>>
    BY <1>4 DEF ReportProgress, SendPlaybackProgress
  <2>3. progress' \in Seq(Report) /\ Len(progress') <= 1
    <3> HIDE DEF report
    <3> QED BY <2>1, <2>2
  <2>4. streamId' \in Streams \cup {None} /\ expected' \in Nat /\ active' \in BOOLEAN
    <3>1. streamId' \in {streamId, None} /\ expected' \in {expected, 0} /\ active' \in {active, FALSE}
      BY <1>4, Zenon DEF ReportProgress, ForgetStream, streamIdVars
    <3>2. active' \in BOOLEAN
      BY <3>1, Zenon
    <3> QED BY <3>1, <3>2
  <2> QED BY <1>4, <2>3, <2>4 DEF ReportProgress, speakerVars
<1>5. CASE Mute
  <2>1. <<>> \in Seq(Frame) /\ <<>> \in Seq(Report) /\ Len(<<>>) = 0 /\ DeviceQueue \in Nat
    BY DeviceAssumption
  <2>2. mutes' \in 0 .. MaxMutes
    BY <1>5, DeviceAssumption DEF Mute
  <2>3. {stopping', active', prebuffering', endReceived'} \subseteq BOOLEAN
    BY <1>5, Zenon DEF Mute, StopPlayback
  <2>4. /\ frames' = <<>> /\ progress' = <<>> /\ playedFrames' = 0 /\ streamId' = None /\ expected' = 0
        /\ UNCHANGED <<hand, speaker, heard, webSocket, dropped, stale, toGateway>>
    BY <1>5 DEF Mute, StopPlayback, ForgetStream
  <2> QED BY <2>1, <2>2, <2>3, <2>4
<1>6. CASE DacOutput
  <2>1. Head(speaker) \in Frame /\ Tail(speaker) \in Seq(Frame) /\ Len(Tail(speaker)) <= SpeakerBuffer
    BY <1>6, TailFits, DeviceAssumption DEF DacOutput
  <2>2. Head(speaker) \in [stream : Streams \cup {None}, n : Nat]
    BY <2>1 DEF Frame
  <2>3. playedFrames' \in Nat /\ stopping' \in BOOLEAN
    BY <1>6 DEF DacOutput
  <2> QED BY <1>6, <2>1, <2>2, <2>3 DEF DacOutput, streamIdVars
<1>7. CASE SpeakerStopped
  <2>1. <<>> \in Seq(Frame) /\ Len(<<>>) = 0 /\ SpeakerBuffer \in Nat
    BY DeviceAssumption
  <2>2. stopping' \in BOOLEAN /\ speaker' = <<>>
    BY <1>7, Zenon DEF SpeakerStopped
  <2>3. UNCHANGED <<frames, streamId, expected, playedFrames, active, prebuffering, endReceived,
                    progress, hand, heard, webSocket, mutes, dropped, stale, toGateway>>
    BY <1>7 DEF SpeakerStopped, streamIdVars, countVars
  <2> QED BY <2>1, <2>2, <2>3
<1>8. CASE SendProgress
  <2>1. <<>> \in Seq(Report) /\ Len(<<>>) = 0
    OBVIOUS
  <2> QED BY <1>8, <2>1 DEF SendProgress, streamIdVars, countVars, speakerVars
<1> QED BY <1>1, <1>2, <1>3, <1>4, <1>5, <1>6, <1>7, <1>8 DEF MainLoop

\* To the gateway the device takes a message off the wire or does nothing.
LEMMA DeviceReadsOnly ==
  ASSUME DeviceStep, UNCHANGED gatewayVars
  PROVE  DeviceReads \/ UNCHANGED <<gatewayVars, toDevice>>
  BY DEF DeviceStep, WebSocketTask, ReceiveFrame, ReceiveStart, StartPlayback, ReceiveEnd,
         ReceiveFlush, FlushPlayback, Receive, MainLoop, PrebufferReady, TakeFrame, PlayFrame,
         ReportProgress, Mute, DacOutput, SpeakerStopped, SendProgress, DeviceReads

LEMMA SystemStep ==
  ASSUME TypeOK, OrderInv, [Next]_vars
  PROVE  (TypeOK /\ OrderInv)'
<1>1. CASE GatewayStep /\ UNCHANGED deviceVars
  <2>1. GatewayTypeOK' /\ OrderInv'
    BY <1>1, GatewayTypeStep, OrderStep DEF TypeOK, GatewayNext
  <2> QED
    BY <1>1, <2>1 DEF TypeOK, DeviceTypeOK, deviceVars, streamIdVars, countVars, speakerVars
<1>2. CASE DeviceStep /\ UNCHANGED gatewayVars
  <2>1. GatewayTypeOK' /\ OrderInv'
    BY <1>2, DeviceReadsOnly, GatewayTypeStep, OrderStep DEF TypeOK, GatewayNext
  <2> QED BY <1>2, <2>1, WebSocketType, LoopType DEF TypeOK, DeviceStep
<1>3. CASE ReceiveProgress
  <2>1. Head(toGateway) \in Report /\ Tail(toGateway) \in Seq(Report)
    BY <1>3 DEF ReceiveProgress, TypeOK, DeviceTypeOK
  <2>2. Head(toGateway).stream \in Streams /\ Head(toGateway).played \in Nat
    BY <2>1 DEF Report
  <2>3. GatewayTypeOK' /\ OrderInv'
    BY <1>3, <2>2, PlaybackProgressType, QuietSteps DEF ReceiveProgress, TypeOK
  <2> QED
    BY <1>3, <2>1, <2>3 DEF TypeOK, DeviceTypeOK, ReceiveProgress, streamIdVars, countVars, speakerVars
<1>4. CASE UNCHANGED vars
  <2>1. GatewayTypeOK' /\ OrderInv'
    BY <1>4, GatewayTypeStep, OrderStep DEF TypeOK, vars
  <2> QED
    BY <1>4, <2>1 DEF TypeOK, DeviceTypeOK, vars, deviceVars, streamIdVars, countVars, speakerVars
<1> QED BY <1>1, <1>2, <1>3, <1>4 DEF Next

-----------------------------------------------------------------------------
(* What has left the gateway stays behind what it sends.                   *)

LEMMA BehindQuiet ==
  ASSUME NEW f \in Heard, Behind(f),
         UNCHANGED <<created, framed, queue>>,
         output' \in {output, None},
         sender' \in {"pacing", "waiting"} => sender \in {"pacing", "waiting"} /\ packet' = packet
  PROVE  Behind(f)'
  BY DEF Behind, Holds

\* Audio is queued behind what was framed.
LEMMA BehindQueued ==
  ASSUME GatewayTypeOK, NEW f \in Heard, Behind(f), output # None,
         UNCHANGED <<created, output, sender, packet>>,
         framed'[output] \in Nat, framed[output] <= framed'[output],
         \A j \in DOMAIN queue' :
           \/ j \in DOMAIN queue /\ queue'[j] = queue[j]
           \/ queue'[j].data = EndMarker
           \/ queue'[j].data \in Nat /\ framed[output] < queue'[j].data
  PROVE  Behind(f)'
<1>1. f.n \in Nat /\ framed[output] \in Nat
  BY DEF GatewayTypeOK, Counter, Heard
<1>2. ASSUME f.stream = output PROVE f.n <= framed'[output]
  BY <1>1, <1>2 DEF Behind
<1>3. ASSUME f.stream = output, NEW j \in DOMAIN queue', queue'[j].stream = output,
             queue'[j].data # EndMarker
      PROVE  f.n < queue'[j].data
  BY <1>1, <1>3 DEF Behind
<1> QED BY <1>2, <1>3 DEF Behind, Holds

LEMMA BehindAudio ==
  ASSUME GatewayTypeOK, NEW f \in Heard, Behind(f), output # None,
         NEW n \in Nat, NEW r, QueueAudio(n, r), UNCHANGED <<created, output, sender, packet>>
  PROVE  Behind(f)'
<1> DEFINE room == Minimum(n, GatewayQueue - Len(queue))
           added == [i \in 1 .. room |-> [stream |-> output, data |-> framed[output] + i]]
<1>1. room \in Nat /\ queue \in Seq(Packet) /\ framed[output] \in Nat /\ output \in Streams
  BY QueueAssumption DEF GatewayTypeOK, Minimum, Counter
<1>2. queue' = queue \o added /\ framed' = [framed EXCEPT ![output] = framed[output] + room]
  BY <1>1 DEF QueueAudio
<1> HIDE DEF room
<1>3. added \in Seq(Packet) /\ DOMAIN added = 1 .. room
      /\ \A i \in 1 .. room : added[i].data = framed[output] + i
  <2>1. \A i \in 1 .. room : [stream |-> output, data |-> framed[output] + i] \in Packet
    BY <1>1 DEF Packet
  <2>2. added \in [1 .. room -> Packet]
    BY <2>1
  <2>3. DOMAIN added = 1 .. room
    OBVIOUS
  <2>4. \A i \in 1 .. room : added[i].data = framed[output] + i
    OBVIOUS
  <2> HIDE DEF added
  <2> QED BY <1>1, <2>2, <2>3, <2>4
<1> HIDE DEF added
<1>4. framed'[output] = framed[output] + room
  BY <1>1, <1>2 DEF GatewayTypeOK, Counter
<1>5. ASSUME NEW j \in DOMAIN queue'
      PROVE  \/ j \in DOMAIN queue /\ queue'[j] = queue[j]
             \/ queue'[j].data \in Nat /\ framed[output] < queue'[j].data
  <2>1. \/ j \in DOMAIN queue /\ queue'[j] = queue[j]
        \/ j - Len(queue) \in DOMAIN added /\ queue'[j] = added[j - Len(queue)]
    BY <1>1, <1>2, <1>3
  <2> QED BY <1>1, <1>3, <2>1
<1> QED BY <1>1, <1>4, <1>5, BehindQueued

LEMMA BehindFinish ==
  ASSUME GatewayTypeOK, NEW f \in Heard, Behind(f), FinishAudioFrame,
         UNCHANGED <<created, output, sender, packet>>
  PROVE  Behind(f)'
<1>1. CASE output = None \/ endQueued[output]
  BY <1>1, BehindQuiet DEF FinishAudioFrame
<1>2. CASE ~(output = None \/ endQueued[output])
  <2> DEFINE end  == [stream |-> output, data |-> EndMarker]
             pad  == [stream |-> output, data |-> framed[output] + 1]
             last == IF buffer = None THEN <<>> ELSE <<pad>>
             room == GatewayQueue - Len(queue)
             all  == last \o <<end>>
             n    == Minimum(room, Len(all))
             more == Minimum(room, Len(last))
  <2>1. output \in Streams /\ framed \in Counter /\ framed[output] \in Nat
    BY <1>2 DEF GatewayTypeOK, Counter
  <2>2. queue \in Seq(Packet) /\ room \in Nat
    BY QueueAssumption DEF GatewayTypeOK
  <2>3. end \in Packet /\ pad \in Packet
    BY <2>1 DEF Packet, EndMarker
  <2>4. end.data = EndMarker /\ pad.data = framed[output] + 1
    OBVIOUS
  <2>5. /\ framed' = [framed EXCEPT ![output] = framed[output] + more]
        /\ queue' = queue \o SubSeq(all, 1, n)
    BY <1>2 DEF FinishAudioFrame
  <2> HIDE DEF end, pad, room
  <2>6. last \in Seq(Packet) /\ Len(last) \in Nat /\ \A i \in 1 .. Len(last) : last[i] = pad
    BY <2>3
  <2> HIDE DEF last
  <2>7. /\ all \in Seq(Packet) /\ Len(all) \in Nat
        /\ \A i \in 1 .. Len(all) : all[i] \in {end, pad}
    <3>1. <<end>> \in Seq(Packet) /\ Len(<<end>>) = 1 /\ <<end>>[1] = end
      BY <2>3
    <3>2. Len(all) = Len(last) + 1
          /\ \A i \in 1 .. Len(all) : all[i] = IF i <= Len(last) THEN last[i] ELSE end
      BY <2>6, <3>1
    <3> QED BY <2>6, <3>1, <3>2
  <2> HIDE DEF all
  <2>8. n \in Nat /\ n <= Len(all) /\ more \in Nat
    BY <2>2, <2>6, <2>7 DEF Minimum
  <2> HIDE DEF n, more
  <2>9. framed'[output] \in Nat /\ framed[output] <= framed'[output]
    <3>1. framed'[output] = framed[output] + more
      BY <2>1, <2>5 DEF Counter
    <3> QED BY <2>1, <2>8, <3>1
  <2>10. ASSUME NEW j \in DOMAIN queue'
         PROVE  (j \in DOMAIN queue /\ queue'[j] = queue[j]) \/ queue'[j] \in {end, pad}
    <3> DEFINE added == SubSeq(all, 1, n)
    <3>1. /\ added \in Seq(Packet) /\ DOMAIN added = 1 .. n
          /\ \A i \in 1 .. n : added[i] = all[i]
      BY <2>7, <2>8
    <3>2. queue' = queue \o added
      BY <2>5
    <3> HIDE DEF added
    <3>3. \/ j \in DOMAIN queue /\ queue'[j] = queue[j]
          \/ j - Len(queue) \in 1 .. n /\ queue'[j] = added[j - Len(queue)]
      BY <2>2, <2>8, <3>1, <3>2
    <3> QED BY <2>7, <2>8, <3>1, <3>3
  <2>11. ASSUME NEW j \in DOMAIN queue'
         PROVE  \/ j \in DOMAIN queue /\ queue'[j] = queue[j]
                \/ queue'[j].data = EndMarker
                \/ queue'[j].data \in Nat /\ framed[output] < queue'[j].data
    <3>1. CASE queue'[j] = end
      BY <2>4, <3>1
    <3>2. CASE queue'[j] = pad
      <4>1. queue'[j].data = framed[output] + 1
        BY <2>4, <3>2
      <4> QED BY <2>1, <4>1
    <3> QED BY <2>10, <3>1, <3>2
  <2> QED BY <1>2, <2>9, <2>11, BehindQueued
<1> QED BY <1>1, <1>2

LEMMA BehindTake ==
  ASSUME GatewayTypeOK, NEW f \in Heard, Behind(f), TakePacket
  PROVE  Behind(f)'
<1>1. /\ queue \in Seq(Packet) /\ queue # <<>> /\ queue' = Tail(queue)
      /\ UNCHANGED <<created, output, framed>>
  BY DEF GatewayTypeOK, TakePacket, streamVars
<1>2. 1 \in DOMAIN queue /\ Head(queue) = queue[1]
      /\ \A j \in DOMAIN queue' : j + 1 \in DOMAIN queue /\ queue'[j] = queue[j + 1]
  BY <1>1
<1>3. sender' \in {"pacing", "waiting"} => packet' = Head(queue) /\ Head(queue).data # EndMarker
  BY DEF TakePacket
<1> QED BY <1>1, <1>2, <1>3 DEF Behind, Holds

LEMMA BehindStep ==
  ASSUME GatewayTypeOK, NEW f \in Heard, Behind(f),
         \/ GatewayStep \/ UNCHANGED gatewayVars
         \/ \E s \in Streams, n \in Nat : PlaybackProgress(s, n)
  PROVE  Behind(f)'
<1>1. ASSUME NEW n \in 0 .. MaxDelta, NEW r \in Remainders, StartStream(n, r)
      PROVE  Behind(f)'
  <2>1. f.stream \in Nat /\ created \in Nat
    BY StreamsAssumption DEF Heard, Streams, None, GatewayTypeOK
  <2> QED BY <1>1, <2>1 DEF StartStream, Behind
<1>2. ASSUME NEW n \in 0 .. MaxDelta, NEW r \in Remainders, AppendDelta(n, r)
      PROVE  Behind(f)'
  BY <1>2, BehindAudio, BoundsAssumption DEF AppendDelta, Streaming
<1>3. CASE StreamAnnounced
  <2>1. CASE output = None
    BY <1>3, <2>1, BehindQuiet DEF StreamAnnounced
  <2>2. CASE output # None
    <3>1. delta.frames \in Nat
      BY DEF GatewayTypeOK, Delta
    <3> QED BY <1>3, <2>2, <3>1, BehindAudio DEF StreamAnnounced
  <2> QED BY <2>1, <2>2
<1>4. CASE OutputAudioDone \/ ResponseDone
  BY <1>4, BehindFinish DEF OutputAudioDone, ResponseDone
<1>5. CASE StartSent \/ TransportError \/ SpeechStarted \/ Truncate \/ SpeechStopped \/ CloudError
  BY <1>5, BehindQuiet DEF StartSent, TransportError, SpeechStarted, Truncate, SpeechStopped,
                           CloudError, streamVars, taskVars
<1>6. CASE Interrupted
  BY <1>6 DEF Interrupted, Behind
<1>7. CASE Sender
  <2>1. CASE TakePacket
    BY <2>1, BehindTake
  <2> QED
    BY <1>7, <2>1, BehindQuiet DEF Sender, EndSent, SendFrame, CapacityAwaited, FrameSent, streamVars
<1>8. CASE Watchdog
  BY <1>8, BehindQuiet DEF Watchdog, WatchdogFlush, WatchdogComplete, CompletePlayback, streamVars
<1>9. CASE UNCHANGED gatewayVars
  BY <1>9, BehindQuiet DEF gatewayVars, streamVars, taskVars
<1>10. ASSUME NEW s \in Streams, NEW n \in Nat, PlaybackProgress(s, n)
       PROVE  Behind(f)'
  BY <1>10, BehindQuiet DEF PlaybackProgress, CompletePlayback, taskVars
<1> QED
  BY <1>1, <1>2, <1>3, <1>4, <1>5, <1>6, <1>7, <1>8, <1>9, <1>10 DEF GatewayStep, Reader

-----------------------------------------------------------------------------
(* The wire.                                                               *)

\* What is on the wire has left the gateway.
LEMMA WireBehind ==
  ASSUME GatewayTypeOK, OrderInv, NEW k \in FramesOnWire
  PROVE  Behind(toDevice[k])
<1> DEFINE m == toDevice[k]
<1>1. k \in DOMAIN toDevice /\ m.kind = "frame" /\ m.stream <= created
  BY DEF FramesOnWire, OrderInv, NothingBeyond
<1>2. ASSUME output # None, m.stream = output
      PROVE  /\ m.n <= framed[output]
             /\ Holds(output) => m.n < packet.data
             /\ \A j \in DOMAIN queue : queue[j].stream = output /\ queue[j].data # EndMarker
                  => m.n < queue[j].data
  <2>1. WireOrdered(output) /\ HeldOrdered(output) /\ Audio(m, output) /\ Datum(m) = m.n
    BY <1>1, <1>2 DEF OrderInv, InOrder, Audio, Datum
  <2>2. m.n <= framed[output]
    BY <1>1, <2>1 DEF WireOrdered, Queued
  <2>3. ASSUME Holds(output) PROVE m.n < packet.data
    BY <1>1, <2>1, <2>3 DEF WireOrdered, HeldOrdered, Before
  <2>4. ASSUME NEW j \in DOMAIN queue, queue[j].stream = output, queue[j].data # EndMarker
        PROVE  m.n < queue[j].data
    BY <1>1, <2>1, <2>4 DEF WireOrdered, Before
  <2> QED BY <2>2, <2>3, <2>4
<1> HIDE DEF m
<1> QED BY <1>1, <1>2 DEF m, Behind

\* Frames on the wire are in order among themselves.
LEMMA WireFrames ==
  ASSUME OrderInv, NEW k \in FramesOnWire, NEW l \in FramesOnWire, k < l
  PROVE  Earlier(toDevice[k], toDevice[l])
  BY DEF OrderInv, WireInOrder, MayFollow, FramesOnWire, Earlier

\* What the gateway puts on the wire comes after whatever it has sent before.
LEMMA SentBehind ==
  ASSUME GatewayTypeOK, OrderInv, NEW f \in Heard, Behind(f), GatewayStep,
         NEW k \in FramesOnWire'
  PROVE  \/ k \in FramesOnWire /\ toDevice'[k] = toDevice[k]
         \/ Earlier(f, toDevice'[k])
<1>1. toDevice \in Seq(Message)
  BY DEF GatewayTypeOK
<1>2. ASSUME NEW kind, kind # "frame", NEW s, NEW n, Send(kind, s, n)
      PROVE  k \in FramesOnWire /\ toDevice'[k] = toDevice[k]
  <2> DEFINE m == [kind |-> kind, stream |-> s, n |-> n]
  <2>1. toDevice' = Append(toDevice, m) /\ m.kind # "frame"
    BY <1>2 DEF Send
  <2> HIDE DEF m
  <2> QED BY <1>1, <2>1 DEF FramesOnWire
<1>3. ASSUME toDevice' = toDevice
      PROVE  k \in FramesOnWire /\ toDevice'[k] = toDevice[k]
  BY <1>3 DEF FramesOnWire
<1>4. CASE Reader
  <2>1. \/ toDevice' = toDevice
        \/ \E kind, s, n : kind # "frame" /\ Send(kind, s, n)
    BY <1>4 DEF Reader, StartStream, AppendDelta, StartSent, StreamAnnounced, TransportError,
                OutputAudioDone, ResponseDone, SpeechStarted, Truncate, Interrupted,
                SpeechStopped, CloudError
  <2> QED BY <1>2, <1>3, <2>1
<1>5. CASE Watchdog
  <2>1. \/ toDevice' = toDevice
        \/ \E kind, s, n : kind # "frame" /\ Send(kind, s, n)
    BY <1>5 DEF Watchdog, WatchdogFlush, WatchdogComplete
  <2> QED BY <1>2, <1>3, <2>1
<1>6. CASE Sender
  <2>1. CASE SendFrame
    <3>1. CASE toDevice' = toDevice
      BY <1>3, <3>1
    <3>2. CASE toDevice' # toDevice
      <4> DEFINE m == [kind |-> "frame", stream |-> packet.stream, n |-> packet.data]
      <4>1. /\ toDevice' = Append(toDevice, m)
            /\ output # None /\ packet.stream = output /\ sender = "pacing"
        BY <2>1, <3>2 DEF SendFrame, Send, IsCurrent
      <4>2. f.stream <= created /\ (f.stream = output => f.n < packet.data)
        BY <4>1 DEF Behind, Holds
      <4>3. m.stream = output /\ m.n = packet.data
        BY <4>1
      <4> HIDE DEF m
      <4>4. CASE k \in DOMAIN toDevice
        BY <1>1, <4>1, <4>4 DEF FramesOnWire
      <4>5. CASE k \notin DOMAIN toDevice
        <5>1. toDevice'[k] = m
          BY <1>1, <4>1, <4>5 DEF FramesOnWire
        <5>2. f.stream \in Nat /\ output = created /\ created \in Nat
          BY <4>1, StreamsAssumption DEF Heard, Streams, None, GatewayTypeOK, OrderInv
        <5> QED BY <4>2, <4>3, <5>1, <5>2 DEF Earlier
      <4> QED BY <4>4, <4>5
    <3> QED BY <3>1, <3>2
  <2>2. CASE TakePacket \/ EndSent \/ CapacityAwaited \/ FrameSent
    <3>1. \/ toDevice' = toDevice
          \/ \E kind, s, n : kind # "frame" /\ Send(kind, s, n)
      BY <2>2 DEF TakePacket, EndSent, CapacityAwaited, FrameSent
    <3> QED BY <1>2, <1>3, <3>1
  <2> QED BY <1>6, <2>1, <2>2 DEF Sender
<1> QED BY <1>4, <1>5, <1>6 DEF GatewayStep

-----------------------------------------------------------------------------
(* What the device holds.                                                  *)

\* q is what is left of p when some of it is taken out.
Thinned(p, q) ==
  \E h \in [DOMAIN q -> DOMAIN p] :
    /\ \A i, j \in DOMAIN q : i < j => h[i] < h[j]
    /\ \A i \in DOMAIN q : q[i] = p[h[i]]

LEMMA FramesHeard == ASSUME NEW q \in Seq(Frame) PROVE q \in Seq(Heard)
<1>1. Frame \subseteq Heard
  BY DEF Frame, Heard
<1> QED BY <1>1

\* Two sequences put together, position by position.
LEMMA JoinAt ==
  ASSUME NEW p \in Seq(Heard), NEW q \in Seq(Heard)
  PROVE  /\ p \o q \in Seq(Heard) /\ Len(p \o q) = Len(p) + Len(q)
         /\ Len(p) \in Nat /\ Len(q) \in Nat
         /\ \A i \in 1 .. Len(p) : (p \o q)[i] = p[i]
         /\ \A i \in 1 .. Len(q) : (p \o q)[i + Len(p)] = q[i]
<1>1. Len(p) \in Nat /\ Len(q) \in Nat
  OBVIOUS
<1>2. p \o q \in Seq(Heard) /\ Len(p \o q) = Len(p) + Len(q)
  OBVIOUS
<1>3. \A i \in 1 .. Len(p) : (p \o q)[i] = p[i]
  OBVIOUS
<1>4. \A i \in 1 .. Len(q) : (p \o q)[i + Len(p)] = q[i]
  BY <1>1
<1> QED BY <1>1, <1>2, <1>3, <1>4

LEMMA JoinOne ==
  ASSUME NEW q \in Seq(Heard), NEW x \in Seq(Heard), Len(x) = 1
  PROVE  /\ Len(q \o x) = Len(q) + 1 /\ Len(x \o q) = Len(q) + 1
         /\ (q \o x)[Len(q) + 1] = x[1] /\ \A j \in 1 .. Len(q) : (q \o x)[j] = q[j]
         /\ (x \o q)[1] = x[1] /\ \A j \in 1 .. Len(q) : (x \o q)[j + 1] = q[j]
<1> DEFINE b == q \o x  f == x \o q
<1>1. Len(q) \in Nat /\ 1 \in 1 .. Len(x)
  OBVIOUS
<1>2. /\ Len(b) = Len(q) + Len(x)
      /\ \A j \in 1 .. Len(q) : b[j] = q[j]
      /\ \A j \in 1 .. Len(x) : b[j + Len(q)] = x[j]
  BY JoinAt
<1>3. /\ Len(f) = Len(x) + Len(q)
      /\ \A j \in 1 .. Len(x) : f[j] = x[j]
      /\ \A j \in 1 .. Len(q) : f[j + Len(x)] = q[j]
  BY JoinAt
<1> HIDE DEF b, f
<1>4. Len(b) = Len(q) + 1 /\ Len(f) = Len(q) + 1
  BY <1>1, <1>2, <1>3
<1>5. b[Len(q) + 1] = x[1]
  <2>1. b[1 + Len(q)] = x[1]
    BY <1>1, <1>2
  <2>2. 1 + Len(q) = Len(q) + 1
    BY <1>1
  <2> QED BY <2>1, <2>2
<1>6. f[1] = x[1] /\ \A j \in 1 .. Len(q) : f[j + 1] = q[j]
  BY <1>1, <1>3
<1> QED BY <1>2, <1>4, <1>5, <1>6 DEF b, f

\* The four parts of the pipeline, position by position.
LEMMA PipelineAt ==
  ASSUME NEW x \in Heard, NEW s \in Seq(Frame), NEW a \in Seq(Frame), NEW q \in Seq(Frame),
         NEW p, p = <<x>> \o s \o a \o q
  PROVE  /\ p \in Seq(Heard)
         /\ DOMAIN p = 1 .. 1 + Len(s) + Len(a) + Len(q)
         /\ Len(s) \in Nat /\ Len(a) \in Nat /\ Len(q) \in Nat
         /\ p[1] = x
         /\ \A i \in 2 .. 1 + Len(s) : p[i] = s[i - 1]
         /\ \A i \in 2 + Len(s) .. 1 + Len(s) + Len(a) : p[i] = a[i - 1 - Len(s)]
         /\ \A i \in 2 + Len(s) + Len(a) .. 1 + Len(s) + Len(a) + Len(q) :
              p[i] = q[i - 1 - Len(s) - Len(a)]
<1>1. s \in Seq(Heard) /\ a \in Seq(Heard) /\ q \in Seq(Heard)
  BY FramesHeard
<1>2. <<x>> \in Seq(Heard) /\ Len(<<x>>) = 1 /\ <<x>>[1] = x
  OBVIOUS
<1>3. Len(s) \in Nat /\ Len(a) \in Nat /\ Len(q) \in Nat
  OBVIOUS
<1> DEFINE b == <<x>> \o s
<1>4. /\ b \in Seq(Heard) /\ Len(b) = 1 + Len(s) /\ b[1] = x
      /\ \A i \in 1 .. Len(s) : b[i + 1] = s[i]
  BY <1>1, <1>2
<1> HIDE DEF b
<1> DEFINE c == b \o a
<1>5. /\ c \in Seq(Heard) /\ Len(c) = 1 + Len(s) + Len(a)
      /\ \A i \in 1 .. 1 + Len(s) : c[i] = b[i]
      /\ \A i \in 1 .. Len(a) : c[i + (1 + Len(s))] = a[i]
  <2>1. /\ c \in Seq(Heard) /\ Len(c) = Len(b) + Len(a)
        /\ \A i \in 1 .. Len(b) : c[i] = b[i]
        /\ \A i \in 1 .. Len(a) : c[i + Len(b)] = a[i]
    BY <1>1, <1>4, JoinAt
  <2> HIDE DEF c
  <2> QED BY <1>3, <1>4, <2>1
<1> HIDE DEF c
<1>6. /\ p \in Seq(Heard) /\ Len(p) = 1 + Len(s) + Len(a) + Len(q)
      /\ \A i \in 1 .. 1 + Len(s) + Len(a) : p[i] = c[i]
      /\ \A i \in 1 .. Len(q) : p[i + (1 + Len(s) + Len(a))] = q[i]
  <2>1. p = c \o q
    BY DEF b, c
  <2> QED BY <1>1, <1>5, <2>1, JoinAt
<1>7. p[1] = x /\ \A i \in 1 .. Len(s) : p[i + 1] = s[i]
  <2>1. \A i \in 1 .. 1 + Len(s) : p[i] = b[i]
    BY <1>3, <1>5, <1>6
  <2> QED BY <1>3, <1>4, <2>1
<1>8. \A i \in 1 .. Len(a) : p[i + 1 + Len(s)] = a[i]
  <2> TAKE i \in 1 .. Len(a)
  <2>1. p[i + 1 + Len(s)] = c[i + 1 + Len(s)]
    BY <1>3, <1>6
  <2>2. i + 1 + Len(s) = i + (1 + Len(s))
    BY <1>3
  <2> QED BY <1>5, <2>1, <2>2
<1>9. \A i \in 1 .. Len(q) : p[i + 1 + Len(s) + Len(a)] = q[i]
  <2> TAKE i \in 1 .. Len(q)
  <2>1. i + 1 + Len(s) + Len(a) = i + (1 + Len(s) + Len(a))
    BY <1>3
  <2> QED BY <1>6, <2>1
<1>10. ASSUME NEW i \in 2 .. 1 + Len(s) PROVE p[i] = s[i - 1]
  <2>1. i - 1 \in 1 .. Len(s) /\ (i - 1) + 1 = i
    BY <1>3
  <2>2. p[(i - 1) + 1] = s[i - 1]
    BY <1>7, <2>1
  <2> QED BY <2>1, <2>2
<1>11. ASSUME NEW i \in 2 + Len(s) .. 1 + Len(s) + Len(a) PROVE p[i] = a[i - 1 - Len(s)]
  <2> DEFINE j == i - 1 - Len(s)
  <2>1. j \in 1 .. Len(a) /\ j + 1 + Len(s) = i
    BY <1>3
  <2>2. p[j + 1 + Len(s)] = a[j]
    BY <1>8, <2>1
  <2> QED BY <2>1, <2>2
<1>12. ASSUME NEW i \in 2 + Len(s) + Len(a) .. 1 + Len(s) + Len(a) + Len(q)
       PROVE  p[i] = q[i - 1 - Len(s) - Len(a)]
  <2> DEFINE j == i - 1 - Len(s) - Len(a)
  <2>1. j \in 1 .. Len(q) /\ j + 1 + Len(s) + Len(a) = i
    BY <1>3
  <2>2. p[j + 1 + Len(s) + Len(a)] = q[j]
    BY <1>9, <2>1
  <2> QED BY <2>1, <2>2
<1>13. DOMAIN p = 1 .. 1 + Len(s) + Len(a) + Len(q)
  BY <1>6
<1> QED BY <1>3, <1>6, <1>7, <1>10, <1>11, <1>12, <1>13

\* Taking the end off.
LEMMA ThinnedPrefix ==
  ASSUME NEW p, NEW r, NEW n \in Nat, NEW m \in Nat,
         DOMAIN p = 1 .. n, DOMAIN r = 1 .. m, m <= n,
         \A i \in 1 .. m : r[i] = p[i]
  PROVE  Thinned(p, r)
<1> DEFINE h == [i \in DOMAIN r |-> i]
<1>1. h \in [DOMAIN r -> DOMAIN p]
  OBVIOUS
<1>2. \A i, j \in DOMAIN r : i < j => h[i] < h[j]
  OBVIOUS
<1>3. \A i \in DOMAIN r : r[i] = p[h[i]]
  OBVIOUS
<1> QED BY <1>1, <1>2, <1>3 DEF Thinned

LEMMA AppendLast ==
  ASSUME NEW x \in Heard, NEW s \in Seq(Heard), NEW a \in Seq(Heard), NEW q \in Seq(Heard),
         NEW f \in Heard
  PROVE  <<x>> \o s \o a \o Append(q, f) = Append(<<x>> \o s \o a \o q, f)
<1>1. ASSUME NEW c \in Seq(Heard)
      PROVE  c \o Append(q, f) = Append(c \o q, f)
  OBVIOUS
<1>2. <<x>> \o s \o a \in Seq(Heard)
  OBVIOUS
<1> QED BY <1>1, <1>2

\* HeldInv of the next state, when what the device holds then is r.
LEMMA HeldBy ==
  ASSUME NEW r, r = Pipeline',
         \A i, j \in DOMAIN r : i < j => Earlier(r[i], r[j]),
         \A i \in DOMAIN r, k \in FramesOnWire' : Earlier(r[i], toDevice'[k]),
         \A i \in DOMAIN r : \E g \in Heard : r[i] = g /\ Behind(g)'
  PROVE  HeldInv'
<1>1. \A i \in DOMAIN r : Behind(r[i])'
  OBVIOUS
<1>2. \A i \in DOMAIN Pipeline' : Behind(Pipeline[i])'
  BY <1>1
<1> QED BY <1>2 DEF HeldInv, Ascending, Earlier

\* A step by which the device holds no new frame and the wire none that does not
\* come after those.
LEMMA HeldKept ==
  ASSUME HeldInv, NEW p \in Seq(Heard), p = Pipeline, NEW r, r = Pipeline', Thinned(p, r),
         \A f \in Heard : Behind(f) => Behind(f)',
         \A i \in DOMAIN p, k \in FramesOnWire' :
           (\E l \in FramesOnWire : toDevice'[k] = toDevice[l]) \/ Earlier(p[i], toDevice'[k])
  PROVE  HeldInv'
<1>1. PICK h \in [DOMAIN r -> DOMAIN p] :
        /\ \A i, j \in DOMAIN r : i < j => h[i] < h[j]
        /\ \A i \in DOMAIN r : r[i] = p[h[i]]
  BY DEF Thinned
<1>2. Ascending(p)
  BY DEF HeldInv
<1>3. \A i \in DOMAIN r : h[i] \in DOMAIN p
  BY <1>1
<1>4. \A i, j \in DOMAIN r : i < j => Earlier(r[i], r[j])
  BY <1>1, <1>2, <1>3 DEF Ascending
<1>5. ASSUME NEW i \in DOMAIN r, NEW k \in FramesOnWire'
      PROVE  Earlier(r[i], toDevice'[k])
  BY <1>1, <1>3, <1>5 DEF HeldInv
<1>6. ASSUME NEW i \in DOMAIN r PROVE Behind(r[i])'
  <2>1. h[i] \in DOMAIN p /\ r[i] = p[h[i]] /\ p[h[i]] \in Heard
    BY <1>1, <1>3
  <2>2. Behind(p[h[i]])
    BY <2>1 DEF HeldInv
  <2> QED BY <2>1, <2>2
<1>7. \A i \in DOMAIN Pipeline' : Behind(r[i])'
  BY <1>6
<1>8. \A i \in DOMAIN Pipeline' : Behind(Pipeline[i])'
  BY <1>7
<1> QED BY <1>4, <1>5, <1>8 DEF HeldInv, Ascending, Earlier

LEMMA DeviceThins ==
  ASSUME DeviceTypeOK, DeviceTypeOK', DeviceStep, ReceiveFrame => UNCHANGED frames,
         NEW p, p = Pipeline, NEW r, r = Pipeline'
  PROVE  Thinned(p, r)
<1> DEFINE S == Len(speaker)   A == Len(hand)   Q == Len(frames)   N == 1 + S + A + Q
           T == Len(speaker')  B == Len(hand')  R == Len(frames')  M == 1 + T + B + R
<1>1. /\ DOMAIN p = 1 .. N /\ S \in Nat /\ A \in Nat /\ Q \in Nat
      /\ p[1] = heard
      /\ \A i \in 2 .. 1 + S : p[i] = speaker[i - 1]
      /\ \A i \in 2 + S .. 1 + S + A : p[i] = hand[i - 1 - S]
      /\ \A i \in 2 + S + A .. N : p[i] = frames[i - 1 - S - A]
  <2>1. heard \in Heard /\ {speaker, hand, frames} \subseteq Seq(Frame)
    BY DEF DeviceTypeOK, Heard
  <2>2. p = <<heard>> \o speaker \o hand \o frames
    BY DEF Pipeline
  <2> QED BY <2>1, <2>2, PipelineAt, SMTT(30)
<1>2. /\ DOMAIN r = 1 .. M /\ T \in Nat /\ B \in Nat /\ R \in Nat
      /\ r[1] = heard'
      /\ \A i \in 2 .. 1 + T : r[i] = speaker'[i - 1]
      /\ \A i \in 2 + T .. 1 + T + B : r[i] = hand'[i - 1 - T]
      /\ \A i \in 2 + T + B .. M : r[i] = frames'[i - 1 - T - B]
  <2>1. heard' \in Heard /\ {speaker', hand', frames'} \subseteq Seq(Frame)
    BY DEF DeviceTypeOK, Heard
  <2>2. r = <<heard'>> \o speaker' \o hand' \o frames'
    BY DEF Pipeline
  <2> QED BY <2>1, <2>2, PipelineAt, SMTT(30)
<1>3. speaker \in Seq(Frame) /\ hand \in Seq(Frame) /\ frames \in Seq(Frame) /\ A <= 1
  BY DEF DeviceTypeOK
<1>4. /\ N = 1 + S + A + Q /\ M = 1 + T + B + R /\ N \in Nat /\ M \in Nat
      /\ S \in Nat /\ A \in Nat /\ Q \in Nat /\ T \in Nat /\ B \in Nat /\ R \in Nat
  BY <1>1, <1>2
<1> HIDE DEF S, A, Q, N, T, B, R, M
<1>5. ASSUME NEW i \in 1 .. M
      PROVE  i = 1 \/ i \in 2 .. 1 + T \/ i \in 2 + T .. 1 + T + B \/ i \in 2 + T + B .. M
  BY <1>4
<1>6. ASSUME M <= N, \A i \in 1 .. M : r[i] = p[i] PROVE Thinned(p, r)
  BY <1>1, <1>2, <1>4, <1>6, ThinnedPrefix
<1>7. ASSUME NEW c \in Nat, NEW d \in Nat, N = M + d,
              \A i \in 1 .. M : r[i] = IF i <= c THEN p[i] ELSE p[i + d]
       PROVE  Thinned(p, r)
  <2> DEFINE h == [i \in 1 .. M |-> IF i <= c THEN i ELSE i + d]
  <2>1. h \in [1 .. M -> 1 .. N]
    BY <1>4, <1>7
  <2>2. \A i, j \in 1 .. M : i < j => h[i] < h[j]
    BY <1>4, <1>7
  <2>3. \A i \in 1 .. M : r[i] = p[h[i]]
    BY <1>7
  <2> HIDE DEF h
  <2>4. DOMAIN p = 1 .. N /\ DOMAIN r = 1 .. M
    BY <1>1, <1>2
  <2>5. h \in [DOMAIN r -> DOMAIN p]
    BY <2>1, <2>4
  <2>6. \A i, j \in DOMAIN r : i < j => h[i] < h[j]
    BY <2>2, <2>4
  <2>7. \A i \in DOMAIN r : r[i] = p[h[i]]
    BY <2>3, <2>4
  <2> QED BY <2>5, <2>6, <2>7 DEF Thinned
\* Nothing moves, or the queue is reset.
<1>8. CASE UNCHANGED <<heard, speaker, hand>> /\ frames' \in {frames, <<>>}
  <2>1. S = T /\ A = B
    BY <1>8 DEF S, A, T, B
  <2>2. (frames' = frames /\ R = Q) \/ R = 0
    BY <1>8 DEF Q, R
  <2>3. M <= N
    BY <1>4, <2>1, <2>2
  <2>4. ASSUME NEW i \in 1 .. M PROVE r[i] = p[i]
    <3>1. CASE i = 1
      BY <1>1, <1>2, <1>8, <3>1
    <3>2. CASE i \in 2 .. 1 + T
      BY <1>1, <1>2, <1>8, <2>1, <3>2
    <3>3. CASE i \in 2 + T .. 1 + T + B
      BY <1>1, <1>2, <1>8, <2>1, <3>3
    <3>4. CASE i \in 2 + T + B .. M
      <4>1. R # 0
        BY <1>4, <3>4
      <4>2. M = N
        BY <1>4, <2>1, <2>2, <4>1
      <4> QED BY <1>1, <1>2, <2>1, <2>2, <3>4, <4>1, <4>2
    <3> QED BY <1>5, <3>1, <3>2, <3>3, <3>4
  <2> QED BY <1>6, <2>3, <2>4
<1>9. CASE TakeFrame
  <2>1. heard' = heard /\ speaker' = speaker /\ S = T
    BY <1>9 DEF TakeFrame, speakerVars, S, T
  <2>2. A = 0 /\ B = 1 /\ Q = R + 1 /\ hand'[1] = frames[1]
    BY <1>3, <1>9 DEF TakeFrame, A, Q, B, R
  <2>3. \A j \in 1 .. R : frames'[j] = frames[j + 1]
    BY <1>3, <1>9 DEF TakeFrame, R
  <2>4. M = N
    BY <1>4, <2>1, <2>2
  <2>5. ASSUME NEW i \in 1 .. M PROVE r[i] = p[i]
    <3>1. CASE i = 1
      BY <1>1, <1>2, <2>1, <3>1
    <3>2. CASE i \in 2 .. 1 + T
      BY <1>1, <1>2, <2>1, <3>2
    <3>3. CASE i \in 2 + T .. 1 + T + B
      <4>1. i = 2 + S /\ i - 1 - T = 1 /\ i - 1 - S - A = 1 /\ i \in 2 + S + A .. N
        BY <1>4, <2>1, <2>2, <2>4, <3>3
      <4>2. r[i] = hand'[i - 1 - T]
        BY <1>2, <3>3
      <4>3. p[i] = frames[i - 1 - S - A]
        BY <1>1, <4>1
      <4> QED BY <2>2, <4>1, <4>2, <4>3
    <3>4. CASE i \in 2 + T + B .. M
      <4>1. /\ i \in 2 + S + A .. N /\ i - 1 - T - B \in 1 .. R
            /\ (i - 1 - T - B) + 1 = i - 1 - S - A
        BY <1>4, <2>1, <2>2, <2>4, <3>4
      <4>2. r[i] = frames'[i - 1 - T - B]
        BY <1>2, <3>4
      <4>3. p[i] = frames[i - 1 - S - A]
        BY <1>1, <4>1
      <4> QED BY <2>3, <4>1, <4>2, <4>3
    <3> QED BY <1>5, <3>1, <3>2, <3>3, <3>4
  <2> QED BY <1>4, <1>6, <2>4, <2>5
\* Into the speaker, back to the front of the queue, or nowhere.
<1>10. CASE PlayFrame
  <2>1. heard' = heard /\ A = 1 /\ B = 0
    <3>1. hand # <<>> /\ hand' = <<>> /\ heard' = heard
      BY <1>10 DEF PlayFrame
    <3>2. Len(hand) \in Nat /\ Len(hand) # 0
      BY <1>3, <3>1
    <3>3. A \in Nat /\ A # 0 /\ A <= 1
      BY <1>3, <3>2 DEF A
    <3>4. B = 0
      BY <3>1 DEF B
    <3> QED BY <3>1, <3>3, <3>4
  <2>2. CASE speaker' = speaker \o hand /\ UNCHANGED frames
    <3>1. T = S + 1 /\ speaker'[S + 1] = hand[1] /\ \A j \in 1 .. S : speaker'[j] = speaker[j]
      <4>1. Len(hand) = 1
        BY <2>1 DEF A
      <4> QED BY <1>3, <2>2, <4>1, FramesHeard, JoinOne DEF S, T
    <3>2. R = Q /\ M = N
      BY <1>4, <2>1, <2>2, <3>1 DEF Q, R
    <3>3. ASSUME NEW i \in 1 .. M PROVE r[i] = p[i]
      <4>1. CASE i = 1
        BY <1>1, <1>2, <2>1, <4>1
      <4>2. CASE i \in 2 .. 1 + S
        <5>1. i \in 2 .. 1 + T /\ i - 1 \in 1 .. S
          BY <1>4, <3>1, <4>2
        <5> QED BY <1>1, <1>2, <3>1, <4>2, <5>1
      <4>3. CASE i = 2 + S
        <5>1. i \in 2 .. 1 + T /\ i - 1 = S + 1
          BY <1>4, <3>1, <4>3
        <5>2. i \in 2 + S .. 1 + S + A /\ i - 1 - S = 1
          BY <1>4, <2>1, <4>3
        <5>3. r[i] = speaker'[i - 1]
          BY <1>2, <5>1
        <5>4. p[i] = hand[i - 1 - S]
          BY <1>1, <5>2
        <5> QED BY <3>1, <5>1, <5>2, <5>3, <5>4
      <4>4. CASE i \in 2 + T + B .. M
        <5>1. i \in 2 + S + A .. N /\ i - 1 - T - B = i - 1 - S - A
          BY <1>4, <2>1, <3>1, <3>2, <4>4
        <5>2. r[i] = frames'[i - 1 - T - B]
          BY <1>2, <4>4
        <5>3. p[i] = frames[i - 1 - S - A]
          BY <1>1, <5>1
        <5> QED BY <2>2, <5>1, <5>2, <5>3
      <4> QED BY <1>4, <2>1, <3>1, <4>1, <4>2, <4>3, <4>4
    <3> QED BY <1>4, <1>6, <3>2, <3>3
  <2>3. CASE frames' = hand \o frames /\ UNCHANGED speaker
    <3>1. R = Q + 1 /\ frames'[1] = hand[1] /\ \A j \in 1 .. Q : frames'[j + 1] = frames[j]
      <4>1. Len(hand) = 1
        BY <2>1 DEF A
      <4> QED BY <1>3, <2>3, <4>1, FramesHeard, JoinOne DEF Q, R
    <3>2. T = S /\ M = N
      BY <1>4, <2>1, <2>3, <3>1 DEF S, T
    <3>3. ASSUME NEW i \in 1 .. M PROVE r[i] = p[i]
      <4>1. CASE i = 1
        BY <1>1, <1>2, <2>1, <4>1
      <4>2. CASE i \in 2 .. 1 + T
        BY <1>1, <1>2, <2>3, <3>2, <4>2
      <4>3. CASE i = 2 + S
        <5>1. i \in 2 + T + B .. M /\ i - 1 - T - B = 1
          BY <1>4, <2>1, <3>1, <3>2, <4>3
        <5>2. i \in 2 + S .. 1 + S + A /\ i - 1 - S = 1
          BY <1>4, <2>1, <4>3
        <5>3. r[i] = frames'[i - 1 - T - B]
          BY <1>2, <5>1
        <5>4. p[i] = hand[i - 1 - S]
          BY <1>1, <5>2
        <5> QED BY <3>1, <5>1, <5>2, <5>3, <5>4
      <4>4. CASE i \in 2 + S + A .. N
        <5>1. /\ i \in 2 + T + B .. M /\ i - 1 - S - A \in 1 .. Q
              /\ i - 1 - T - B = (i - 1 - S - A) + 1
          BY <1>4, <2>1, <3>1, <3>2, <4>4
        <5>2. r[i] = frames'[i - 1 - T - B]
          BY <1>2, <5>1
        <5>3. p[i] = frames[i - 1 - S - A]
          BY <1>1, <4>4
        <5> QED BY <3>1, <5>1, <5>2, <5>3
      <4> QED BY <1>4, <2>1, <3>1, <3>2, <4>1, <4>2, <4>3, <4>4
    <3> QED BY <1>4, <1>6, <3>2, <3>3
  <2>4. CASE UNCHANGED <<speaker, frames>>
    <3>1. T = S /\ R = Q
      BY <2>4 DEF S, Q, T, R
    <3>2. N = M + 1 /\ 1 + S \in Nat
      BY <1>4, <2>1, <3>1
    <3>3. ASSUME NEW i \in 1 .. M PROVE r[i] = IF i <= 1 + S THEN p[i] ELSE p[i + 1]
      <4>1. CASE i = 1
        BY <1>1, <1>2, <1>4, <2>1, <4>1
      <4>2. CASE i \in 2 .. 1 + T
        BY <1>1, <1>2, <2>4, <3>1, <4>2
      <4>3. CASE i \in 2 + T + B .. M
        <5>1. /\ i + 1 \in 2 + S + A .. N /\ (i + 1) - 1 - S - A = i - 1 - T - B
              /\ ~(i <= 1 + S)
          BY <1>4, <2>1, <3>1, <3>2, <4>3
        <5>2. r[i] = frames'[i - 1 - T - B]
          BY <1>2, <4>3
        <5>3. p[i + 1] = frames[(i + 1) - 1 - S - A]
          BY <1>1, <5>1
        <5> QED BY <2>4, <5>1, <5>2, <5>3
      <4> QED BY <1>4, <2>1, <4>1, <4>2, <4>3
    <3> QED BY <1>7, <3>2, <3>3
  <2> QED BY <1>10, <2>2, <2>3, <2>4 DEF PlayFrame
<1>11. CASE DacOutput
  <2>1. hand' = hand /\ frames' = frames /\ A = B /\ Q = R
    BY <1>11 DEF DacOutput, A, Q, B, R
  <2>2. S = T + 1 /\ heard' = speaker[1] /\ \A j \in 1 .. T : speaker'[j] = speaker[j + 1]
    BY <1>3, <1>11 DEF DacOutput, S, T
  <2>3. N = M + 1 /\ \A i \in 1 .. M : ~(i <= 0)
    BY <1>4, <2>1, <2>2
  <2>4. ASSUME NEW i \in 1 .. M PROVE r[i] = p[i + 1]
    <3>1. CASE i = 1
      <4>1. 2 \in 2 .. 1 + S
        BY <1>4, <2>2
      <4>2. p[2] = speaker[2 - 1]
        BY <1>1, <4>1
      <4> QED BY <1>2, <2>2, <3>1, <4>2
    <3>2. CASE i \in 2 .. 1 + T
      <4>1. i + 1 \in 2 .. 1 + S /\ i - 1 \in 1 .. T /\ (i + 1) - 1 = (i - 1) + 1
        BY <1>4, <2>2, <3>2
      <4>2. p[i + 1] = speaker[(i + 1) - 1]
        BY <1>1, <4>1
      <4>3. r[i] = speaker'[i - 1]
        BY <1>2, <3>2
      <4> QED BY <2>2, <4>1, <4>2, <4>3
    <3>3. CASE i \in 2 + T .. 1 + T + B
      <4>1. i + 1 \in 2 + S .. 1 + S + A /\ (i + 1) - 1 - S = i - 1 - T
        BY <1>4, <2>1, <2>2, <3>3
      <4>2. p[i + 1] = hand[(i + 1) - 1 - S]
        BY <1>1, <4>1
      <4>3. r[i] = hand'[i - 1 - T]
        BY <1>2, <3>3
      <4> QED BY <2>1, <4>1, <4>2, <4>3
    <3>4. CASE i \in 2 + T + B .. M
      <4>1. i + 1 \in 2 + S + A .. N /\ (i + 1) - 1 - S - A = i - 1 - T - B
        BY <1>4, <2>1, <2>2, <3>4
      <4>2. p[i + 1] = frames[(i + 1) - 1 - S - A]
        BY <1>1, <4>1
      <4>3. r[i] = frames'[i - 1 - T - B]
        BY <1>2, <3>4
      <4> QED BY <2>1, <4>1, <4>2, <4>3
    <3> QED BY <1>5, <3>1, <3>2, <3>3, <3>4
  <2>5. \A i \in 1 .. M : r[i] = IF i <= 0 THEN p[i] ELSE p[i + 1]
    BY <2>3, <2>4
  <2> QED BY <1>7, <2>3, <2>5
<1>12. CASE SpeakerStopped
  <2>1. heard' = heard /\ hand' = hand /\ frames' = frames /\ T = 0 /\ A = B /\ Q = R
    BY <1>12 DEF SpeakerStopped, A, Q, T, B, R
  <2>2. N = M + S
    BY <1>4, <2>1
  <2>3. ASSUME NEW i \in 1 .. M PROVE r[i] = IF i <= 1 THEN p[i] ELSE p[i + S]
    <3>1. CASE i = 1
      BY <1>1, <1>2, <2>1, <3>1
    <3>2. CASE i \in 2 + T .. 1 + T + B
      <4>1. i + S \in 2 + S .. 1 + S + A /\ (i + S) - 1 - S = i - 1 - T /\ ~(i <= 1)
        BY <1>4, <2>1, <3>2
      <4>2. p[i + S] = hand[(i + S) - 1 - S]
        BY <1>1, <4>1
      <4>3. r[i] = hand'[i - 1 - T]
        BY <1>2, <3>2
      <4> QED BY <2>1, <4>1, <4>2, <4>3
    <3>3. CASE i \in 2 + T + B .. M
      <4>1. /\ i + S \in 2 + S + A .. N /\ (i + S) - 1 - S - A = i - 1 - T - B
            /\ ~(i <= 1)
        BY <1>4, <2>1, <3>3
      <4>2. p[i + S] = frames[(i + S) - 1 - S - A]
        BY <1>1, <4>1
      <4>3. r[i] = frames'[i - 1 - T - B]
        BY <1>2, <3>3
      <4> QED BY <2>1, <4>1, <4>2, <4>3
    <3> QED BY <1>4, <2>1, <3>1, <3>2, <3>3
  <2> QED BY <1>4, <1>7, <2>2, <2>3
<1> QED
  BY <1>8, <1>9, <1>10, <1>11, <1>12
     DEF DeviceStep, WebSocketTask, ReceiveFrame, ReceiveStart, StartPlayback, ReceiveEnd,
         ReceiveFlush, FlushPlayback, StopPlayback, MainLoop, PrebufferReady, ReportProgress,
         Mute, SendProgress, speakerVars


\* What the device does to what it holds.
LEMMA HeldDevice ==
  ASSUME TypeOK, TypeOK', OrderInv, HeldInv, DeviceStep, UNCHANGED gatewayVars
  PROVE  HeldInv'
<1> DEFINE p == Pipeline  r == Pipeline'
<1>1. DeviceTypeOK /\ DeviceTypeOK' /\ GatewayTypeOK
  BY DEF TypeOK
<1>2. p \in Seq(Heard)
  <2>1. heard \in Heard /\ {speaker, hand, frames} \subseteq Seq(Frame)
    BY <1>1 DEF DeviceTypeOK, Heard
  <2> QED BY <2>1, PipelineAt DEF Pipeline
<1>3. \A f \in Heard : Behind(f) => Behind(f)'
  BY <1>1, BehindStep
<1>4. toDevice \in Seq(Message)
  BY <1>1 DEF GatewayTypeOK
<1>5. \A k \in FramesOnWire' : \E l \in FramesOnWire : toDevice'[k] = toDevice[l]
  <2>1. CASE toDevice # <<>> /\ toDevice' = Tail(toDevice)
    <3> SUFFICES ASSUME NEW k \in FramesOnWire'
                 PROVE  k + 1 \in FramesOnWire /\ toDevice'[k] = toDevice[k + 1]
      OBVIOUS
    <3> QED BY <1>4, <2>1 DEF FramesOnWire
  <2>2. CASE toDevice' = toDevice
    BY <2>2 DEF FramesOnWire
  <2> QED BY <2>1, <2>2, DeviceReadsOnly DEF DeviceReads
<1>6. CASE ReceiveFrame => UNCHANGED frames
  <2>1. Thinned(p, r)
    BY <1>1, <1>6, DeviceThins
  <2> QED BY <1>2, <1>3, <1>5, <2>1, HeldKept
<1>7. CASE ReceiveFrame /\ ~UNCHANGED frames
  <2> DEFINE m == toDevice[1]
             f == [stream |-> m.stream, n |-> m.n]
  <2>1. /\ toDevice # <<>> /\ toDevice' = Tail(toDevice) /\ m.kind = "frame"
        /\ m = Head(toDevice)
    BY <1>4, <1>7 DEF ReceiveFrame, Receive
  <2>2. 1 \in FramesOnWire /\ m \in Message
    BY <1>4, <2>1 DEF FramesOnWire
  <2>3. f \in Frame /\ f \in Heard
    BY <2>2 DEF Message, Frame, Heard
  <2>4. Behind(f) /\ \A g \in Heard : Earlier(g, m) => Earlier(g, f)
    BY <1>1, <2>2, WireBehind DEF Behind, Earlier
  <2>5. r = Append(p, f)
    <3>1. frames' = Append(frames, f) /\ UNCHANGED <<heard, speaker, hand>>
      BY <1>7, <2>1 DEF ReceiveFrame, speakerVars
    <3> HIDE DEF f
    <3>2. /\ speaker \in Seq(Heard) /\ hand \in Seq(Heard) /\ frames \in Seq(Heard)
          /\ heard \in Heard
      BY <1>1, FramesHeard DEF DeviceTypeOK, Heard
    <3> QED BY <2>3, <3>1, <3>2, AppendLast DEF Pipeline
  <2> HIDE DEF f, m, p, r
  <2>6. \A i \in DOMAIN r : (i \in DOMAIN p /\ r[i] = p[i]) \/ (i \notin DOMAIN p /\ r[i] = f)
    BY <1>2, <2>3, <2>5
  <2>7. \A i \in DOMAIN p : Earlier(p[i], f) /\ Behind(p[i]) /\ p[i] \in Heard
    BY <1>2, <2>2, <2>4 DEF HeldInv, p, m
  <2>8. \A i, j \in DOMAIN r : i < j => Earlier(r[i], r[j])
    <3> SUFFICES ASSUME NEW i \in DOMAIN r, NEW j \in DOMAIN r, i < j
                 PROVE  Earlier(r[i], r[j])
      OBVIOUS
    <3>1. i \in DOMAIN p
      BY <1>2, <2>3, <2>5
    <3>2. \A k, l \in DOMAIN p : k < l => Earlier(p[k], p[l])
      BY DEF HeldInv, Ascending, p
    <3> QED BY <2>6, <2>7, <3>1, <3>2
  <2>9. ASSUME NEW k \in FramesOnWire'
        PROVE  Earlier(f, toDevice'[k]) /\ \A i \in DOMAIN p : Earlier(p[i], toDevice'[k])
    <3>1. k + 1 \in FramesOnWire /\ toDevice'[k] = toDevice[k + 1] /\ 1 < k + 1
      BY <1>4, <2>1 DEF FramesOnWire
    <3>2. Earlier(m, toDevice[k + 1])
      BY <2>2, <3>1, WireFrames DEF m
    <3> QED BY <3>1, <3>2 DEF HeldInv, Earlier, f, p
  <2>10. ASSUME NEW i \in DOMAIN r, NEW k \in FramesOnWire'
         PROVE  Earlier(r[i], toDevice'[k])
    BY <2>6, <2>9
  <2>11. ASSUME NEW i \in DOMAIN r PROVE \E g \in Heard : r[i] = g /\ Behind(g)
    BY <2>3, <2>4, <2>6, <2>7
  <2> QED BY <1>3, <2>8, <2>10, <2>11, HeldBy DEF r
<1> QED BY <1>6, <1>7


\* What the gateway does to the wire.
LEMMA HeldGateway ==
  ASSUME TypeOK, OrderInv, HeldInv, UNCHANGED <<heard, speaker, hand, frames>>,
         \/ GatewayStep
         \/ toDevice' = toDevice /\ UNCHANGED gatewayVars
         \/ toDevice' = toDevice /\ \E s \in Streams, n \in Nat : PlaybackProgress(s, n)
  PROVE  HeldInv'
<1> DEFINE p == Pipeline
<1>1. GatewayTypeOK /\ DeviceTypeOK /\ p = Pipeline'
  BY DEF TypeOK, Pipeline
<1>2. p \in Seq(Heard)
  <2>1. heard \in Heard /\ {speaker, hand, frames} \subseteq Seq(Frame)
    BY <1>1 DEF DeviceTypeOK, Heard
  <2> QED BY <2>1, PipelineAt DEF Pipeline
<1>3. \A f \in Heard : Behind(f) => Behind(f)'
  BY <1>1, BehindStep
<1>4. \A i \in DOMAIN p : p[i] \in Heard /\ Behind(p[i])
      /\ \A k \in FramesOnWire : Earlier(p[i], toDevice[k])
  BY <1>2 DEF HeldInv
<1>5. \A i, j \in DOMAIN p : i < j => Earlier(p[i], p[j])
  BY DEF HeldInv, Ascending
<1> HIDE DEF p
<1>6. ASSUME NEW i \in DOMAIN p, NEW k \in FramesOnWire'
      PROVE  Earlier(p[i], toDevice'[k])
  <2>1. CASE toDevice' = toDevice
    BY <1>4, <2>1 DEF FramesOnWire
  <2>2. CASE GatewayStep
    BY <1>1, <1>4, <2>2, SentBehind
  <2> QED BY <2>1, <2>2
<1> QED BY <1>1, <1>3, <1>4, <1>5, <1>6, HeldBy

LEMMA HeldStep ==
  ASSUME TypeOK, TypeOK', OrderInv, HeldInv, [Next]_vars
  PROVE  HeldInv'
<1>1. CASE GatewayStep /\ UNCHANGED deviceVars
  BY <1>1, HeldGateway DEF deviceVars, speakerVars
<1>2. CASE DeviceStep /\ UNCHANGED gatewayVars
  BY <1>2, HeldDevice
<1>3. CASE ReceiveProgress
  <2>1. Head(toGateway) \in Report
    BY <1>3 DEF ReceiveProgress, TypeOK, DeviceTypeOK
  <2>2. Head(toGateway).stream \in Streams /\ Head(toGateway).played \in Nat
    BY <2>1 DEF Report
  <2>3. toDevice' = toDevice /\ \E s \in Streams, n \in Nat : PlaybackProgress(s, n)
    BY <1>3, <2>2 DEF ReceiveProgress, PlaybackProgress
  <2>4. UNCHANGED <<heard, speaker, hand, frames>>
    BY <1>3 DEF ReceiveProgress, speakerVars
  <2> QED BY <2>3, <2>4, HeldGateway
<1>4. CASE UNCHANGED vars
  BY <1>4, HeldGateway DEF vars, deviceVars, speakerVars
<1> QED BY <1>1, <1>2, <1>3, <1>4 DEF Next

LEMMA SystemInit == Init => SystemInv
<1> SUFFICES ASSUME Init PROVE SystemInv
  OBVIOUS
<1>1. GatewayTypeOK /\ OrderInv
  BY GatewayInitType, OrderInit DEF Init
<1>2. DeviceTypeOK
  <2>1. <<>> \in Seq(Frame) /\ <<>> \in Seq(Report) /\ Len(<<>>) = 0
    OBVIOUS
  <2>2. 0 <= DeviceQueue /\ 0 <= SpeakerBuffer /\ 0 \in 0 .. MaxMutes
    BY DeviceAssumption
  <2>3. {active, prebuffering, endReceived, stopping, stale} \subseteq BOOLEAN
    BY Zenon DEF Init, DeviceInit
  <2>4. heard \in [stream : Streams \cup {None}, n : Nat]
    BY DEF Init, DeviceInit
  <2> QED BY <2>1, <2>2, <2>3, <2>4 DEF Init, DeviceInit, DeviceTypeOK
<1>3. HeldInv
  <2> DEFINE x == [stream |-> None, n |-> 0]
  <2>1. heard = x /\ speaker = <<>> /\ hand = <<>> /\ frames = <<>> /\ toDevice = <<>>
        /\ created = 0 /\ output = None
    BY DEF Init, DeviceInit, GatewayInit
  <2>2. Pipeline = <<x>>
    BY <2>1 DEF Pipeline
  <2>3. Behind(x)
    BY <2>1 DEF Behind, None
  <2> QED BY <2>1, <2>2, <2>3 DEF HeldInv, Ascending, FramesOnWire
<1> QED BY <1>1, <1>2, <1>3 DEF SystemInv, TypeOK

LEMMA SystemInvariant == Spec => []SystemInv
<1>1. Init => SystemInv
  BY SystemInit
<1>2. SystemInv /\ [Next]_vars => SystemInv'
  BY SystemStep, HeldStep DEF SystemInv
<1> QED BY <1>1, <1>2, PTL DEF Spec

\* Gateway and firmware keep their types, for every bound: among them the queue of the
\* device, which never holds more than its fixed size, and the one slot for progress.
THEOREM SystemTypeCorrect == Spec => []TypeOK
<1>1. SystemInv => TypeOK
  BY DEF SystemInv
<1> QED BY <1>1, SystemInvariant, PTL

\* What the loudspeaker puts out is in order and nothing twice, and so is everything
\* still on its way to it: however the frame in the loop's hands, the reset queues, the
\* speaker's own buffer and the wire interleave, and however many streams are flushed,
\* muted or superseded.
THEOREM HeardAlwaysInOrder == Spec => []HeardInOrder
<1>1. SystemInv => HeardInOrder
  <2> SUFFICES ASSUME SystemInv PROVE HeardInOrder
    OBVIOUS
  <2>1. \A k, l \in FramesOnWire : k < l => Earlier(toDevice[k], toDevice[l])
    BY WireFrames DEF SystemInv
  <2> QED BY <2>1 DEF SystemInv, HeldInv, HeardInOrder
<1> QED BY <1>1, SystemInvariant, PTL

-----------------------------------------------------------------------------
(* How far ahead of the DAC the gateway is.                                *)

\* A set of numbers has a least one.
LEMMA Least == ASSUME NEW T \in SUBSET Nat, T # {} PROVE \E n \in T : \A m \in T : n <= m
<1> DEFINE R == {ss \in Nat \X Nat : ss[1] < ss[2]}
<1>1. IsWellFoundedOn(R, Nat)
  BY NatLessThanWellFounded, Zenon DEF OpToRel
<1>2. \E x \in T : \A y \in T : ~(<<y, x>> \in R)
  <2> HIDE DEF R
  <2> QED BY <1>1, WFMin
<1>3. PICK x \in T : \A y \in T : ~(<<y, x>> \in R)
  BY <1>2
<1>4. \A y \in T : ~(y < x)
  BY <1>3
<1> QED BY <1>4

\* Frames of one stream are numbered apart by their places at least.
LEMMA Spacing ==
  ASSUME NEW p \in Seq(Heard), \A i, j \in DOMAIN p : i < j => Earlier(p[i], p[j]),
         NEW i \in DOMAIN p, NEW m \in DOMAIN p, i <= m, p[i].stream = p[m].stream
  PROVE  p[i].n + (m - i) <= p[m].n
<1> DEFINE T == {j \in i .. m : p[j].n < p[i].n + (j - i)}
<1>0. /\ DOMAIN p \subseteq Nat /\ i \in Nat /\ m \in Nat
      /\ \A j \in i .. m : j \in DOMAIN p
      /\ \A j \in DOMAIN p : p[j] \in Heard /\ p[j].n \in Nat /\ p[j].stream \in Nat
  <2>1. \A j \in DOMAIN p : p[j] \in Heard
    OBVIOUS
  <2>2. Streams \cup {None} \subseteq Nat
    BY StreamsAssumption DEF Streams, None
  <2> QED BY <2>1, <2>2 DEF Heard
<1>1. ASSUME T # {} PROVE FALSE
  <2>1. T \in SUBSET Nat
    BY <1>0
  <2>2. PICK j \in T : \A k \in T : j <= k
    BY <1>1, <2>1, Least
  <2> HIDE DEF T
  <2>3. j \in i .. m /\ p[j].n < p[i].n + (j - i)
    BY <2>2 DEF T
  <2>4. i < j
    BY <1>0, <2>3
  <2>5. j - 1 \in i .. m /\ j - 1 \notin T /\ j - 1 < j
    BY <1>0, <2>2, <2>3, <2>4
  <2>6. p[i].n + ((j - 1) - i) <= p[j - 1].n
    <3>1. ~(p[j - 1].n < p[i].n + ((j - 1) - i))
      BY <2>5 DEF T
    <3>2. j - 1 \in DOMAIN p /\ p[j - 1].n \in Nat /\ p[i].n \in Nat
      BY <1>0, <2>5
    <3> DEFINE a == p[i].n  b == p[j - 1].n
    <3>3. ~(b < a + ((j - 1) - i)) /\ a \in Nat /\ b \in Nat /\ i \in Nat /\ j \in Nat
      BY <1>0, <2>3, <3>1, <3>2
    <3> HIDE DEF a, b
    <3>4. a + ((j - 1) - i) <= b
      BY <3>3
    <3> QED BY <3>4 DEF a, b
  <2>7. Earlier(p[j - 1], p[j]) /\ (i = j - 1 \/ Earlier(p[i], p[j - 1]))
        /\ (j = m \/ Earlier(p[j], p[m]))
    BY <1>0, <2>3, <2>5, SMTT(30)
  <2>8. p[j - 1].n < p[j].n
    <3>1. /\ {p[i].stream, p[j - 1].stream, p[j].stream, p[m].stream} \subseteq Nat
      BY <1>0, <2>3, <2>5
    <3> QED BY <2>7, <3>1 DEF Earlier
  <2> QED
    <3> DEFINE a == p[i].n  b == p[j - 1].n  c == p[j].n
    <3>1. a \in Nat /\ b \in Nat /\ c \in Nat /\ i \in Nat /\ j \in Nat
      BY <1>0, <2>3, <2>5
    <3>2. a + ((j - 1) - i) <= b /\ b < c /\ c < a + (j - i)
      BY <2>3, <2>6, <2>8
    <3> HIDE DEF a, b, c
    <3> QED BY <3>1, <3>2
<1>2. m \notin T
  BY <1>1
<1> QED
  <2>1. ~(p[m].n < p[i].n + (m - i)) /\ p[m].n \in Nat /\ p[i].n \in Nat
    BY <1>0, <1>2
  <2> QED BY <1>0, <2>1

\* Whatever is left moves up.
Shrinks(p, r) == \A i \in DOMAIN r : \E j \in DOMAIN p : i <= j /\ r[i] = p[j]

LEMMA ThinnedShrinks ==
  ASSUME NEW p \in Seq(Heard), NEW r \in Seq(Heard), Thinned(p, r)
  PROVE  Shrinks(p, r)
<1>1. PICK h \in [DOMAIN r -> DOMAIN p] :
        /\ \A i, j \in DOMAIN r : i < j => h[i] < h[j]
        /\ \A i \in DOMAIN r : r[i] = p[h[i]]
  BY DEF Thinned
<1>2. /\ DOMAIN r = 1 .. Len(r) /\ Len(r) \in Nat /\ DOMAIN p \subseteq Nat \ {0}
      /\ \A i \in DOMAIN r : h[i] \in DOMAIN p
  <2>1. DOMAIN r = 1 .. Len(r) /\ Len(r) \in Nat
    OBVIOUS
  <2>2. DOMAIN p = 1 .. Len(p) /\ Len(p) \in Nat
    OBVIOUS
  <2>3. \A i \in DOMAIN r : h[i] \in DOMAIN p
    BY <1>1
  <2> QED BY <2>1, <2>2, <2>3
<1> DEFINE T == {i \in DOMAIN r : h[i] < i}
<1>3. ASSUME T # {} PROVE FALSE
  <2>1. T \in SUBSET Nat
    BY <1>2
  <2>2. PICK i \in T : \A k \in T : i <= k
    BY <1>3, <2>1, Least
  <2>3. i \in DOMAIN r /\ i \in Nat /\ h[i] \in Nat \ {0} /\ h[i] < i
    BY <1>2, <2>2
  <2>4. i - 1 \in DOMAIN r /\ i - 1 < i
    BY <1>2, <2>3
  <2>5. h[i - 1] < h[i] /\ h[i - 1] \in Nat
    BY <1>1, <1>2, <2>3, <2>4
  <2>6. i - 1 \in T
    BY <2>3, <2>4, <2>5
  <2> QED BY <2>2, <2>3, <2>6
<1>4. \A i \in DOMAIN r : i <= h[i]
  <2> TAKE i \in DOMAIN r
  <2>1. ~(h[i] < i) /\ h[i] \in Nat /\ i \in Nat
    BY <1>2, <1>3
  <2> QED BY <2>1
<1> QED BY <1>1, <1>2, <1>4 DEF Shrinks

\* What the lead does not allow for: what the speaker and the loop hold of a stream
\* that has been superseded.
Slack == SpeakerBuffer + 1

\* How much of stream s has been heard, when p is what the device holds.
HeardOf(p, s) == IF p[1].stream = s THEN p[1].n ELSE 0

\* x frames have been counted for stream s, or will be: those heard, and of those
\* before it as many as could still be held when it started.
Capped(p, s, x) ==
  \/ s < p[1].stream
  \/ /\ x <= HeardOf(p, s) + Slack
     /\ \A i \in DOMAIN p : p[i].stream < s => x + i <= Slack + 1

LEMMA HeardAt ==
  ASSUME NEW p \in Seq(Heard)
  PROVE  /\ DOMAIN p = 1 .. Len(p) /\ Len(p) \in Nat
         /\ \A i \in DOMAIN p : p[i].n \in Nat /\ p[i].stream \in Nat
<1>1. \A i \in DOMAIN p : p[i] \in Heard
  OBVIOUS
<1>2. Streams \cup {None} \subseteq Nat
  BY StreamsAssumption DEF Streams, None
<1>3. DOMAIN p = 1 .. Len(p) /\ Len(p) \in Nat
  OBVIOUS
<1> QED BY <1>1, <1>2, <1>3 DEF Heard

LEMMA CappedShrinks ==
  ASSUME NEW p \in Seq(Heard), NEW r \in Seq(Heard), p # <<>>, r # <<>>, Shrinks(p, r),
         \A i, j \in DOMAIN p : i < j => Earlier(p[i], p[j]),
         NEW s \in Nat, NEW x \in Nat, Capped(p, s, x)
  PROVE  Capped(r, s, x)
<1>0. /\ DOMAIN p = 1 .. Len(p) /\ Len(p) \in Nat /\ DOMAIN r = 1 .. Len(r) /\ Len(r) \in Nat
      /\ \A i \in DOMAIN p : p[i].n \in Nat /\ p[i].stream \in Nat
      /\ \A i \in DOMAIN r : r[i].n \in Nat /\ r[i].stream \in Nat
  BY HeardAt
<1>1. 1 \in DOMAIN p /\ 1 \in DOMAIN r
  OBVIOUS
<1>2. Slack \in Nat
  BY DeviceAssumption DEF Slack
<1>3. PICK j \in DOMAIN p : r[1] = p[j]
  BY <1>1 DEF Shrinks
<1>4. r[1] = p[1] \/ Earlier(p[1], r[1])
  <2>1. j = 1 \/ 1 < j
    BY <1>0
  <2> QED BY <1>1, <1>3, <2>1
<1>5. ASSUME ~(s < r[1].stream)
      PROVE  /\ x <= HeardOf(r, s) + Slack
             /\ \A i \in DOMAIN r : r[i].stream < s => x + i <= Slack + 1
  <2>1. ~(s < p[1].stream)
    BY <1>0, <1>1, <1>4, <1>5, SMTT(30) DEF Earlier
  <2>2. /\ x <= HeardOf(p, s) + Slack
        /\ \A i \in DOMAIN p : p[i].stream < s => x + i <= Slack + 1
    BY <2>1 DEF Capped
  <2>3. HeardOf(p, s) <= HeardOf(r, s) /\ HeardOf(p, s) \in Nat /\ HeardOf(r, s) \in Nat
    BY <1>0, <1>1, <1>4, <1>5 DEF Earlier, HeardOf
  <2>4. ASSUME NEW i \in DOMAIN r, r[i].stream < s PROVE x + i <= Slack + 1
    <3>1. PICK k \in DOMAIN p : i <= k /\ r[i] = p[k]
      BY DEF Shrinks
    <3>2. x + k <= Slack + 1
      BY <2>2, <2>4, <3>1
    <3> QED BY <1>0, <1>2, <3>1, <3>2
  <2> QED BY <1>2, <2>2, <2>3, <2>4
<1> QED BY <1>5 DEF Capped

\* A frame more is heard and counted.
LEMMA CappedPlays ==
  ASSUME NEW p \in Seq(Heard), NEW r \in Seq(Heard), r # <<>>, Len(p) = Len(r) + 1,
         \A i \in DOMAIN r : r[i] = p[i + 1],
         \A i, j \in DOMAIN p : i < j => Earlier(p[i], p[j]), r[1].n > 0,
         NEW s \in Nat, NEW x \in Nat, Capped(p, s, x)
  PROVE  Capped(r, s, x + 1)
<1>0. /\ DOMAIN p = 1 .. Len(p) /\ Len(p) \in Nat /\ DOMAIN r = 1 .. Len(r) /\ Len(r) \in Nat
      /\ \A i \in DOMAIN p : p[i].n \in Nat /\ p[i].stream \in Nat
      /\ \A i \in DOMAIN r : r[i].n \in Nat /\ r[i].stream \in Nat
  BY HeardAt
<1>1. 1 \in DOMAIN p /\ 2 \in DOMAIN p /\ 1 \in DOMAIN r /\ r[1] = p[2]
  <2>1. 1 \in DOMAIN r
    OBVIOUS
  <2> QED BY <1>0, <2>1
<1>2. Slack \in Nat
  BY DeviceAssumption DEF Slack
<1>3. Earlier(p[1], r[1])
  BY <1>1
<1>5. ASSUME ~(s < r[1].stream)
      PROVE  /\ x + 1 <= HeardOf(r, s) + Slack
             /\ \A i \in DOMAIN r : r[i].stream < s => (x + 1) + i <= Slack + 1
  <2>1. ~(s < p[1].stream)
    BY <1>0, <1>1, <1>3, <1>5 DEF Earlier
  <2>2. /\ x <= HeardOf(p, s) + Slack
        /\ \A i \in DOMAIN p : p[i].stream < s => x + i <= Slack + 1
    BY <2>1 DEF Capped
  <2>3. ASSUME NEW i \in DOMAIN r, r[i].stream < s PROVE (x + 1) + i <= Slack + 1
    <3>1. i + 1 \in DOMAIN p /\ p[i + 1] = r[i]
      BY <1>0
    <3>2. x + (i + 1) <= Slack + 1
      BY <2>2, <2>3, <3>1
    <3> QED BY <1>0, <1>2, <3>2
  <2>4. CASE r[1].stream < s
    <3>1. (x + 1) + 1 <= Slack + 1
      BY <1>1, <2>3, <2>4
    <3>2. HeardOf(r, s) = 0
      BY <1>0, <1>1, <2>4 DEF HeardOf
    <3> QED BY <1>2, <2>3, <3>1, <3>2
  <2>5. CASE r[1].stream = s
    <3>1. HeardOf(r, s) = r[1].n
      BY <2>5 DEF HeardOf
    <3>2. CASE p[1].stream = s
      <4>1. HeardOf(p, s) = p[1].n /\ p[1].n < r[1].n
        BY <1>0, <1>1, <1>3, <2>5, <3>2 DEF HeardOf, Earlier
      <4>2. x <= p[1].n + Slack /\ p[1].n \in Nat /\ r[1].n \in Nat
        BY <1>0, <1>1, <2>2, <4>1
      <4> QED BY <1>2, <2>3, <3>1, <4>1, <4>2
    <3>3. CASE p[1].stream < s
      <4>1. x + 1 <= Slack + 1
        BY <1>1, <2>2, <3>3
      <4>2. r[1].n \in Nat
        BY <1>0, <1>1
      <4> QED BY <1>2, <2>3, <3>1, <4>1, <4>2
    <3> QED BY <1>0, <1>1, <2>1, <3>2, <3>3
  <2> QED BY <1>0, <1>1, <1>5, <2>4, <2>5
<1> QED BY <1>5 DEF Capped

\* A frame of the stream, or of a later one, arrives.
LEMMA CappedAppend ==
  ASSUME NEW p \in Seq(Heard), p # <<>>, NEW f \in Heard, NEW s \in Nat, NEW x \in Nat,
         ~(f.stream < s), Capped(p, s, x)
  PROVE  Capped(Append(p, f), s, x)
<1> DEFINE r == Append(p, f)
<1>1. r[1] = p[1] /\ \A i \in DOMAIN r : (i \in DOMAIN p /\ r[i] = p[i]) \/ r[i] = f
  OBVIOUS
<1> HIDE DEF r
<1>2. Capped(r, s, x)
  BY <1>1 DEF Capped, HeardOf
<1> QED BY <1>2 DEF r

\* The sum behind the next lemma: f is the first place of a stream whose first frame is
\* a and whose frame at place m is b.
LEMMA PlacesAddUp ==
  ASSUME NEW m \in Nat, NEW f \in Nat, NEW a \in Nat, NEW b \in Nat, NEW x \in Nat,
         NEW l \in Nat, NEW k \in Nat,
         a > 0, a + (m - f) <= b, b <= x, f - 1 <= k + 1,
         x <= l \/ (x - l) + (f - 1) <= k + 1
  PROVE  m <= l + k + 1
  OBVIOUS

\* The frame at place m, of a stream of which x frames have been sent.
LEMMA NotFarAhead ==
  ASSUME NEW p \in Seq(Heard), \A i, j \in DOMAIN p : i < j => Earlier(p[i], p[j]),
         NEW m \in DOMAIN p, 1 < m, NEW x \in Nat, p[m].n <= x,
         \A i \in DOMAIN p : 1 < i => p[i].n > 0,
         Capped(p, p[m].stream, 0),
         x <= Lead \/ (Lead <= x /\ Capped(p, p[m].stream, x - Lead))
  PROVE  m <= Lead + Slack + 1
<1> DEFINE t == p[m].stream
<1>0. /\ DOMAIN p = 1 .. Len(p) /\ Len(p) \in Nat
      /\ \A i \in DOMAIN p : p[i].n \in Nat /\ p[i].stream \in Nat
  BY HeardAt
<1>1. 1 \in DOMAIN p /\ m \in Nat /\ Earlier(p[1], p[m])
  BY <1>0
<1>2. Slack \in Nat /\ Lead \in Nat /\ t \in Nat
  BY <1>0, DeviceAssumption, LeadAssumption DEF Slack
<1>3. ~(t < p[1].stream)
  BY <1>0, <1>1 DEF Earlier
<1>4. \A i \in DOMAIN p : p[i].stream < t => i <= Slack + 1
  BY <1>0, <1>2, <1>3 DEF Capped
<1>5. ASSUME ~(x <= Lead)
      PROVE  /\ x - Lead <= HeardOf(p, t) + Slack
             /\ \A i \in DOMAIN p : p[i].stream < t => (x - Lead) + i <= Slack + 1
  BY <1>3, <1>5 DEF Capped
<1>6. CASE p[1].stream = t
  <2> DEFINE a == p[1].n  b == p[m].n
  <2>1. a + (m - 1) <= b /\ a \in Nat /\ b \in Nat
    <3>1. 1 <= m /\ p[1].stream = p[m].stream
      BY <1>1, <1>6
    <3>2. p[1].n + (m - 1) <= p[m].n
      BY <1>1, <3>1, Spacing
    <3> QED BY <1>0, <1>1, <3>2
  <2>2. HeardOf(p, t) = a
    BY <1>6 DEF HeardOf
  <2>3. x <= Lead \/ x - Lead <= a + Slack
    BY <1>5, <2>2
  <2>4. b <= x
    OBVIOUS
  <2> HIDE DEF a, b, t
  <2> QED BY <1>1, <1>2, <2>1, <2>3, <2>4
<1>7. CASE p[1].stream # t
  <2> DEFINE T == {i \in DOMAIN p : p[i].stream = t}
  <2>1. T \in SUBSET Nat /\ m \in T
    BY <1>0
  <2>2. PICK f \in T : \A k \in T : f <= k
    BY <2>1, Least
  <2>3. f \in DOMAIN p /\ f \in Nat /\ p[f].stream = t /\ f <= m /\ 1 < f
    BY <1>0, <1>7, <2>1, <2>2
  <2>4. f - 1 \in DOMAIN p /\ f - 1 < f
    BY <1>0, <2>3
  <2>5. p[f - 1].stream < t
    <3>1. f - 1 \notin T
      BY <2>2, <2>3, <2>4
    <3>2. Earlier(p[f - 1], p[f])
      BY <2>3, <2>4
    <3> QED BY <1>0, <2>3, <2>4, <3>1, <3>2 DEF Earlier
  <2> DEFINE a == p[f].n  b == p[m].n
  <2>6. a + (m - f) <= b /\ a \in Nat /\ b \in Nat /\ a > 0
    BY <1>0, <2>3, Spacing
  <2>7. x <= Lead \/ (x - Lead) + (f - 1) <= Slack + 1
    BY <1>5, <2>4, <2>5
  <2>8. f - 1 <= Slack + 1
    BY <1>4, <2>4, <2>5
  <2>9. b <= x
    OBVIOUS
  <2> HIDE DEF a, b, t
  <2> QED BY <1>1, <1>2, <2>3, <2>6, <2>7, <2>8, <2>9, PlacesAddUp
<1> QED BY <1>6, <1>7

\* playback.start of stream s is on the wire.
Coming(s) == \E k \in DOMAIN toDevice : toDevice[k].kind = "start" /\ toDevice[k].stream = s

\* The device has read it.
Arrived(s) == s <= created /\ ~Coming(s)

\* A frame of a stream superseded already comes before the start of the later ones;
\* the device holds nothing of a stream whose start it has not read.
StartInv ==
  /\ \A k \in FramesOnWire, s \in Streams : toDevice[k].stream < s /\ s <= created
       => \E j \in DOMAIN toDevice :
            k < j /\ toDevice[j].kind = "start" /\ toDevice[j].stream = s
  /\ \A i \in DOMAIN Pipeline, s \in Streams : Coming(s) => Pipeline[i].stream < s
  /\ streamId # None => Arrived(streamId)

\* What is held of older streams when one has started.
RoomOK == \A s \in Streams : Arrived(s) => Capped(Pipeline, s, 0)

\* Frames of stream s put on the wire.
Out(s) == sent[s] + (IF sender = "sending" /\ packet.stream = s THEN 1 ELSE 0)

\* Frame f is numbered from 1 and has been put on the wire.
Numbered(f) ==
  f.stream # None => 0 < f.n /\ \A s \in Streams : f.stream = s => f.n <= Out(s)
NumbersOK ==
  /\ \A k \in FramesOnWire : Numbered(toDevice[k])
  /\ \A i \in DOMAIN Pipeline : Numbered(Pipeline[i])

\* A count of x frames is right for stream s: it has started, and what the device
\* holds allows for as many.
Cap(s, x) == x = 0 \/ (Arrived(s) /\ Capped(Pipeline, s, x))

\* x frames of stream s have been counted: on the device, on the way to the gateway or
\* in it, or so many that the gateway has sent the lead beyond them.
Counted(s, x) ==
  \/ streamId = s /\ webSocket # "starting" /\ playedFrames = x
  \/ \E i \in DOMAIN progress : progress[i].stream = s /\ progress[i].played = x
  \/ \E i \in DOMAIN toGateway : toGateway[i].stream = s /\ toGateway[i].played = x
  \/ played[s] = x
  \/ Out(s) = x + Lead

CountInv == \A s \in Streams, x \in Nat : Counted(s, x) => Cap(s, x)

\* The queue has not overrun, when it has room for the lead and the speaker's buffer.
NoneDropped == Lead + SpeakerBuffer < DeviceQueue => dropped = 0

\* The inductive invariant: the counts are right until a stale report has been made.
AheadInv ==
  /\ OutputInv /\ StartInv /\ RoomOK /\ NumbersOK
  /\ ~stale => CountInv /\ NoneDropped

\* What a step does to the wire.
LEMMA WireStep ==
  ASSUME TypeOK, OrderInv, [Next]_vars
  PROVE  \/ UNCHANGED <<toDevice, created>>
         \/ /\ toDevice # <<>> /\ toDevice' = Tail(toDevice) /\ created' = created
            /\ Head(toDevice).kind = "start" => ReceiveStart
         \/ \E m \in Message :
              /\ toDevice' = Append(toDevice, m)
              /\ \/ m.kind = "start" /\ m.stream = created' /\ created' = created + 1
                 \/ m.kind # "start" /\ m.stream = created /\ created' = created
              /\ m.kind = "frame" => SendFrame
<1> DEFINE Sends == \E m \in Message :
              /\ toDevice' = Append(toDevice, m)
              /\ \/ m.kind = "start" /\ m.stream = created' /\ created' = created + 1
                 \/ m.kind # "start" /\ m.stream = created /\ created' = created
              /\ m.kind = "frame" => SendFrame
<1>0. GatewayTypeOK /\ output \in {None, created} /\ output \in Streams \cup {None}
  BY DEF TypeOK, OrderInv, GatewayTypeOK
<1>1. ASSUME NEW kind \in {"frame", "end", "flush"}, NEW n \in Nat, Send(kind, output, n),
             output # None, created' = created, kind = "frame" => SendFrame
      PROVE  Sends
  <2> DEFINE m == [kind |-> kind, stream |-> output, n |-> n]
  <2>1. m \in Message /\ m.kind # "start" /\ m.stream = created
        /\ (m.kind = "frame" => SendFrame)
    BY <1>0, <1>1 DEF Message
  <2>2. toDevice' = Append(toDevice, m)
    BY <1>1 DEF Send
  <2> HIDE DEF m
  <2> QED BY <1>1, <2>1, <2>2
<1>2. CASE GatewayStep
  <2>1. ASSUME NEW f \in 0 .. MaxDelta, NEW rest \in Remainders, StartStream(f, rest)
        PROVE  Sends
    <3> DEFINE m == [kind |-> "start", stream |-> created', n |-> 0]
    <3>1. created' = created + 1 /\ toDevice' = Append(toDevice, m) /\ created' \in Streams
      BY <1>0, <2>1, StreamsAssumption DEF StartStream, Send, GatewayTypeOK, Streams
    <3>2. m \in Message /\ m.kind = "start" /\ m.stream = created'
      BY <3>1 DEF Message
    <3> HIDE DEF m
    <3> QED BY <3>1, <3>2
  <2>2. CASE SpeechStarted
    BY <1>1, <2>2 DEF SpeechStarted
  <2>3. CASE WatchdogFlush
    BY <1>1, <2>3 DEF WatchdogFlush
  <2>4. CASE TakePacket
    <3>1. sent[output] \in Nat \/ output = None
      BY <1>0 DEF GatewayTypeOK, Counter
    <3> QED BY <1>1, <2>4, <3>1 DEF TakePacket, IsCurrent
  <2>5. CASE SendFrame
    <3>1. packet.data \in Nat
      BY <1>0 DEF GatewayTypeOK, Packet, NoPacket, EndMarker
    <3> QED BY <1>1, <2>5, <3>1 DEF SendFrame, IsCurrent
  <2>6. CASE UNCHANGED <<toDevice, created>>
    BY <2>6
  <2>7. \/ UNCHANGED <<toDevice, created>>
        \/ SpeechStarted \/ WatchdogFlush \/ TakePacket \/ SendFrame
        \/ \E f \in 0 .. MaxDelta, rest \in Remainders : StartStream(f, rest)
    BY <1>2, Zenon DEF GatewayStep, Reader, Sender, Watchdog, AppendDelta, StartSent,
           StreamAnnounced, TransportError, OutputAudioDone, ResponseDone, Truncate, Interrupted,
           SpeechStopped, CloudError, EndSent, CapacityAwaited, FrameSent, WatchdogComplete
  <2> QED BY <2>1, <2>2, <2>3, <2>4, <2>5, <2>7
<1>3. CASE DeviceStep /\ UNCHANGED gatewayVars
  <2>1. created' = created
    BY <1>3 DEF gatewayVars
  <2>2. \/ toDevice' = toDevice
        \/ toDevice # <<>> /\ toDevice' = Tail(toDevice) /\ Head(toDevice).kind # "start"
        \/ toDevice # <<>> /\ toDevice' = Tail(toDevice) /\ ReceiveStart
    BY <1>3 DEF DeviceStep, WebSocketTask, ReceiveFrame, ReceiveStart, StartPlayback, ReceiveEnd,
         ReceiveFlush, FlushPlayback, Receive, MainLoop, PrebufferReady, TakeFrame, PlayFrame,
         ReportProgress, Mute, DacOutput, SpeakerStopped, SendProgress
  <2> QED BY <2>1, <2>2
<1>4. CASE ReceiveProgress
  BY <1>4 DEF ReceiveProgress, PlaybackProgress
<1>5. CASE UNCHANGED vars
  BY <1>5 DEF vars, gatewayVars
<1> QED BY <1>2, <1>3, <1>4, <1>5 DEF Next

LEMMA JoinedLength ==
  ASSUME NEW x \in Heard, NEW s \in Seq(Frame), NEW a \in Seq(Frame), NEW q \in Seq(Frame)
  PROVE  /\ Len(<<x>> \o s \o a \o q) = 1 + Len(s) + Len(a) + Len(q)
         /\ (<<x>> \o s \o a \o q)[1] = x
<1>1. s \in Seq(Heard) /\ a \in Seq(Heard) /\ q \in Seq(Heard)
  BY FramesHeard
<1>2. <<x>> \in Seq(Heard) /\ Len(<<x>>) = 1 /\ <<x>>[1] = x /\ 1 \in 1 .. 1
  OBVIOUS
<1> DEFINE b == <<x>> \o s
<1>3. b \in Seq(Heard) /\ Len(b) = 1 + Len(s) /\ Len(s) \in Nat /\ b[1] = x
  BY <1>1, <1>2, JoinAt
<1> HIDE DEF b
<1> DEFINE c == b \o a
<1>4. c \in Seq(Heard) /\ Len(c) = Len(b) + Len(a) /\ Len(a) \in Nat /\ c[1] = x
  <2>1. 1 \in 1 .. Len(b)
    BY <1>3
  <2> QED BY <1>1, <1>3, <2>1, JoinAt, ZenonT(60)
<1> HIDE DEF c
<1>5. Len(c \o q) = Len(c) + Len(q) /\ (c \o q)[1] = x
  <2>1. 1 \in 1 .. Len(c)
    BY <1>3, <1>4
  <2> QED BY <1>1, <1>4, <2>1, JoinAt, ZenonT(60)
<1> QED BY <1>3, <1>4, <1>5 DEF b, c

LEMMA PipelineNotEmpty ==
  ASSUME NEW x \in Heard, NEW s \in Seq(Frame), NEW a \in Seq(Frame), NEW q \in Seq(Frame)
  PROVE  <<x>> \o s \o a \o q \in Seq(Heard) /\ <<x>> \o s \o a \o q # <<>>
<1>1. s \in Seq(Heard) /\ a \in Seq(Heard) /\ q \in Seq(Heard)
  BY FramesHeard
<1>2. <<x>> \in Seq(Heard) /\ Len(<<x>>) = 1
  OBVIOUS
<1> DEFINE b == <<x>> \o s
<1>3. b \in Seq(Heard) /\ Len(b) = 1 + Len(s) /\ Len(s) \in Nat
  BY <1>1, <1>2, JoinAt
<1> HIDE DEF b
<1> DEFINE c == b \o a
<1>4. c \in Seq(Heard) /\ Len(c) = Len(b) + Len(a) /\ Len(a) \in Nat
  BY <1>1, <1>3, JoinAt
<1> HIDE DEF c
<1>5. c \o q \in Seq(Heard) /\ Len(c \o q) = Len(c) + Len(q) /\ Len(q) \in Nat
  BY <1>1, <1>4, JoinAt
<1>6. c \o q # <<>>
  BY <1>3, <1>4, <1>5
<1> QED BY <1>5, <1>6 DEF b, c

\* What a step does to what the device holds.
LEMMA PipelineStep ==
  ASSUME TypeOK, TypeOK', [Next]_vars
  PROVE  /\ Pipeline \in Seq(Heard) /\ Pipeline # <<>>
         /\ Pipeline' \in Seq(Heard) /\ Pipeline' # <<>>
         /\ \/ Shrinks(Pipeline, Pipeline')
            \/ \E f \in Frame :
                 /\ toDevice # <<>> /\ toDevice[1].kind = "frame" /\ toDevice' = Tail(toDevice)
                 /\ f.stream = toDevice[1].stream /\ f.n = toDevice[1].n
                 /\ Pipeline' = Append(Pipeline, f)
<1> DEFINE p == Pipeline  r == Pipeline'
<1>1. DeviceTypeOK /\ DeviceTypeOK' /\ GatewayTypeOK
  BY DEF TypeOK
<1>2. p \in Seq(Heard) /\ p # <<>>
  <2>1. /\ heard \in Heard /\ speaker \in Seq(Frame) /\ hand \in Seq(Frame)
        /\ frames \in Seq(Frame)
    BY <1>1 DEF DeviceTypeOK, Heard
  <2> QED BY <2>1, PipelineNotEmpty DEF Pipeline
<1>3. r \in Seq(Heard) /\ r # <<>>
  <2>1. /\ heard' \in Heard /\ speaker' \in Seq(Frame) /\ hand' \in Seq(Frame)
        /\ frames' \in Seq(Frame)
    BY <1>1 DEF DeviceTypeOK, Heard
  <2> QED BY <2>1, PipelineNotEmpty DEF Pipeline
<1>4. ASSUME UNCHANGED <<heard, speaker, hand, frames>> PROVE Shrinks(p, r)
  <2>1. p = r
    BY <1>4 DEF Pipeline
  <2>2. \A i \in DOMAIN p : i <= i
    BY <1>2
  <2> HIDE DEF p, r
  <2> QED BY <2>1, <2>2 DEF Shrinks
<1>5. CASE DeviceStep
  <2>1. CASE ReceiveFrame => UNCHANGED frames
    <3>1. Thinned(p, r)
      BY <1>1, <1>5, <2>1, DeviceThins
    <3> HIDE DEF p, r
    <3>2. Shrinks(p, r)
      BY <1>2, <1>3, <3>1, ThinnedShrinks
    <3> QED BY <1>2, <1>3, <3>2 DEF p, r
  <2>2. CASE ReceiveFrame /\ ~UNCHANGED frames
    <3> DEFINE m == toDevice[1]
               f == [stream |-> m.stream, n |-> m.n]
    <3>0. toDevice \in Seq(Message)
      BY <1>1 DEF GatewayTypeOK
    <3>1. /\ toDevice # <<>> /\ toDevice' = Tail(toDevice) /\ m.kind = "frame"
          /\ m = Head(toDevice)
      BY <2>2, <3>0 DEF ReceiveFrame, Receive
    <3>2. m \in Message
      BY <3>0, <3>1
    <3>3. f \in Frame /\ f \in Heard /\ f.stream = m.stream /\ f.n = m.n
      BY <3>2 DEF Message, Frame, Heard
    <3>4. r = Append(p, f)
      <4>1. frames' = Append(frames, f) /\ UNCHANGED <<heard, speaker, hand>>
        BY <2>2, <3>1 DEF ReceiveFrame, speakerVars
      <4> HIDE DEF f
      <4>2. /\ speaker \in Seq(Heard) /\ hand \in Seq(Heard) /\ frames \in Seq(Heard)
            /\ heard \in Heard
        BY <1>1, FramesHeard DEF DeviceTypeOK, Heard
      <4> QED BY <3>3, <4>1, <4>2, AppendLast DEF Pipeline
    <3> HIDE DEF f
    <3> QED BY <1>2, <1>3, <3>1, <3>3, <3>4
  <2> QED BY <2>1, <2>2
<1>6. CASE GatewayStep /\ UNCHANGED deviceVars
  BY <1>2, <1>3, <1>4, <1>6 DEF deviceVars, speakerVars
<1>7. CASE ReceiveProgress
  BY <1>2, <1>3, <1>4, <1>7 DEF ReceiveProgress, speakerVars
<1>8. CASE UNCHANGED vars
  BY <1>2, <1>3, <1>4, <1>8 DEF vars, deviceVars, speakerVars
<1> QED BY <1>5, <1>6, <1>7, <1>8 DEF Next

\* A start that has been read stays so.
LEMMA ArrivedKept ==
  ASSUME TypeOK, OrderInv, [Next]_vars, NEW s \in Streams, Arrived(s)
  PROVE  Arrived(s)'
<1>1. /\ toDevice \in Seq(Message) /\ created \in Nat /\ s \in Nat /\ s <= created
      /\ \A k \in DOMAIN toDevice : ~(toDevice[k].kind = "start" /\ toDevice[k].stream = s)
  BY StreamsAssumption DEF TypeOK, GatewayTypeOK, Streams, Arrived, Coming
<1>2. CASE UNCHANGED <<toDevice, created>>
  BY <1>1, <1>2 DEF Arrived, Coming
<1>3. CASE toDevice # <<>> /\ toDevice' = Tail(toDevice) /\ created' = created
  <2>1. \A k \in DOMAIN toDevice' : k + 1 \in DOMAIN toDevice /\ toDevice'[k] = toDevice[k + 1]
    BY <1>1, <1>3
  <2> QED BY <1>1, <1>3, <2>1 DEF Arrived, Coming
<1>4. ASSUME NEW m \in Message, toDevice' = Append(toDevice, m),
             \/ m.kind = "start" /\ m.stream = created' /\ created' = created + 1
             \/ m.kind # "start" /\ created' = created
      PROVE  Arrived(s)'
  <2>1. \A k \in DOMAIN toDevice' : (k \in DOMAIN toDevice /\ toDevice'[k] = toDevice[k]) \/ toDevice'[k] = m
    BY <1>1, <1>4
  <2>2. ~(m.kind = "start" /\ m.stream = s) /\ s <= created'
    BY <1>1, <1>4
  <2> QED BY <1>1, <2>1, <2>2 DEF Arrived, Coming
<1> QED BY <1>2, <1>3, <1>4, WireStep

\* A start is read by ReceiveStart.
LEMMA ArrivedNew ==
  ASSUME TypeOK, OrderInv, [Next]_vars, NEW s \in Streams, ~Arrived(s), Arrived(s)'
  PROVE  ReceiveStart
<1>1. toDevice \in Seq(Message) /\ created \in Nat /\ s \in Nat /\ (s <= created => Coming(s))
  BY StreamsAssumption DEF TypeOK, GatewayTypeOK, Streams, Arrived
<1>2. CASE UNCHANGED <<toDevice, created>>
  BY <1>2 DEF Arrived, Coming
<1>3. CASE /\ toDevice # <<>> /\ toDevice' = Tail(toDevice) /\ created' = created
           /\ Head(toDevice).kind = "start" => ReceiveStart
  <2>1. PICK k \in DOMAIN toDevice : toDevice[k].kind = "start" /\ toDevice[k].stream = s
    BY <1>1, <1>3 DEF Arrived, Coming
  <2>2. CASE k = 1
    BY <1>1, <1>3, <2>1, <2>2
  <2>3. CASE k # 1
    <3>1. k - 1 \in DOMAIN toDevice' /\ toDevice'[k - 1] = toDevice[k]
      BY <1>1, <1>3, <2>3
    <3>2. Coming(s)'
      BY <2>1, <3>1 DEF Coming
    <3> QED BY <3>2 DEF Arrived
  <2> QED BY <2>2, <2>3
<1>4. ASSUME NEW m \in Message, toDevice' = Append(toDevice, m),
             \/ m.kind = "start" /\ m.stream = created' /\ created' = created + 1
             \/ m.kind # "start" /\ created' = created
      PROVE  FALSE
  <2>1. \A k \in DOMAIN toDevice : k \in DOMAIN toDevice' /\ toDevice'[k] = toDevice[k]
    BY <1>1, <1>4
  <2>2. Coming(s) => Coming(s)'
    BY <2>1 DEF Coming
  <2>3. CASE s <= created
    BY <1>1, <2>2, <2>3 DEF Arrived
  <2>4. CASE ~(s <= created)
    <3>1. s <= created'
      BY DEF Arrived
    <3>2. m.kind = "start" /\ m.stream = s
      BY <1>1, <1>4, <2>4, <3>1
    <3>3. Len(toDevice) + 1 \in DOMAIN toDevice' /\ toDevice'[Len(toDevice) + 1] = m
      BY <1>1, <1>4
    <3>4. Coming(s)'
      BY <3>2, <3>3 DEF Coming
    <3> QED BY <3>4 DEF Arrived
  <2> QED BY <2>3, <2>4
<1> QED BY <1>2, <1>3, <1>4, WireStep

\* No frame of an older stream arrives, so a cap stays one.
LEMMA CapKept ==
  ASSUME SystemInv, TypeOK', StartInv, [Next]_vars,
         NEW s \in Streams, NEW x \in Nat, Arrived(s), Capped(Pipeline, s, x)
  PROVE  Arrived(s)' /\ Capped(Pipeline', s, x)
<1> DEFINE p == Pipeline  r == Pipeline'
<1>1. /\ p \in Seq(Heard) /\ p # <<>> /\ r \in Seq(Heard) /\ r # <<>>
  BY PipelineStep DEF SystemInv
<1>2. \A i, j \in DOMAIN p : i < j => Earlier(p[i], p[j])
  BY DEF SystemInv, HeldInv, Ascending
<1>3. s \in Nat /\ Capped(p, s, x)
  BY StreamsAssumption DEF Streams
<1>4. CASE Shrinks(p, r)
  <2> HIDE DEF p, r
  <2> QED BY <1>1, <1>2, <1>3, <1>4, CappedShrinks, ArrivedKept DEF SystemInv, r
<1>5. ASSUME NEW f \in Frame, toDevice # <<>>, toDevice[1].kind = "frame",
             f.stream = toDevice[1].stream, r = Append(p, f)
      PROVE  Capped(r, s, x)
  <2>1. ~(f.stream < s)
    <3>1. 1 \in FramesOnWire
      BY <1>5, SMTT(30) DEF SystemInv, TypeOK, GatewayTypeOK, FramesOnWire
    <3> QED BY <1>5, <3>1 DEF StartInv, Arrived, Coming
  <2>2. f \in Heard
    BY DEF Frame, Heard
  <2> HIDE DEF p, r
  <2> QED BY <1>1, <1>3, <1>5, <2>1, <2>2, CappedAppend
<1> QED BY <1>4, <1>5, PipelineStep, ArrivedKept DEF SystemInv

\* A start on the wire was there, or is that of the stream just opened.
LEMMA ComingWas ==
  ASSUME TypeOK, OrderInv, [Next]_vars, NEW s \in Streams, Coming(s)'
  PROVE  \/ Coming(s) /\ created' >= created
         \/ created < s /\ UNCHANGED <<frames, hand, speaker, heard>>
<1>1. toDevice \in Seq(Message) /\ created \in Nat /\ s \in Nat
  BY StreamsAssumption DEF TypeOK, GatewayTypeOK, Streams
<1>2. CASE UNCHANGED <<toDevice, created>>
  BY <1>1, <1>2 DEF Coming
<1>3. CASE toDevice # <<>> /\ toDevice' = Tail(toDevice) /\ created' = created
  <2>1. \A k \in DOMAIN toDevice' : k + 1 \in DOMAIN toDevice /\ toDevice'[k] = toDevice[k + 1]
    BY <1>1, <1>3
  <2> QED BY <1>1, <1>3, <2>1 DEF Coming
<1>4. ASSUME NEW m \in Message, toDevice' = Append(toDevice, m),
             \/ m.kind = "start" /\ m.stream = created' /\ created' = created + 1
             \/ m.kind # "start" /\ created' = created
      PROVE  \/ Coming(s) /\ created' >= created
             \/ created < s /\ UNCHANGED <<frames, hand, speaker, heard>>
  <2>1. \A k \in DOMAIN toDevice' : (k \in DOMAIN toDevice /\ toDevice'[k] = toDevice[k]) \/ toDevice'[k] = m
    BY <1>1, <1>4
  <2>2. Coming(s) \/ (m.kind = "start" /\ m.stream = s)
    BY <2>1 DEF Coming
  <2>3. created' >= created
    BY <1>1, <1>4
  <2>4. CASE m.kind = "start" /\ m.stream = s
    <3>1. created' # created /\ created < s
      BY <1>1, <1>4, <2>4
    <3>2. GatewayStep /\ UNCHANGED deviceVars
      BY <3>1 DEF Next, gatewayVars, vars, ReceiveProgress, PlaybackProgress
    <3> QED BY <3>1, <3>2 DEF deviceVars, speakerVars
  <2> QED BY <2>2, <2>3, <2>4
<1> QED BY <1>2, <1>3, <1>4, WireStep

LEMMA StreamIdStep ==
  ASSUME [Next]_vars
  PROVE  streamId' \in {streamId, None} \/ (ReceiveStart /\ streamId' = Head(toDevice).stream)
<1>1. CASE DeviceStep
  BY <1>1 DEF DeviceStep, WebSocketTask, ReceiveFrame, ReceiveStart, StartPlayback, ReceiveEnd,
         ReceiveFlush, FlushPlayback, ForgetStream, MainLoop, PrebufferReady, TakeFrame, PlayFrame,
         ReportProgress, Mute, DacOutput, SpeakerStopped, SendProgress, streamIdVars
<1>2. CASE ReceiveProgress \/ UNCHANGED deviceVars
  BY <1>2 DEF ReceiveProgress, deviceVars, streamIdVars
<1> QED BY <1>1, <1>2 DEF Next, vars

LEMMA StartsKept ==
  ASSUME SystemInv, TypeOK', StartInv, [Next]_vars
  PROVE  StartInv'
<1>0. /\ toDevice \in Seq(Message) /\ created \in Nat /\ Streams \subseteq Nat
      /\ TypeOK /\ OrderInv /\ WireInOrder /\ NothingBeyond(created)
  BY StreamsAssumption DEF SystemInv, TypeOK, GatewayTypeOK, Streams, OrderInv
<1>1. ASSUME NEW k \in FramesOnWire', NEW s \in Streams, toDevice'[k].stream < s, s <= created'
      PROVE  \E j \in DOMAIN toDevice' :
               k < j /\ toDevice'[j].kind = "start" /\ toDevice'[j].stream = s
  <2>0. s \in Nat /\ k \in DOMAIN toDevice' /\ toDevice'[k].kind = "frame"
    BY <1>0 DEF FramesOnWire
  <2>1. CASE UNCHANGED <<toDevice, created>>
    BY <1>1, <2>1 DEF StartInv, FramesOnWire
  <2>2. CASE toDevice # <<>> /\ toDevice' = Tail(toDevice) /\ created' = created
    <3>1. k \in Nat /\ k + 1 \in FramesOnWire /\ toDevice'[k] = toDevice[k + 1]
      BY <1>0, <2>0, <2>2 DEF FramesOnWire
    <3>2. PICK j \in DOMAIN toDevice :
            k + 1 < j /\ toDevice[j].kind = "start" /\ toDevice[j].stream = s
      BY <1>1, <2>2, <3>1 DEF StartInv
    <3>3. j - 1 \in DOMAIN toDevice' /\ k < j - 1 /\ toDevice'[j - 1] = toDevice[j]
      BY <1>0, <2>2, <3>1, <3>2
    <3> QED BY <3>2, <3>3
  <2>3. ASSUME NEW m \in Message, toDevice' = Append(toDevice, m),
               \/ m.kind = "start" /\ m.stream = created' /\ created' = created + 1
               \/ m.kind # "start" /\ m.stream = created /\ created' = created
        PROVE  \E j \in DOMAIN toDevice' :
                 k < j /\ toDevice'[j].kind = "start" /\ toDevice'[j].stream = s
    <3>1. /\ DOMAIN toDevice = 1 .. Len(toDevice) /\ Len(toDevice) \in Nat
          /\ DOMAIN toDevice' = 1 .. Len(toDevice) + 1
          /\ \A j \in DOMAIN toDevice : toDevice'[j] = toDevice[j]
          /\ toDevice'[Len(toDevice) + 1] = m
      BY <1>0, <2>3
    <3>2. CASE k = Len(toDevice) + 1
      BY <1>0, <1>1, <2>0, <2>3, <3>1, <3>2
    <3>3. CASE k # Len(toDevice) + 1
      <4>1. k \in FramesOnWire /\ toDevice'[k] = toDevice[k] /\ k < Len(toDevice) + 1
        BY <2>0, <3>1, <3>3 DEF FramesOnWire
      <4>2. CASE s <= created
        <5>1. PICK j \in DOMAIN toDevice :
                k < j /\ toDevice[j].kind = "start" /\ toDevice[j].stream = s
          BY <1>1, <4>1, <4>2 DEF StartInv
        <5> QED BY <3>1, <5>1
      <4>3. CASE ~(s <= created)
        <5>1. m.kind = "start" /\ m.stream = s
          BY <1>0, <1>1, <2>0, <2>3, <4>3
        <5> QED BY <3>1, <4>1, <5>1
      <4> QED BY <4>2, <4>3
    <3> QED BY <3>2, <3>3
  <2> QED BY <1>0, <2>1, <2>2, <2>3, WireStep
<1>2. ASSUME NEW i \in DOMAIN Pipeline', NEW s \in Streams, Coming(s)'
      PROVE  Pipeline'[i].stream < s
  <2> DEFINE p == Pipeline  r == Pipeline'
  <2>1. p \in Seq(Heard) /\ (Shrinks(p, r) \/ ~Shrinks(p, r)) /\ s \in Nat
    BY <1>0, PipelineStep
  <2>2. \A j \in DOMAIN p : p[j].stream <= created /\ p[j].stream \in Nat
                            /\ (Coming(s) => p[j].stream < s)
    BY <2>1, HeardAt DEF SystemInv, HeldInv, Behind, StartInv
  <2>3. ASSUME NEW j \in DOMAIN p, r[i] = p[j] PROVE r[i].stream < s
    <3>1. Coming(s) \/ created < s
      BY <1>0, <1>2, ComingWas
    <3> QED BY <1>0, <2>1, <2>2, <2>3, <3>1
  <2>4. CASE Shrinks(p, r)
    BY <2>3, <2>4 DEF Shrinks
  <2>5. ASSUME NEW f \in Frame, toDevice # <<>>, toDevice[1].kind = "frame",
               toDevice' = Tail(toDevice), f.stream = toDevice[1].stream, r = Append(p, f)
        PROVE  r[i].stream < s
    <3>1. f.stream < s
      <4>1. PICK k \in DOMAIN toDevice' : toDevice'[k].kind = "start" /\ toDevice'[k].stream = s
        BY <1>2 DEF Coming
      <4>2. 1 \in DOMAIN toDevice /\ k + 1 \in DOMAIN toDevice /\ 1 < k + 1
            /\ toDevice[k + 1] = toDevice'[k]
        BY <1>0, <2>5, <4>1
      <4>3. MayFollow(toDevice[1], toDevice[k + 1])
        BY <1>0, <4>2 DEF WireInOrder
      <4> QED BY <2>5, <4>1, <4>2, <4>3 DEF MayFollow
    <3>2. f \in Heard
      BY DEF Frame, Heard
    <3> HIDE DEF p, r
    <3>3. (i \in DOMAIN p /\ r[i] = p[i]) \/ r[i] = f
      BY <1>2, <2>1, <2>5, <3>2 DEF r
    <3> QED BY <2>3, <3>1, <3>3
  <2> QED BY <1>0, <2>4, <2>5, PipelineStep
<1>3. ASSUME NEW s \in Streams, streamId' = s
      PROVE  s <= created' /\ \A k \in DOMAIN toDevice' :
               ~(toDevice'[k].kind = "start" /\ toDevice'[k].stream = s)
  <2>0. s \in Nat /\ s # None
    BY DEF Streams, None
  <2>1. CASE streamId = s
    <3>1. Arrived(s)
      BY <2>0, <2>1 DEF StartInv, Arrived, Coming
    <3>2. Arrived(s)'
      BY <1>0, <3>1, ArrivedKept
    <3> QED BY <3>2 DEF Arrived, Coming
  <2>2. CASE ReceiveStart /\ s = Head(toDevice).stream
    <3>1. toDevice # <<>> /\ Head(toDevice).kind = "start" /\ toDevice' = Tail(toDevice)
          /\ webSocket' = "starting" /\ webSocket = "idle"
      BY <2>2 DEF ReceiveStart, Receive
    <3>2. 1 \in DOMAIN toDevice /\ Head(toDevice) = toDevice[1]
      BY <1>0, <3>1
    <3>3. created' = created
      <4>1. \/ GatewayStep /\ UNCHANGED deviceVars
            \/ UNCHANGED gatewayVars
            \/ ReceiveProgress
        BY DEF Next, vars
      <4>2. webSocket' # webSocket
        BY <3>1
      <4> QED BY <4>1, <4>2, Zenon DEF deviceVars, gatewayVars, ReceiveProgress
    <3>4. s <= created
      <4>1. toDevice[1].stream <= created
        BY <1>0, <3>2 DEF NothingBeyond
      <4> QED BY <2>2, <3>2, <4>1
    <3>5. ASSUME NEW k \in DOMAIN toDevice', toDevice'[k].kind = "start"
          PROVE  toDevice'[k].stream # s
      <4>1. k + 1 \in DOMAIN toDevice /\ 1 < k + 1 /\ toDevice[k + 1] = toDevice'[k]
        BY <1>0, <3>1
      <4>2. MayFollow(toDevice[1], toDevice[k + 1])
        BY <1>0, <3>2, <4>1 DEF WireInOrder
      <4> QED BY <2>0, <2>2, <3>2, <3>5, <4>1, <4>2 DEF MayFollow
    <3> QED BY <3>3, <3>4, <3>5
  <2> QED BY <1>3, <2>0, <2>1, <2>2, StreamIdStep
<1>4. /\ \A k \in FramesOnWire', s \in Streams : toDevice'[k].stream < s /\ s <= created'
           => \E j \in DOMAIN toDevice' :
                k < j /\ toDevice'[j].kind = "start" /\ toDevice'[j].stream = s
      /\ \A i \in DOMAIN Pipeline', s \in Streams : Coming(s)' => Pipeline'[i].stream < s
  BY <1>1, <1>2
<1>5. streamId' # None
        => /\ streamId' <= created'
           /\ \A k \in DOMAIN toDevice' :
                ~(toDevice'[k].kind = "start" /\ toDevice'[k].stream = streamId')
  <2>1. streamId' \in Streams \cup {None}
    BY DEF TypeOK, DeviceTypeOK
  <2> QED BY <2>1, <1>3
<1> QED BY <1>4, <1>5 DEF StartInv, Arrived, Coming

\* What the gateway has framed and taken is accounted for whatever the device does.
LEMMA SystemOutputStep ==
  ASSUME TypeOK, OrderInv, OutputInv, [Next]_vars
  PROVE  OutputInv'
<1>1. CASE GatewayStep
  BY <1>1, OutputStep DEF TypeOK, GatewayNext
<1>2. CASE DeviceStep /\ UNCHANGED gatewayVars
  BY <1>2, DeviceReadsOnly, OutputStep DEF TypeOK, GatewayNext
<1>3. CASE ReceiveProgress
  BY <1>3, KeepOutput DEF ReceiveProgress, PlaybackProgress, CompletePlayback, taskVars,
       SenderKeeps, TypeOK
<1>4. CASE UNCHANGED vars
  BY <1>4, OutputStep DEF TypeOK, vars
<1> QED BY <1>1, <1>2, <1>3, <1>4 DEF Next

\* The device holds a heard frame and what is unplayed.
LEMMA PipelineLength ==
  ASSUME TypeOK
  PROVE  /\ Len(Pipeline) = 1 + Len(speaker) + Len(hand) + Len(frames)
         /\ Len(Unplayed) = Len(speaker) + Len(hand) + Len(frames)
         /\ Pipeline[1] = heard
         /\ \A i \in DOMAIN Pipeline : i > 1 => Pipeline[i] \in Frame
<1>1. /\ heard \in Heard /\ speaker \in Seq(Frame) /\ hand \in Seq(Frame)
      /\ frames \in Seq(Frame)
  BY DEF TypeOK, DeviceTypeOK, Heard
<1> DEFINE u == speaker \o hand \o frames
<1>2. u \in Seq(Frame) /\ Len(u) = Len(speaker) + Len(hand) + Len(frames)
  <2> DEFINE a == speaker \o hand
  <2>1. a \in Seq(Frame) /\ Len(a) = Len(speaker) + Len(hand)
    BY <1>1
  <2> HIDE DEF a
  <2>2. a \o frames \in Seq(Frame)
    BY <1>1, <2>1
  <2>3. Len(a \o frames) = Len(a) + Len(frames)
    BY <1>1, <2>1, FramesHeard, JoinAt
  <2> QED BY <2>1, <2>2, <2>3 DEF a
<1>3. Pipeline = <<heard>> \o u
  <2>1. /\ speaker \in Seq(Heard) /\ hand \in Seq(Heard) /\ frames \in Seq(Heard)
        /\ <<heard>> \in Seq(Heard)
    BY <1>1, FramesHeard
  <2> DEFINE h == <<heard>>
  <2>2. h \in Seq(Heard) /\ Pipeline = ((h \o speaker) \o hand) \o frames
    BY <2>1 DEF Pipeline
  <2> HIDE DEF h
  <2>3. ((h \o speaker) \o hand) \o frames = h \o ((speaker \o hand) \o frames)
    BY <2>1, <2>2, SMTT(30)
  <2> QED BY <2>2, <2>3 DEF h
<1> HIDE DEF u
<1>4. /\ Len(<<heard>> \o u) = 1 + Len(u) /\ (<<heard>> \o u)[1] = heard
      /\ \A i \in DOMAIN (<<heard>> \o u) : i > 1 => (<<heard>> \o u)[i] \in Frame
  BY <1>1, <1>2
<1> QED BY <1>1, <1>2, <1>3, <1>4 DEF Unplayed, u

\* What the device holds has started.
LEMMA HeldArrived ==
  ASSUME SystemInv, StartInv, NEW i \in DOMAIN Pipeline, i > 1
  PROVE  Pipeline[i].stream \in Streams /\ Arrived(Pipeline[i].stream)
<1> DEFINE s == Pipeline[i].stream
<1>1. s \in Streams /\ s \in Nat
  BY PipelineLength, StreamsAssumption DEF SystemInv, Frame, Streams
<1>2. s <= created
  BY DEF SystemInv, HeldInv, Behind
<1>3. Coming(s) => FALSE
  <2> SUFFICES ASSUME Coming(s) PROVE FALSE
    OBVIOUS
  <2>1. s < s
    BY <1>1 DEF StartInv
  <2> QED BY <1>1, <2>1
<1> QED BY <1>1, <1>2, <1>3 DEF Arrived

\* A stream that starts finds no more than the slack before it.
LEMMA RoomStep ==
  ASSUME SystemInv, TypeOK', StartInv, RoomOK, [Next]_vars
  PROVE  RoomOK'
<1> SUFFICES ASSUME NEW s \in Streams, Arrived(s)' PROVE Capped(Pipeline', s, 0)
  BY DEF RoomOK
<1>0. s \in Nat
  BY StreamsAssumption DEF Streams
<1>1. CASE Arrived(s)
  <2>1. Capped(Pipeline, s, 0)
    BY <1>1 DEF RoomOK
  <2> QED BY <1>1, <2>1, CapKept
<1>2. CASE ~Arrived(s)
  <2> DEFINE r == Pipeline'
  <2>1. ReceiveStart
    BY <1>2, ArrivedNew DEF SystemInv
  <2>2. frames' = <<>>
    BY <2>1 DEF ReceiveStart
  <2>3. r \in Seq(Heard)
    BY PipelineStep DEF SystemInv
  <2>4. Len(r) = 1 + Len(speaker') + Len(hand') + Len(frames')
    <3>1. /\ heard' \in Heard /\ speaker' \in Seq(Frame) /\ hand' \in Seq(Frame)
          /\ frames' \in Seq(Frame)
      BY DEF TypeOK, DeviceTypeOK, Heard
    <3> QED BY <3>1, JoinedLength DEF Pipeline
  <2>5. Len(speaker') <= SpeakerBuffer /\ Len(hand') <= 1 /\ Len(frames') = 0
        /\ Len(speaker') \in Nat /\ Len(hand') \in Nat
    BY <2>2 DEF TypeOK, DeviceTypeOK
  <2>6. Slack = SpeakerBuffer + 1 /\ SpeakerBuffer \in Nat
    BY DeviceAssumption DEF Slack
  <2>7. Len(r) <= Slack + 1
    <3> HIDE DEF r
    <3> QED BY <2>4, <2>5, <2>6
  <2>8. DOMAIN r = 1 .. Len(r) /\ Len(r) \in Nat /\ HeardOf(r, s) \in Nat
    <3> HIDE DEF r
    <3>1. DOMAIN r = 1 .. Len(r) /\ Len(r) \in Nat
      BY <2>3, HeardAt
    <3>2. Len(r) >= 1
      BY <2>4, <2>5
    <3>3. 1 \in DOMAIN r
      BY <3>1, <3>2
    <3>4. r[1].n \in Nat
      BY <2>3, <3>3, HeardAt
    <3> QED BY <3>1, <3>4 DEF HeardOf
  <2> HIDE DEF r
  <2>9. Capped(r, s, 0)
    BY <2>6, <2>7, <2>8 DEF Capped
  <2> QED BY <2>9 DEF r
<1> QED BY <1>1, <1>2

\* The next frame to be sent is the one after those that have been.
LEMMA NextFrame ==
  ASSUME TypeOK, OrderInv, OutputInv, sender = "pacing", IsCurrent(packet)
  PROVE  /\ output \in Streams /\ packet.stream = output /\ packet.data \in Nat
         /\ 0 < packet.data /\ packet.data <= sent[output] + 1
<1> DEFINE d == packet.data  k == sent[output]
<1>1. output # None /\ packet.stream = output /\ output \in Streams
  BY DEF IsCurrent, TypeOK, GatewayTypeOK
<1>2. Holds(output) /\ HeldOrdered(output) /\ Accounted(output)
  BY <1>1 DEF Holds, OrderInv, InOrder, OutputInv
<1>3. /\ d # EndMarker /\ d <= framed[output]
      /\ \A j \in DOMAIN queue : queue[j].stream = output => Before(d, queue[j].data)
  BY <1>2 DEF HeldOrdered
<1>4. d \in Nat /\ k \in Nat /\ framed[output] \in Nat /\ 0 < d
  BY <1>1, <1>3 DEF TypeOK, GatewayTypeOK, Packet, NoPacket, Counter, EndMarker
<1>5. Taken(output) = k + 1
  BY <1>1 DEF Taken, Handled
<1>6. ASSUME k + 1 < d PROVE FALSE
  <2>1. d \in 1 .. framed[output]
    BY <1>3, <1>4
  <2>2. PICK i \in DOMAIN queue : queue[i].stream = output /\ queue[i].data = d
    BY <1>2, <1>5, <1>6, <2>1 DEF Accounted
  <2>3. Before(d, d)
    BY <1>3, <2>2
  <2> QED BY <1>3, <1>4, <2>3 DEF Before
<1>7. d <= k + 1
  BY <1>4, <1>6
<1> QED BY <1>1, <1>4, <1>7

\* What a step adds to what has been sent.
LEMMA OutStep ==
  ASSUME TypeOK, OrderInv, OutputInv, [Next]_vars
  PROVE  \/ /\ \A s \in Streams : Out(s)' = Out(s)
            /\ ~(SendFrame /\ toDevice' # toDevice)
         \/ /\ output \in Streams
            /\ Out(output) = sent[output] /\ sent[output] \in Nat
            /\ sent[output] < played[output] + Lead
            /\ \A s \in Streams : Out(s)' = Out(s) + (IF s = output THEN 1 ELSE 0)
            /\ 0 < packet.data /\ packet.data <= sent[output] + 1 /\ packet.data \in Nat
            /\ Send("frame", output, packet.data)
            /\ UNCHANGED <<deviceVars, played>>
<1>1. CASE UNCHANGED <<sent, sender, packet>>
  <2>1. ~(SendFrame /\ toDevice' # toDevice)
    BY <1>1 DEF SendFrame
  <2> QED BY <1>1, <2>1 DEF Out
<1>2. CASE SendFrame /\ UNCHANGED deviceVars
  <2>1. CASE ~IsCurrent(packet) \/ ~(sent[output] < played[output] + Lead)
    BY <1>2, <2>1 DEF SendFrame, streamVars, Out
  <2>2. CASE IsCurrent(packet) /\ sent[output] < played[output] + Lead
    <3>1. /\ output \in Streams /\ packet.stream = output /\ packet.data \in Nat
          /\ 0 < packet.data /\ packet.data <= sent[output] + 1
      BY <1>2, <2>2, NextFrame DEF SendFrame
    <3>2. sent[output] \in Nat /\ \A s \in Streams : sent[s] \in Nat
      BY <3>1 DEF TypeOK, GatewayTypeOK, Counter
    <3>3. /\ sender = "pacing" /\ sender' = "sending" /\ packet' = packet /\ sent' = sent
          /\ Send("frame", output, packet.data) /\ played' = played
      BY <1>2, <2>2, <3>1 DEF SendFrame, streamVars
    <3>4. \A s \in Streams : Out(s)' = Out(s) + (IF s = output THEN 1 ELSE 0)
      BY <3>1, <3>2, <3>3 DEF Out
    <3>5. Out(output) = sent[output]
      BY <3>2, <3>3 DEF Out
    <3> QED BY <1>2, <2>2, <3>1, <3>2, <3>3, <3>4, <3>5
  <2> QED BY <2>1, <2>2
<1>3. CASE TakePacket
  BY <1>3 DEF TakePacket, SendFrame, streamVars, Out
<1>4. CASE EndSent \/ CapacityAwaited
  BY <1>4 DEF EndSent, CapacityAwaited, SendFrame, streamVars, Out
<1>5. CASE FrameSent
  <2>1. \A s \in Streams : sent[s] \in Nat
    BY DEF TypeOK, GatewayTypeOK, Counter
  <2>2. ASSUME NEW s \in Streams
        PROVE  sent'[s] = sent[s] + (IF packet.stream = s THEN 1 ELSE 0)
    <3>1. sent \in [Streams -> Nat] /\ sent' = [sent EXCEPT ![packet.stream] = @ + 1]
      BY <1>5 DEF FrameSent, TypeOK, GatewayTypeOK, Counter
    <3>2. CASE packet.stream = s
      BY <3>1, <3>2
    <3>3. CASE packet.stream # s
      BY <2>1, <3>1, <3>3
    <3> QED BY <3>2, <3>3
  <2>3. sender = "sending" /\ sender' = "get" /\ ~SendFrame
    BY <1>5 DEF FrameSent, SendFrame
  <2> QED BY <2>1, <2>2, <2>3 DEF Out
<1>6. UNCHANGED <<sent, sender, packet>> \/ (Sender /\ UNCHANGED deviceVars)
  BY Zenon DEF Next, GatewayStep, Reader, StartStream, AppendDelta, StartSent, StreamAnnounced,
       TransportError, OutputAudioDone, ResponseDone, SpeechStarted, Truncate, Interrupted,
       SpeechStopped, CloudError, Watchdog, WatchdogFlush, WatchdogComplete, streamVars, taskVars,
       ReceiveProgress, PlaybackProgress, gatewayVars, vars
<1> QED BY <1>1, <1>2, <1>3, <1>4, <1>5, <1>6 DEF Sender

\* Every frame on the wire or in the device has a number that has been sent.
LEMMA NumbersStep ==
  ASSUME SystemInv, TypeOK', OutputInv, NumbersOK, [Next]_vars
  PROVE  NumbersOK'
<1>0. /\ toDevice \in Seq(Message) /\ TypeOK /\ OrderInv /\ Streams \subseteq Nat
      /\ \A s \in Streams : Out(s) \in Nat /\ Out(s)' \in Nat
  <2>1. toDevice \in Seq(Message) /\ TypeOK /\ OrderInv /\ Streams \subseteq Nat
    BY StreamsAssumption DEF SystemInv, TypeOK, GatewayTypeOK, Streams
  <2>2. sent \in [Streams -> Nat] /\ sent' \in [Streams -> Nat]
    BY <2>1 DEF TypeOK, GatewayTypeOK, Counter
  <2>3. \A s \in Streams : sent[s] \in Nat /\ sent'[s] \in Nat
    BY <2>2
  <2> QED BY <2>1, <2>3 DEF Out
<1>1. \A s \in Streams : Out(s) <= Out(s)'
  BY <1>0, OutStep
<1>2. ASSUME NEW f \in Heard \cup Message, Numbered(f)
      PROVE  f.stream # None => 0 < f.n /\ \A s \in Streams : f.stream = s => f.n <= Out(s)'
  <2>1. f.n \in Nat
    BY DEF Heard, Message
  <2>2. ASSUME NEW s \in Streams, f.stream = s, f.stream # None PROVE f.n <= Out(s)'
    <3>1. f.n <= Out(s)
      BY <1>2, <2>2 DEF Numbered
    <3> QED BY <1>0, <1>1, <2>1, <3>1
  <2> QED BY <1>2, <2>2 DEF Numbered
<1>3. ASSUME NEW k \in FramesOnWire'
      PROVE  0 < toDevice'[k].n
             /\ \A s \in Streams : toDevice'[k].stream = s => toDevice'[k].n <= Out(s)'
  <2>0. k \in DOMAIN toDevice' /\ toDevice'[k].kind = "frame"
    BY DEF FramesOnWire
  <2>1. ASSUME NEW j \in DOMAIN toDevice, toDevice'[k] = toDevice[j]
        PROVE  0 < toDevice'[k].n
               /\ \A s \in Streams : toDevice'[k].stream = s => toDevice'[k].n <= Out(s)'
    <3>1. j \in FramesOnWire /\ toDevice[j] \in Message
      BY <1>0, <2>0, <2>1 DEF FramesOnWire
    <3>2. Numbered(toDevice[j]) /\ toDevice[j].stream # None
      BY <3>1 DEF NumbersOK, Message, Streams, None
    <3> QED BY <1>2, <2>1, <3>1, <3>2
  <2>2. CASE UNCHANGED toDevice
    BY <2>0, <2>1, <2>2
  <2>3. CASE toDevice # <<>> /\ toDevice' = Tail(toDevice)
    <3>1. k + 1 \in DOMAIN toDevice /\ toDevice'[k] = toDevice[k + 1]
      BY <1>0, <2>0, <2>3
    <3> QED BY <2>1, <3>1
  <2>4. ASSUME NEW m \in Message, toDevice' = Append(toDevice, m),
               m.kind = "frame" => SendFrame
        PROVE  0 < toDevice'[k].n
               /\ \A s \in Streams : toDevice'[k].stream = s => toDevice'[k].n <= Out(s)'
    <3>1. (\E j \in DOMAIN toDevice : toDevice'[k] = toDevice[j])
          \/ (k = Len(toDevice) + 1 /\ toDevice'[k] = m)
      BY <1>0, <2>0, <2>4
    <3>2. CASE k = Len(toDevice) + 1 /\ toDevice'[k] = m
      <4>1. SendFrame /\ toDevice' # toDevice
        BY <1>0, <2>0, <2>4, <3>2
      <4>2. /\ output \in Streams /\ Out(output) = sent[output] /\ sent[output] \in Nat
            /\ \A s \in Streams : Out(s)' = Out(s) + (IF s = output THEN 1 ELSE 0)
            /\ 0 < packet.data /\ packet.data <= sent[output] + 1 /\ packet.data \in Nat
            /\ Send("frame", output, packet.data)
        BY <1>0, <4>1, OutStep
      <4> DEFINE x == [kind |-> "frame", stream |-> output, n |-> packet.data]
      <4>3. toDevice' = Append(toDevice, x) /\ x.stream = output /\ x.n = packet.data
        BY <4>2 DEF Send
      <4> HIDE DEF x
      <4>4. toDevice'[k] = x
        BY <1>0, <3>2, <4>3
      <4>5. ASSUME NEW s \in Streams, output = s PROVE packet.data <= Out(s)'
        BY <4>2, <4>5
      <4> QED BY <4>2, <4>3, <4>4, <4>5
    <3> QED BY <2>1, <3>1, <3>2
  <2> QED BY <1>0, <2>2, <2>3, <2>4, WireStep
<1>4. ASSUME NEW i \in DOMAIN Pipeline', Pipeline'[i].stream # None
      PROVE  0 < Pipeline'[i].n
             /\ \A s \in Streams : Pipeline'[i].stream = s => Pipeline'[i].n <= Out(s)'
  <2> DEFINE p == Pipeline  r == Pipeline'
  <2>1. p \in Seq(Heard)
    BY <1>0, PipelineStep
  <2>2. \A j \in DOMAIN p : p[j] \in Heard /\ Numbered(p[j])
    BY <2>1 DEF NumbersOK
  <2>3. CASE Shrinks(p, r)
    <3>1. PICK j \in DOMAIN p : r[i] = p[j]
      BY <2>3 DEF Shrinks
    <3> QED BY <1>2, <1>4, <2>2, <3>1
  <2>4. ASSUME NEW f \in Frame, toDevice # <<>>, toDevice[1].kind = "frame",
               f.stream = toDevice[1].stream, f.n = toDevice[1].n, r = Append(p, f)
        PROVE  0 < r[i].n /\ \A s \in Streams : r[i].stream = s => r[i].n <= Out(s)'
    <3>1. 1 \in FramesOnWire
      BY <1>0, <2>4 DEF FramesOnWire
    <3>2. f \in Heard /\ Numbered(f)
      BY <2>4, <3>1 DEF NumbersOK, Numbered, Frame, Heard
    <3> HIDE DEF p, r
    <3>3. (\E j \in DOMAIN p : r[i] = p[j]) \/ r[i] = f
      BY <1>4, <2>1, <2>4, <3>2 DEF r
    <3>4. r[i] \in Heard /\ Numbered(r[i])
      BY <2>2, <3>2, <3>3
    <3>5. r[i].stream # None
      BY <1>4 DEF r
    <3> QED BY <1>2, <3>4, <3>5
  <2> QED BY <1>0, <2>3, <2>4, PipelineStep
<1>5. ASSUME NEW k \in FramesOnWire' PROVE Numbered(toDevice[k])'
  BY <1>3 DEF Numbered
<1>6. ASSUME NEW i \in DOMAIN Pipeline' PROVE Numbered(Pipeline[i])'
  BY <1>4 DEF Numbered
<1> QED BY <1>5, <1>6 DEF NumbersOK

\* Fewer frames are capped by what caps more.
LEMMA CappedLess ==
  ASSUME NEW p \in Seq(Heard), p # <<>>, NEW s \in Nat, NEW x \in Nat, NEW y \in Nat, x <= y,
         Capped(p, s, y)
  PROVE  Capped(p, s, x)
<1>0. /\ DOMAIN p = 1 .. Len(p) /\ Len(p) \in Nat
      /\ \A i \in DOMAIN p : p[i].n \in Nat /\ p[i].stream \in Nat
  BY HeardAt
<1>1. Slack \in Nat /\ HeardOf(p, s) \in Nat
  <2>1. 1 \in DOMAIN p
    BY <1>0
  <2> QED BY <1>0, <2>1, DeviceAssumption DEF Slack, HeardOf
<1>2. ASSUME ~(s < p[1].stream)
      PROVE  /\ x <= HeardOf(p, s) + Slack
             /\ \A i \in DOMAIN p : p[i].stream < s => x + i <= Slack + 1
  <2>1. /\ y <= HeardOf(p, s) + Slack
        /\ \A i \in DOMAIN p : p[i].stream < s => y + i <= Slack + 1
    BY <1>2 DEF Capped
  <2> QED BY <1>0, <1>1, <2>1
<1> QED BY <1>2 DEF Capped

LEMMA CapStep ==
  ASSUME SystemInv, TypeOK', StartInv, [Next]_vars, NEW s \in Streams, NEW x \in Nat, Cap(s, x)
  PROVE  Cap(s, x)'
<1>1. CASE x = 0
  BY <1>1 DEF Cap
<1>2. CASE Arrived(s) /\ Capped(Pipeline, s, x)
  <2>1. Arrived(s)' /\ Capped(Pipeline', s, x)
    BY <1>2, CapKept
  <2> QED BY <2>1 DEF Cap
<1> QED BY <1>1, <1>2 DEF Cap

\* What a step does to the device's count.
LEMMA CountChange ==
  ASSUME [Next]_vars
  PROVE  \/ streamId' = None \/ webSocket' = "starting" \/ playedFrames' = 0
         \/ DacOutput /\ playedFrames' = playedFrames + 1 /\ UNCHANGED <<streamId, webSocket>>
         \/ UNCHANGED <<streamId, playedFrames>> /\ webSocket # "starting"
<1>1. UNCHANGED <<streamId, playedFrames, webSocket>> \/ DeviceStep
  BY Zenon DEF Next, ReceiveProgress, vars, deviceVars, streamIdVars, countVars
<1>2. CASE DeviceStep
  BY <1>2 DEF DeviceStep, WebSocketTask, ReceiveFrame, ReceiveStart, StartPlayback, ReceiveEnd,
         ReceiveFlush, FlushPlayback, Receive, ForgetStream, StopPlayback, MainLoop, PrebufferReady,
         TakeFrame, PlayFrame, ReportProgress, Mute, DacOutput, SpeakerStopped, SendProgress,
         streamIdVars, countVars
<1> QED BY <1>1, <1>2

\* What a step does to the reports and to what the gateway has been told.
LEMMA ReportChange ==
  ASSUME [Next]_vars
  PROVE  /\ stale => stale'
         /\ progress' \in {progress, <<>>} \/ ReportProgress
         /\ \/ toGateway' \in {toGateway, progress}
            \/ toGateway # <<>> /\ toGateway' = Tail(toGateway)
         /\ UNCHANGED played
            \/ (ReceiveProgress /\ toGateway # <<>>)
<1>1. CASE DeviceStep /\ UNCHANGED gatewayVars
  <2>1. UNCHANGED played
    BY <1>1 DEF gatewayVars, streamVars
  <2>2. stale => stale'
    BY <1>1, Zenon DEF DeviceStep, WebSocketTask, ReceiveFrame, ReceiveStart, StartPlayback, ReceiveEnd,
         ReceiveFlush, FlushPlayback, Receive, ForgetStream, StopPlayback, MainLoop, PrebufferReady,
         TakeFrame, PlayFrame, ReportProgress, Mute, DacOutput, SpeakerStopped, SendProgress
  <2>3. progress' = progress \/ progress' = <<>> \/ ReportProgress
    BY <1>1, Zenon DEF DeviceStep, WebSocketTask, ReceiveFrame, ReceiveStart, StartPlayback, ReceiveEnd,
         ReceiveFlush, FlushPlayback, Receive, ForgetStream, StopPlayback, MainLoop, PrebufferReady,
         TakeFrame, PlayFrame, ReportProgress, Mute, DacOutput, SpeakerStopped, SendProgress
  <2>4. toGateway' = toGateway \/ toGateway' = progress
    BY <1>1, Zenon DEF DeviceStep, WebSocketTask, ReceiveFrame, ReceiveStart, StartPlayback, ReceiveEnd,
         ReceiveFlush, FlushPlayback, Receive, ForgetStream, StopPlayback, MainLoop, PrebufferReady,
         TakeFrame, PlayFrame, ReportProgress, Mute, DacOutput, SpeakerStopped, SendProgress
  <2> QED BY <2>1, <2>2, <2>3, <2>4
<1>2. CASE GatewayStep /\ UNCHANGED deviceVars
  <2>1. UNCHANGED played
    BY <1>2, Zenon DEF GatewayStep, Reader, StartStream, AppendDelta, StartSent, StreamAnnounced,
       TransportError, OutputAudioDone, ResponseDone, SpeechStarted, Truncate, Interrupted,
       SpeechStopped, CloudError, Watchdog, WatchdogFlush, WatchdogComplete, Sender, TakePacket,
       SendFrame, EndSent, CapacityAwaited, FrameSent, streamVars
  <2> QED BY <1>2, <2>1 DEF deviceVars
<1>3. CASE ReceiveProgress
  BY <1>3 DEF ReceiveProgress
<1>4. CASE UNCHANGED vars
  BY <1>4 DEF vars, deviceVars, gatewayVars, streamVars
<1> QED BY <1>1, <1>2, <1>3, <1>4 DEF Next

\* What is counted after a step was counted before it, or the DAC has just counted it.
LEMMA CountedWas ==
  ASSUME SystemInv, TypeOK', OutputInv, ~stale', [Next]_vars,
         NEW s \in Streams, NEW x \in Nat, Counted(s, x)'
  PROVE  \/ x = 0
         \/ \E y \in Nat : x <= y /\ Counted(s, y)
         \/ DacOutput /\ streamId = s /\ webSocket # "starting" /\ x = playedFrames + 1
<1>0. /\ s # None /\ Lead \in Nat /\ TypeOK /\ OrderInv /\ x <= x
      /\ progress \in Seq(Report) /\ toGateway \in Seq(Report)
      /\ playedFrames \in Nat
  BY LeadAssumption DEF SystemInv, TypeOK, DeviceTypeOK, Streams, None
<1>1. CASE streamId' = s /\ webSocket' # "starting" /\ playedFrames' = x
  BY <1>0, <1>1, CountChange DEF Counted
<1>2. ASSUME NEW i \in DOMAIN progress', progress'[i].stream = s, progress'[i].played = x
      PROVE  x = 0 \/ Counted(s, x)
  <2>1. CASE progress' \in {progress, <<>>}
    BY <1>2, <2>1 DEF Counted
  <2>2. CASE ReportProgress
    <3>1. /\ progress' = <<[stream |-> streamId, played |-> playedFrames]>>
          /\ ~(webSocket = "starting" /\ playedFrames > 0)
      BY <2>2 DEF ReportProgress, SendPlaybackProgress
    <3>2. progress'[i] = [stream |-> streamId, played |-> playedFrames]
      BY <1>2, <3>1
    <3>3. streamId = s /\ playedFrames = x
      BY <1>2, <3>2
    <3> QED BY <1>0, <3>1, <3>3 DEF Counted
  <2> QED BY <2>1, <2>2, ReportChange
<1>3. ASSUME NEW i \in DOMAIN toGateway', toGateway'[i].stream = s, toGateway'[i].played = x
      PROVE  Counted(s, x)
  <2>1. CASE toGateway' \in {toGateway, progress}
    BY <1>3, <2>1 DEF Counted
  <2>2. CASE toGateway # <<>> /\ toGateway' = Tail(toGateway)
    <3>1. i + 1 \in DOMAIN toGateway /\ toGateway'[i] = toGateway[i + 1]
      BY <1>0, <1>3, <2>2
    <3> QED BY <1>3, <3>1 DEF Counted
  <2> QED BY <2>1, <2>2, ReportChange
<1>4. CASE played'[s] = x
  <2>1. CASE UNCHANGED played
    BY <1>0, <1>4, <2>1 DEF Counted
  <2>2. CASE ReceiveProgress /\ toGateway # <<>>
    <3> DEFINE t == toGateway[1].stream  n == toGateway[1].played
    <3>1. toGateway[1] \in Report /\ toGateway[1] = Head(toGateway) /\ 1 \in DOMAIN toGateway
      BY <1>0, <2>2
    <3>2. t \in Streams /\ n \in Nat
      BY <3>1 DEF Report
    <3>3. played' = played \/ played' = [played EXCEPT ![t] = Minimum(n, sent[t])]
      BY <2>2, <3>1 DEF ReceiveProgress, PlaybackProgress
    <3>4. played \in [Streams -> Nat] /\ sent[t] \in Nat
      BY <1>0, <3>2 DEF TypeOK, GatewayTypeOK, Counter
    <3> HIDE DEF t, n
    <3>5. CASE played'[s] = played[s]
      BY <1>0, <1>4, <3>5 DEF Counted
    <3>6. CASE played'[s] # played[s]
      <4>1. t = s /\ played'[s] = Minimum(n, sent[t])
        BY <3>2, <3>3, <3>4, <3>6
      <4>2. x <= n
        BY <1>4, <3>2, <3>4, <4>1 DEF Minimum
      <4>3. Counted(s, n)
        BY <3>1, <4>1 DEF Counted, t, n
      <4> QED BY <3>2, <4>2, <4>3
    <3> QED BY <3>5, <3>6
  <2> QED BY <2>1, <2>2, ReportChange
<1>5. CASE Out(s)' = x + Lead
  <2>1. CASE Out(s)' = Out(s)
    BY <1>0, <1>5, <2>1 DEF Counted
  <2>2. CASE Out(s)' # Out(s)
    <3>1. Out(s) \in Nat
      <4>1. sent \in [Streams -> Nat]
        BY <1>0 DEF TypeOK, GatewayTypeOK, Counter
      <4>2. sent[s] \in Nat
        BY <4>1
      <4> QED BY <4>2 DEF Out
    <3>2. /\ output = s /\ Out(s) = sent[s] /\ sent[s] < played[s] + Lead
          /\ Out(s)' = Out(s) + 1
      BY <1>0, <2>2, <3>1, OutStep
    <3>3. played[s] \in Nat
      BY <1>0 DEF TypeOK, GatewayTypeOK, Counter
    <3>4. x <= played[s]
      BY <1>0, <1>5, <3>1, <3>2, <3>3
    <3>5. Counted(s, played[s])
      BY DEF Counted
    <3> QED BY <3>3, <3>4, <3>5
  <2> QED BY <2>1, <2>2
<1> QED BY <1>0, <1>1, <1>2, <1>3, <1>4, <1>5 DEF Counted

\* What the DAC puts out moves everything up by one place.
LEMMA DacMoves ==
  ASSUME TypeOK, DacOutput
  PROVE  /\ Len(Pipeline) = Len(Pipeline') + 1
         /\ \A i \in DOMAIN Pipeline' : Pipeline'[i] = Pipeline[i + 1]
<1>1. /\ heard \in Heard /\ speaker \in Seq(Frame) /\ hand \in Seq(Frame)
      /\ frames \in Seq(Frame) /\ speaker # <<>>
      /\ heard' = Head(speaker) /\ speaker' = Tail(speaker) /\ UNCHANGED <<hand, frames>>
  BY DEF TypeOK, DeviceTypeOK, Heard, DacOutput
<1>2. /\ speaker \in Seq(Heard) /\ hand \in Seq(Heard) /\ frames \in Seq(Heard)
  BY <1>1, FramesHeard
<1> DEFINE b == <<heard>> \o speaker  c == b \o hand  rest == hand \o frames
<1>3. <<heard>> \in Seq(Heard) /\ Len(<<heard>>) = 1 /\ <<heard>>[1] = heard
  BY <1>1
<1>4. <<heard'>> \o speaker' = speaker
  BY <1>1, <1>2
<1>5. Pipeline' = speaker \o hand \o frames
  BY <1>1, <1>4 DEF Pipeline
<1> DEFINE h == <<heard>>
<1> HIDE DEF h
<1>6. (h \o speaker) \o hand \o frames = h \o (speaker \o hand \o frames)
  BY <1>2, <1>3 DEF h
<1> DEFINE u == speaker \o hand \o frames
<1>7. u \in Seq(Heard)
  BY <1>2
<1>8. Pipeline = h \o u
  BY <1>6 DEF Pipeline, h
<1> HIDE DEF u
<1>9. h \in Seq(Heard) /\ Len(h) = 1
  BY <1>3 DEF h
<1>10. /\ Len(h \o u) = 1 + Len(u) /\ Len(u) \in Nat
       /\ \A i \in 1 .. Len(u) : (h \o u)[i + 1] = u[i]
  <2>1. ASSUME NEW v \in Seq(Heard), NEW w \in Seq(Heard), Len(v) = 1
        PROVE  /\ Len(v \o w) = 1 + Len(w) /\ Len(w) \in Nat
               /\ \A i \in 1 .. Len(w) : (v \o w)[i + 1] = w[i]
    BY <2>1, JoinAt
  <2> QED BY <1>7, <1>9, <2>1
<1>11. DOMAIN u = 1 .. Len(u)
  BY <1>7
<1> QED BY <1>5, <1>8, <1>10, <1>11, SMTT(30) DEF u

LEMMA CountStep ==
  ASSUME SystemInv, TypeOK', OutputInv, StartInv, RoomOK, NumbersOK, NumbersOK', CountInv,
         ~stale', [Next]_vars
  PROVE  CountInv'
<1> SUFFICES ASSUME NEW s \in Streams, NEW x \in Nat, Counted(s, x)' PROVE Cap(s, x)'
  BY DEF CountInv
<1> DEFINE p == Pipeline  r == Pipeline'
<1>0. /\ p \in Seq(Heard) /\ p # <<>> /\ r \in Seq(Heard) /\ r # <<>> /\ TypeOK
      /\ \A i, j \in DOMAIN p : i < j => Earlier(p[i], p[j])
      /\ s \in Nat /\ s # None
  BY PipelineStep, StreamsAssumption DEF SystemInv, HeldInv, Ascending, Streams, None
<1>1. CASE x = 0
  BY <1>1 DEF Cap
<1>2. ASSUME NEW y \in Nat, x <= y, Counted(s, y), x # 0 PROVE Cap(s, x)'
  <2>1. Arrived(s) /\ Capped(p, s, y)
    <3>1. Cap(s, y) /\ y # 0
      BY <1>2 DEF CountInv
    <3> QED BY <3>1 DEF Cap
  <2>2. Capped(p, s, x)
    <3> HIDE DEF p, r
    <3> QED BY <1>0, <1>2, <2>1, CappedLess
  <2>3. Cap(s, x)
    BY <2>1, <2>2 DEF Cap
  <2> QED BY <2>3, CapStep
<1>3. CASE DacOutput /\ streamId = s /\ webSocket # "starting" /\ x = playedFrames + 1
  <2> DEFINE y == playedFrames
  <2>1. y \in Nat /\ Arrived(s)
    <3>1. Arrived(streamId)
      BY <1>0, <1>3 DEF StartInv
    <3> QED BY <1>0, <1>3, <3>1 DEF TypeOK, DeviceTypeOK
  <2>2. Cap(s, y)
    BY <1>3, <2>1 DEF CountInv, Counted
  <2>3. Capped(p, s, y)
    BY <2>1, <2>2 DEF Cap, RoomOK
  <2>4. r[1].n > 0
    <3>1. 1 \in DOMAIN r
      BY <1>0
    <3>2. heard' \in Frame
      BY <1>0, <1>3 DEF DacOutput, TypeOK, DeviceTypeOK
    <3>3. heard'.stream # None /\ heard'.n \in Nat
      BY <3>2 DEF Frame, Streams, None
    <3>4. r[1] = heard'
      <4>1. /\ heard' \in Heard /\ speaker' \in Seq(Frame) /\ hand' \in Seq(Frame)
            /\ frames' \in Seq(Frame)
        BY DEF TypeOK, DeviceTypeOK, Heard
      <4> QED BY <4>1, JoinedLength DEF Pipeline
    <3>5. Numbered(Pipeline[1])'
      BY <3>1 DEF NumbersOK
    <3> QED BY <3>3, <3>4, <3>5 DEF Numbered
  <2>5. Len(p) = Len(r) + 1 /\ \A i \in DOMAIN r : r[i] = p[i + 1]
    BY <1>0, <1>3, DacMoves
  <2>6. Capped(r, s, y + 1)
    <3> HIDE DEF p, r, y
    <3> QED BY <1>0, <2>1, <2>3, <2>4, <2>5, CappedPlays
  <2>7. Arrived(s)'
    BY <2>1, ArrivedKept DEF SystemInv
  <2> QED BY <1>3, <2>6, <2>7 DEF Cap
<1> QED BY <1>1, <1>2, <1>3, CountedWas

\* The device never holds more of what has started than the lead, and what the lead does
\* not allow for: p is what it holds, or that and the frame that arrives.
LEMMA NotTooMany ==
  ASSUME CountInv, NumbersOK, NEW p \in Seq(Heard), p # <<>>,
         \A i, j \in DOMAIN p : i < j => Earlier(p[i], p[j]),
         \A i \in DOMAIN p : 1 < i => p[i].stream # None /\ Numbered(p[i]),
         NEW s \in Streams, p[Len(p)].stream = s, TypeOK,
         \A x \in Nat : Capped(Pipeline, s, x) => Capped(p, s, x),
         Arrived(s), RoomOK
  PROVE  Len(p) <= Lead + Slack + 1
<1> DEFINE m == Len(p)
<1>0. /\ DOMAIN p = 1 .. m /\ m \in Nat /\ m \in DOMAIN p
      /\ \A i \in DOMAIN p : p[i].n \in Nat /\ p[i].stream \in Nat
  <2>1. m # 0
    OBVIOUS
  <2> QED BY <2>1, HeardAt
<1>1. Lead \in Nat /\ Slack \in Nat
  BY LeadAssumption, DeviceAssumption DEF Slack
<1>2. Out(s) \in Nat
  <2>1. sent \in [Streams -> Nat]
    BY DEF TypeOK, GatewayTypeOK, Counter
  <2>2. sent[s] \in Nat
    BY <2>1
  <2> QED BY <2>2 DEF Out
<1>3. CASE ~(1 < m)
  BY <1>0, <1>1, <1>3
<1>4. CASE 1 < m
  <2> DEFINE x == Out(s)
  <2>1. p[m].n <= x
    BY <1>0, <1>4 DEF Numbered
  <2>2. \A i \in DOMAIN p : 1 < i => p[i].n > 0
    BY <1>0 DEF Numbered
  <2>3. Capped(p, s, 0)
    BY DEF RoomOK
  <2>4. x <= Lead \/ (Lead <= x /\ Capped(p, s, x - Lead))
    <3> SUFFICES ASSUME ~(x <= Lead) PROVE Lead <= x /\ Capped(p, s, x - Lead)
      OBVIOUS
    <3> DEFINE y == x - Lead
    <3>1. y \in Nat /\ x = y + Lead /\ y # 0 /\ Lead <= x
      BY <1>1, <1>2
    <3>2. Counted(s, y)
      BY <3>1 DEF Counted
    <3> HIDE DEF y
    <3>3. Cap(s, y)
      BY <3>1, <3>2 DEF CountInv
    <3>4. Capped(p, s, y)
      BY <3>1, <3>3 DEF Cap
    <3> QED BY <3>1, <3>4 DEF y
  <2> HIDE DEF x, m
  <2>5. p[m].stream = s
    BY DEF m
  <2>6. Capped(p, p[m].stream, 0)
        /\ (x <= Lead \/ (Lead <= x /\ Capped(p, p[m].stream, x - Lead)))
    BY <2>3, <2>4, <2>5
  <2>7. x \in Nat
    BY <1>2 DEF x
  <2>8. m <= Lead + Slack + 1
    BY <1>0, <1>4, <2>1, <2>2, <2>6, <2>7, NotFarAhead
  <2> QED BY <2>8 DEF m
<1> QED BY <1>3, <1>4

LEMMA HeldNotTooMany ==
  ASSUME SystemInv, StartInv, RoomOK, NumbersOK, CountInv
  PROVE  Len(Unplayed) <= Lead + SpeakerBuffer + 1
<1> DEFINE p == Pipeline
<1>0. /\ p \in Seq(Heard) /\ p # <<>>
      /\ \A i, j \in DOMAIN p : i < j => Earlier(p[i], p[j])
  <2>1. /\ heard \in Heard /\ speaker \in Seq(Frame) /\ hand \in Seq(Frame)
        /\ frames \in Seq(Frame)
    BY DEF SystemInv, TypeOK, DeviceTypeOK, Heard
  <2> QED BY <2>1, PipelineNotEmpty DEF Pipeline, SystemInv, HeldInv, Ascending
<1>1. Len(p) = 1 + Len(Unplayed) /\ Len(Unplayed) \in Nat
  <2>1. Len(speaker) \in Nat /\ Len(hand) \in Nat /\ Len(frames) \in Nat
    BY DEF SystemInv, TypeOK, DeviceTypeOK
  <2> QED BY <2>1, PipelineLength DEF SystemInv
<1>2. Lead \in Nat /\ SpeakerBuffer \in Nat /\ Slack = SpeakerBuffer + 1
  BY LeadAssumption, DeviceAssumption DEF Slack
<1>3. CASE Len(p) = 1
  <2> DEFINE u == Len(Unplayed)  m == Len(p)
  <2>1. m = 1 + u /\ u \in Nat /\ m = 1
    BY <1>1, <1>3
  <2> HIDE DEF m, u
  <2>2. u <= Lead + SpeakerBuffer + 1
    BY <1>2, <2>1
  <2> QED BY <2>2 DEF u
<1>4. CASE Len(p) # 1
  <2>1. \A i \in DOMAIN p : 1 < i => p[i].stream \in Streams /\ Arrived(p[i].stream)
    BY HeldArrived
  <2>2. \A i \in DOMAIN p : 1 < i => p[i].stream # None /\ Numbered(p[i])
    BY <2>1 DEF NumbersOK, Streams, None
  <2>3. Len(p) \in DOMAIN p /\ 1 < Len(p)
    BY <1>0, <1>1, <1>4
  <2>4. Len(p) <= Lead + Slack + 1
    <3>1. TypeOK /\ \A s \in Streams, x \in Nat : Capped(Pipeline, s, x) => Capped(p, s, x)
      BY DEF SystemInv
    <3> HIDE DEF p
    <3> QED BY <1>0, <2>1, <2>2, <2>3, <3>1, NotTooMany
  <2> QED BY <1>1, <1>2, <2>4
<1> QED BY <1>3, <1>4

LEMMA ArrivalNotTooMany ==
  ASSUME SystemInv, StartInv, RoomOK, NumbersOK, CountInv, toDevice # <<>>,
         toDevice[1].kind = "frame"
  PROVE  Len(Unplayed) + 1 <= Lead + SpeakerBuffer + 1
<1> DEFINE p == Pipeline
           f == [stream |-> toDevice[1].stream, n |-> toDevice[1].n]
           q == Append(p, f)
           s == toDevice[1].stream
<1>0. /\ p \in Seq(Heard) /\ p # <<>>
      /\ \A i, j \in DOMAIN p : i < j => Earlier(p[i], p[j])
      /\ toDevice \in Seq(Message) /\ TypeOK
  <2>1. /\ heard \in Heard /\ speaker \in Seq(Frame) /\ hand \in Seq(Frame)
        /\ frames \in Seq(Frame) /\ toDevice \in Seq(Message)
    BY DEF SystemInv, TypeOK, DeviceTypeOK, GatewayTypeOK, Heard
  <2> QED BY <2>1, PipelineNotEmpty DEF Pipeline, SystemInv, HeldInv, Ascending
<1>1. 1 \in DOMAIN toDevice /\ 1 \in FramesOnWire /\ toDevice[1] \in Message
  BY <1>0 DEF FramesOnWire
<1>2. /\ f \in Heard /\ s \in Streams /\ s \in Nat /\ s # None /\ f.stream = s
      /\ f.n = toDevice[1].n
  BY <1>1, StreamsAssumption DEF Message, Heard, Streams, None
<1>3. Len(p) = 1 + Len(Unplayed) /\ Len(Unplayed) \in Nat
  <2>1. Len(speaker) \in Nat /\ Len(hand) \in Nat /\ Len(frames) \in Nat
    BY DEF SystemInv, TypeOK, DeviceTypeOK
  <2> QED BY <2>1, PipelineLength DEF SystemInv
<1>4. Lead \in Nat /\ SpeakerBuffer \in Nat /\ Slack = SpeakerBuffer + 1
  BY LeadAssumption, DeviceAssumption DEF Slack
<1>5. Arrived(s)
  <2>1. s <= created
    BY <1>1 DEF SystemInv, OrderInv, NothingBeyond
  <2>2. ASSUME NEW k \in DOMAIN toDevice, toDevice[k].kind = "start", toDevice[k].stream = s
        PROVE  FALSE
    <3>1. k \in Nat /\ 1 < k
      BY <1>0, <2>2
    <3>2. MayFollow(toDevice[1], toDevice[k])
      BY <1>1, <3>1 DEF SystemInv, OrderInv, WireInOrder
    <3> QED BY <1>2, <2>2, <3>2 DEF MayFollow
  <2> QED BY <2>1, <2>2 DEF Arrived, Coming
<1>6. \A i \in DOMAIN p : Earlier(p[i], f)
  <2>1. \A i \in DOMAIN p : Earlier(p[i], toDevice[1])
    BY <1>1 DEF SystemInv, HeldInv
  <2> QED BY <1>2, <2>1 DEF Earlier
<1>7. Numbered(f)
  BY <1>1, <1>2 DEF NumbersOK, Numbered
<1>8. \A i \in DOMAIN p : 1 < i => p[i].stream # None /\ Numbered(p[i])
  BY HeldArrived DEF NumbersOK, Streams, None
<1> HIDE DEF f
<1>9. \A x \in Nat : Capped(Pipeline, s, x) => Capped(q, s, x)
  <2>1. ~(f.stream < s)
    BY <1>2
  <2> QED BY <1>0, <1>2, <2>1, CappedAppend
<1> HIDE DEF p
<1>10. /\ q \in Seq(Heard) /\ q # <<>> /\ Len(q) = Len(p) + 1 /\ q[Len(q)] = f
       /\ \A i \in DOMAIN q : (i \in DOMAIN p /\ q[i] = p[i]) \/ (i = Len(p) + 1 /\ q[i] = f)
       /\ \A i \in DOMAIN p : i \in Nat /\ i <= Len(p)
  <2>1. DOMAIN p = 1 .. Len(p) /\ Len(p) \in Nat
    BY <1>0, HeardAt
  <2>2. q \in Seq(Heard) /\ q # <<>> /\ Len(q) = Len(p) + 1 /\ DOMAIN q = 1 .. Len(p) + 1
    BY <1>0, <1>2
  <2>3. \A i \in 1 .. Len(p) : q[i] = p[i]
    BY <1>0, <1>2
  <2>4. q[Len(p) + 1] = f
    BY <1>0, <1>2
  <2> HIDE DEF q
  <2> QED BY <2>1, <2>2, <2>3, <2>4
<1> HIDE DEF q
<1>11. \A i, j \in DOMAIN q : i < j => Earlier(q[i], q[j])
  <2> SUFFICES ASSUME NEW i \in DOMAIN q, NEW j \in DOMAIN q, i < j PROVE Earlier(q[i], q[j])
    OBVIOUS
  <2>1. i \in DOMAIN p /\ q[i] = p[i]
    BY <1>0, <1>10
  <2> QED BY <1>0, <1>6, <1>10, <2>1
<1>12. \A i \in DOMAIN q : 1 < i => q[i].stream # None /\ Numbered(q[i])
  BY <1>2, <1>7, <1>8, <1>10
<1>13. q[Len(q)].stream = s
  BY <1>2, <1>10
<1> HIDE DEF s
<1>14. Len(q) <= Lead + Slack + 1
  BY <1>0, <1>2, <1>5, <1>9, <1>10, <1>11, <1>12, <1>13, NotTooMany
<1>15. Len(p) = 1 + Len(Unplayed)
  BY <1>3
<1> QED BY <1>3, <1>4, <1>10, <1>14, <1>15

\* No frame finds the playback queue full.
LEMMA DroppedStep ==
  ASSUME SystemInv, StartInv, RoomOK, NumbersOK, CountInv, NoneDropped, [Next]_vars
  PROVE  NoneDropped'
<1> SUFFICES ASSUME Lead + SpeakerBuffer < DeviceQueue PROVE dropped' = 0
  BY DEF NoneDropped
<1>0. /\ Lead \in Nat /\ SpeakerBuffer \in Nat /\ DeviceQueue \in Nat /\ dropped = 0
      /\ Len(speaker) \in Nat /\ Len(hand) \in Nat /\ Len(frames) \in Nat
      /\ Len(Unplayed) = Len(speaker) + Len(hand) + Len(frames)
  BY LeadAssumption, DeviceAssumption, PipelineLength
     DEF NoneDropped, SystemInv, TypeOK, DeviceTypeOK
<1>1. CASE ReceiveFrame
  <2>1. toDevice # <<>> /\ toDevice[1].kind = "frame"
    BY <1>1 DEF ReceiveFrame, Receive, SystemInv, TypeOK, GatewayTypeOK
  <2>2. Len(Unplayed) + 1 <= Lead + SpeakerBuffer + 1
    BY <2>1, ArrivalNotTooMany
  <2>3. Len(frames) < DeviceQueue
    BY <1>0, <2>2
  <2> QED BY <1>0, <1>1, <2>3 DEF ReceiveFrame
<1>2. CASE PlayFrame
  <2>1. Len(Unplayed) <= Lead + SpeakerBuffer + 1
    BY HeldNotTooMany
  <2>2. Len(hand) # 0
    BY <1>2 DEF PlayFrame, SystemInv, TypeOK, DeviceTypeOK
  <2>3. Len(frames) < DeviceQueue
    BY <1>0, <2>1, <2>2
  <2> QED BY <1>0, <1>2, <2>3 DEF PlayFrame
<1>3. dropped' = dropped \/ ReceiveFrame \/ PlayFrame
  BY Zenon DEF Next, DeviceStep, WebSocketTask, ReceiveStart, StartPlayback, ReceiveEnd,
       ReceiveFlush, FlushPlayback, MainLoop, PrebufferReady, TakeFrame, ReportProgress, Mute,
       DacOutput, SpeakerStopped, SendProgress, ReceiveProgress, deviceVars, vars
<1> QED BY <1>0, <1>1, <1>2, <1>3

LEMMA AheadStep ==
  ASSUME SystemInv, TypeOK', AheadInv, [Next]_vars
  PROVE  AheadInv'
<1>1. OutputInv' /\ StartInv' /\ RoomOK' /\ NumbersOK'
  BY SystemOutputStep, StartsKept, RoomStep, NumbersStep DEF AheadInv, SystemInv
<1>2. ASSUME ~stale' PROVE CountInv' /\ NoneDropped'
  <2>1. ~stale
    BY <1>2, ReportChange
  <2> QED BY <1>1, <1>2, <2>1, CountStep, DroppedStep DEF AheadInv
<1> QED BY <1>1, <1>2 DEF AheadInv

LEMMA AheadInit == Init => AheadInv
<1> SUFFICES ASSUME Init PROVE AheadInv
  OBVIOUS
<1> DEFINE x == [stream |-> None, n |-> 0]
<1>1. /\ toDevice = <<>> /\ created = 0 /\ streamId = None /\ progress = <<>> /\ toGateway = <<>>
      /\ dropped = 0 /\ sender = "get" /\ heard = x /\ speaker = <<>> /\ hand = <<>> /\ frames = <<>>
  BY DEF Init, GatewayInit, DeviceInit
<1>2. Pipeline = <<x>> /\ x.stream = None
  BY <1>1 DEF Pipeline
<1>3. OutputInv
  BY OutputInit DEF Init
<1>4. \A s \in Streams : ~Coming(s) /\ ~Arrived(s) /\ s \in Nat /\ s # None
  BY <1>1, StreamsAssumption DEF Coming, Arrived, Streams, None
<1>5. StartInv
  BY <1>1, <1>4 DEF StartInv, FramesOnWire
<1>6. RoomOK
  BY <1>4 DEF RoomOK
<1>7. NumbersOK
  BY <1>1, <1>2 DEF NumbersOK, Numbered, FramesOnWire
<1>8. \A s \in Streams : played[s] = 0 /\ Out(s) = 0
  BY <1>1 DEF Init, GatewayInit, Out
<1>9. CountInv
  <2> SUFFICES ASSUME NEW s \in Streams, NEW y \in Nat, Counted(s, y) PROVE y = 0
    BY DEF CountInv, Cap
  <2> QED BY <1>1, <1>4, <1>8, LeadAssumption DEF Counted
<1> QED BY <1>1, <1>3, <1>5, <1>6, <1>7, <1>9 DEF AheadInv, NoneDropped

LEMMA AheadInvariant == Spec => []AheadInv
<1>1. Init => AheadInv
  BY AheadInit
<1>2. SystemInv /\ SystemInv' /\ AheadInv /\ [Next]_vars => AheadInv'
  BY AheadStep DEF SystemInv
<1> QED BY <1>1, <1>2, SystemInvariant, PTL DEF Spec

\* The gateway's pacing by reported progress keeps a fixed playback queue from overrunning:
\* however the sender's wait, the reports in their one slot and on the way, the two steps
\* of playback.start and of playback.flush, and a frame the loop puts back interleave.
THEOREM NeverOverruns == Spec => []NoOverrun
<1>1. SystemInv /\ AheadInv => NoOverrun
  BY HeldNotTooMany DEF AheadInv, NoneDropped, NoOverrun
<1> QED BY <1>1, SystemInvariant, AheadInvariant, PTL

=============================================================================
