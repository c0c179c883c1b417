---------------------------- MODULE PlaybackSystem ----------------------------
(***************************************************************************)
(* The gateway's playback and the device's, joined by the WebSocket.       *)
(***************************************************************************)
EXTENDS PlaybackGateway, PlaybackDevice

vars == <<gatewayVars, toDevice, deviceVars>>

Init == GatewayInit /\ DeviceInit

\* device_socket reads a playback.progress message.
ReceiveProgress ==
  /\ toGateway # <<>> /\ toGateway' = Tail(toGateway)
  /\ PlaybackProgress(Head(toGateway).stream, Head(toGateway).played)
  /\ UNCHANGED <<frames, streamIdVars, countVars, progress, hand, speakerVars, webSocket,
                 mutes, dropped, stale>>

Next ==
  \/ GatewayStep /\ UNCHANGED deviceVars
  \/ DeviceStep /\ UNCHANGED gatewayVars
  \/ ReceiveProgress

Spec == Init /\ [][Next]_vars

(***************************************************************************)
(* Fairness: a coroutine whose send has been taken is resumed, and a task  *)
(* or a stage of the main loop with something to do does it in the end.    *)
(* Nothing is assumed of the cloud, the user or the mute switch.           *)
(***************************************************************************)
Fairness ==
  /\ WF_vars((StartSent \/ StreamAnnounced \/ TransportError \/ Truncate \/ Interrupted)
             /\ UNCHANGED deviceVars)
  /\ WF_vars(Sender /\ UNCHANGED deviceVars)
  /\ WF_vars(Watchdog /\ UNCHANGED deviceVars)
  /\ WF_vars(ReceiveProgress)
  /\ WF_vars(WebSocketTask /\ UNCHANGED gatewayVars)
  /\ WF_vars((TakeFrame \/ PlayFrame) /\ UNCHANGED gatewayVars)
  /\ WF_vars(PrebufferReady /\ UNCHANGED gatewayVars)
  /\ WF_vars(ReportProgress /\ UNCHANGED gatewayVars)
  /\ WF_vars(DacOutput /\ UNCHANGED gatewayVars)
  /\ WF_vars(SendProgress /\ UNCHANGED gatewayVars)

FairSpec == Spec /\ Fairness

TypeOK == GatewayTypeOK /\ DeviceTypeOK

-----------------------------------------------------------------------------
(* Properties.                                                             *)

\* Every frame the device holds, next to be heard first.
Pipeline == <<heard>> \o speaker \o hand \o frames

Earlier(f, g) == f.stream < g.stream \/ (f.stream = g.stream /\ f.n < g.n)
Ascending(q) == \A i, j \in DOMAIN q : i < j => Earlier(q[i], q[j])
FramesOnWire == {k \in DOMAIN toDevice : toDevice[k].kind = "frame"}

\* Nothing is heard twice or out of order: neither the frame the loop puts back at
\* the front of a queue that was reset meanwhile, nor what was still in the speaker
\* or on the wire when a stream was flushed or superseded.
HeardInOrder ==
  /\ Ascending(Pipeline)
  /\ \A k, l \in FramesOnWire : k < l => Earlier(toDevice[k], toDevice[l])
  /\ \A i \in DOMAIN Pipeline, k \in FramesOnWire : Earlier(Pipeline[i], toDevice[k])

\* The flow control does what it is for: what the device still has to play is never
\* more than the lead, what the speaker holds and the frame on its way there, so a
\* fixed playback queue with room for that never drops a frame.  The frames of a
\* superseded stream, which the DAC counts as the new one's, are what the lead alone
\* does not allow for.  Nothing is claimed once a report has been made between the
\* moments at which playback.start publishes the stream and resets its count.
Unplayed == speaker \o hand \o frames
NoOverrun ==
  ~stale => /\ Len(Unplayed) <= Lead + SpeakerBuffer + 1
            /\ Lead + SpeakerBuffer < DeviceQueue => dropped = 0

\* A stream whose end marker is queued does not stay the current one for ever: it is
\* sent to its end whatever stream the sender was waiting for when this one
\* superseded it, and then the device's progress, the next response or the watchdog
\* ends it (as often as MaxTimeouts lets the watchdog fire).  While a stream is
\* current the microphone is gated and the idle timeout does not run.  Once queued, a
\* stream's end marker stays so: the next stream, whose is not, shows that it is over.
PlaybackEnds ==
  []<>(output = None \/ ~endQueued[output] \/ (ended[output] /\ timeouts = MaxTimeouts))

=============================================================================
