---------------------------- MODULE PlaybackWire ----------------------------
(***************************************************************************)
(* What the gateway and the device say to each other about playback: the   *)
(* messages of PROTOCOL.md on the device's WebSocket, which delivers them  *)
(* in order.  Audio travels as binary frames without a stream id; the      *)
(* stream and frame number a frame carries here are the model's own, for   *)
(* telling frames apart.                                                   *)
(***************************************************************************)
EXTENDS Naturals, Sequences

CONSTANT MaxStreams  \* bound: output streams opened in a behaviour
ASSUME StreamsAssumption == MaxStreams \in Nat

None == 0  \* no stream: self.output is None, stream_id_ is empty
Streams == 1 .. MaxStreams

Frame == [stream : Streams, n : Nat]

\* n is the number of a frame, and the duration that an end announces.
Message == [kind : {"start", "frame", "end", "flush"}, stream : Streams, n : Nat]

\* PLAYBACK_COMPLETION_TOLERANCE_MS on one side, a literal 20 on the other: one frame.
Tolerance == 1

VARIABLE toDevice  \* messages in flight, gateway to device

Send(kind, s, n) ==
  toDevice' = Append(toDevice, [kind |-> kind, stream |-> s, n |-> n])

Minimum(a, b) == IF a < b THEN a ELSE b

=============================================================================
