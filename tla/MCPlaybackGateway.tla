-------------------------- MODULE MCPlaybackGateway --------------------------
EXTENDS PlaybackGateway

CONSTANT MaxWire  \* bound: messages in flight to the device

\* Only states with a short wire are expanded.
WireBound == Len(toDevice) <= MaxWire

=============================================================================
