CONSTANTS
  MaxStreams = 3
  MaxResponses = 2
  MaxFrames = 2
  MaxDelta = 1
  Remainders = {TRUE, FALSE}
  MaxTurns = 1
  MaxTimeouts = 1
  GatewayQueue = 3
  Lead = 1
  Warmup = 1
  BargeIn = TRUE
  MaxWire = 1
SPECIFICATION GatewaySpec
INVARIANTS GatewayTypeOK WireInOrder EndedMeansAllSent StateMatchesOutput NoMixedFrame
PROPERTY CancelledIsSilent
CONSTRAINT WireBound
CHECK_DEADLOCK FALSE
