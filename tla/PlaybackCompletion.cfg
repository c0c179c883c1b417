CONSTANTS
  MaxStreams = 2
  MaxResponses = 2
  MaxFrames = 3
  MaxDelta = 1
  Remainders = {FALSE}
  MaxTurns = 0
  MaxTimeouts = 1
  GatewayQueue = 9
  Lead = 1
  Warmup = 1
  BargeIn = FALSE
  DeviceQueue = 1
  Prebuffer = 1
  SpeakerBuffer = 1
  MaxMutes = 0
SPECIFICATION FairSpec
PROPERTY PlaybackEnds
CHECK_DEADLOCK FALSE
