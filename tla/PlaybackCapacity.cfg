CONSTANTS
  MaxStreams = 2
  MaxResponses = 2
  MaxFrames = 5
  MaxDelta = 1
  Remainders = {FALSE}
  MaxTurns = 0
  MaxTimeouts = 0
  GatewayQueue = 9
  Lead = 1
  Warmup = 1
  BargeIn = FALSE
  DeviceQueue = 3
  Prebuffer = 1
  SpeakerBuffer = 1
  MaxMutes = 1
SPECIFICATION Spec
INVARIANTS TypeOK NoOverrun HeardInOrder
CHECK_DEADLOCK FALSE
