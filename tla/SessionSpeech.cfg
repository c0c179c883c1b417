SPECIFICATION Spec
CONSTANTS
  CaptureQueue = 1
  ControlQueue = 7
  PartsPerFrame = 2
  ChimeStride = 24
  MaxSessions = 2
  MaxParts = 4
  MaxLosses = 1
  SocketSize = 2
  MaxDrops = 1
  MaxEvents = 0
INVARIANTS SessionTypeOK  EchoStaysHome
CHECK_DEADLOCK FALSE
