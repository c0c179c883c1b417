SPECIFICATION Spec
CONSTANTS
  CaptureQueue = 1
  ControlQueue = 9
  PartsPerFrame = 2
  ChimeStride = 48
  MaxSessions = 1
  MaxParts = 0
  MaxLosses = 1
  SocketSize = 2
  MaxDrops = 0
  MaxEvents = 1
INVARIANT StopEndsTheSession
CHECK_DEADLOCK FALSE
