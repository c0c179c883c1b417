SPECIFICATION FairSpec
CONSTANTS
  CaptureQueue = 1
  ControlQueue = 2
  PartsPerFrame = 2
  ChimeStride = 48
  MaxSessions = 2
  MaxParts = 0
  MaxLosses = 1
  SocketSize = 2
  MaxDrops = 1
  MaxEvents = 1
INVARIANTS SessionIsAttended ReadyOnce VolumeAgrees
PROPERTY WakeIsHeard
CHECK_DEADLOCK FALSE
