SPECIFICATION Spec
CONSTANTS
  QueueLimit = 2
  BargeWindow = 2
  BargePower = 2
  ListenWindow = 2
  ListenMin = 2
  ListenRelease = 2
  ListenPower = 1
  Powers = {0, 3}
  BargeIns = {TRUE}
  Announce = FALSE
  ReadyKeyword = FALSE
  MaxFrames = 3
  MaxStreams = 2
  MaxTurns = 2
  MaxSessions = 1
INVARIANTS MicrophoneTypeOK WindowsAddUp InputInOrder EchoStaysOut SpeechIsWhole
CHECK_DEADLOCK FALSE
