SPECIFICATION Spec
CONSTANTS
  QueueLimit = 2
  BargeWindow = 2
  BargePower = 0
  ListenWindow = 2
  ListenMin = 2
  ListenRelease = 2
  ListenPower = 1
  Powers = {3}
  BargeIns = {TRUE, FALSE}
  Announce = FALSE
  ReadyKeyword = TRUE
  MaxFrames = 3
  MaxStreams = 1
  MaxTurns = 2
  MaxSessions = 2
INVARIANTS WaitIsPrivate GuardIsLifted
PROPERTY OwnSessionOnly
CHECK_DEADLOCK FALSE
