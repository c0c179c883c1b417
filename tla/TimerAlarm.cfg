CONSTANTS
  MaxTimers = 1
  MaxWakes = 1
  MaxDrops = 1
  MaxLosses = 0
  ControlQueue = 2
SPECIFICATION FairSpec
INVARIANTS TimerTypeOK AnnouncedRings
PROPERTY EveryAlarmEnds
CHECK_DEADLOCK FALSE
