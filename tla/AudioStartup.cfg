CONSTANTS
  Source = Source
  Target = Target
  Other = Other
  Mute = Mute
  ImageSize = 5
  BlockSize = 2
  BootWait = 2
  RetryWait = 1
  DiscoverLimit = 2
  VerifyLimit = 3
  UpdateLimit = 18
  MaxDelay = 3
  MaxRestarts = 2
SPECIFICATION FairSpec
INVARIANTS StartupTypeOK BlocksInOrder UpdateBounded AudioNeedsTarget
PROPERTIES UpgradeIsGuarded StartupDecides
CHECK_DEADLOCK FALSE
