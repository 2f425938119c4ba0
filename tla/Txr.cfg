SPECIFICATION MCFairSpec
CONSTANTS
  QueueLen = 1
  PoolSize = 2
  PositionButtons = {b1}
  PeriodicSigs <- MCPeriodicSigs
  Period <- MCPeriod
  FlashRateTout = 1
  FlashDurationTout = 2
  DoubleTapTout = 2
INVARIANTS
  TypeOK
  CalibrationTimeout
  PressesFitState
  TapWindow
  PoolAccounting
  ModeAgreement
PROPERTIES
  FlashingEnds
  LeverObeyed
  TapWindowCloses
