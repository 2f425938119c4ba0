SPECIFICATION Spec
CONSTANTS
  QueueLen = 2
  PoolSize = 3
  PositionButtons = {b1}
  PeriodicSigs <- MCPeriodicSigs
  Period <- MCPeriod
  FlashRateTout = 4
  FlashDurationTout = 6
  DoubleTapTout = 6
INVARIANT
  FlashArmedOnce
