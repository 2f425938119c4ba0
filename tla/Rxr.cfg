SPECIFICATION FairSpec
CONSTANTS
  FixedOne = 4
  MaxAccel = 2
  SleepThreshold = 1
  Byte = 4
  Wide <- MCWide
  Positions <- MCPositions
  Speeds <- MCSpeeds
  Accels <- MCAccels
INVARIANTS
  TypeOK
  SpeedBounded
  OnGrid
PROPERTIES
  NeverCrosses
  ComesToRest
