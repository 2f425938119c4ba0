SPECIFICATION SwiftSpec
CONSTANTS
  FixedOne = 4
  MaxAccel = 2
  SleepThreshold = 1
  Byte = 4
  Wide <- MCWide
  Positions <- MCPositions
  Speeds <- MCSpeeds
  Accels <- MCAccels
PROPERTY
  PulsesAwake
