SPECIFICATION MCSpec
CONSTANTS
  MaxProfiles = 3
  MaxIndex = 1
  ProfileStart = 5
  ProfileSize = 4
  Indices = {0, 1}
  FieldSeq <- MCFieldSeq
  Offset <- MCOffset
  PresetIndexOffset = 4
  SentinelLoc = 0
  SentinelValue <- MCSentinelValue
  Default <- MCDefault
  Values <- MCValues
  MaxTurn = 4
  Digit = 2
  DefaultChannel = 1
  DefaultDriver = 1
  Sentinel = 64251
  LastChannel = 82
  Channels = {2, 82, 83, 320}
  Drivers = {0, 1, 256}
  MaxSpeed = 12
  SpeedPerFactor = 4
  MaxFactor = 2
  ENCODER_STEPS_PER_CLICK = 4
  MaxClicks = 32
  DefaultAccel = 128
  Speeds <- MCSpeeds
  HostClicks <- MCClicks
  PresetAccels <- MCAccels
  MaxDelta = 2
INVARIANTS
  SettingsTypeOK
  SentinelLast
  CountExact
  ReadWhole
  RestartKeepsChannel
  StoredUsable
PROPERTIES
  ProfilesSpec
  Persisted
  FollowsWheel
