SPECIFICATION FairSpec
CONSTANTS
  RingSize = 3
  FifoSize = 2
  Positions = {0, 1}
  SettingSeq <- MCOneSetting
  ReloadSeq <- MCOneSetting
  Values = {1, 2}
  DefaultValue = 1
  MaxSteps = 3
INVARIANTS
  TypeOK
  TargetArrives
PROPERTIES
  InOrder
  SettingsConverge
