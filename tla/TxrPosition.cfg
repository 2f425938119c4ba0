SPECIFICATION MCSpec
CONSTANTS
  Buttons = {b1}
  Levers = {"free_run_mode", "play_back_mode", "z_mode"}
  Multiplier <- MCMultiplier
  StepsPerClick = 1
  PotMax = 3
  Slew = 1
  Half = 1
  MaxTurn = 1
  MaxPos = 1
INVARIANTS
  TypeOK
  SentIsCurrent
  SavedKept
  SliderFollowed
PROPERTIES
  NoJump
