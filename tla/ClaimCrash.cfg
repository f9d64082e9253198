SPECIFICATION Spec
CONSTANTS
  HRes = 12
  VRes = 4
  MOVEMENT_STEP = 2
  SIZE_FRONT_END = 2
  StartGap = 4
  U16 = 16
  MappedPixels = 52
  ClearedPixels = 62
  TickPeriod = 2
  Hours <- MCDay
  ScanCodes <- MCFewKeys
  Statuses <- MCGoodStatus
  PauseText <- MCPauseText
INVARIANTS
  NoPlayAfterCrash
CHECK_DEADLOCK FALSE
