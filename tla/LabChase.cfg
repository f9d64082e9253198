SPECIFICATION Spec
CONSTANTS
  HRes = 12
  VRes = 4
  MOVEMENT_STEP = 2
  SIZE_FRONT_END = 2
  StartGap = 4
  U16 = 16
  MappedPixels = 52
  ClearedPixels = 62
  TickPeriod = 2
  Hours <- MCHours
  ScanCodes <- MCScanCodes
  Statuses <- MCStatuses
  PauseText <- MCPauseText
INVARIANTS
  TypeOK
  FlagProtocol
  ShownMatchesScreen
  RepeatedMoveIsIgnored
PROPERTIES
  ImplementsSession
CHECK_DEADLOCK FALSE
