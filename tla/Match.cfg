SPECIFICATION Spec
CONSTANTS
  HRes = 8
  VRes = 8
  MOVEMENT_STEP = 2
  SIZE_FRONT_END = 2
  StartGap = 2
  U16 = 16
  MappedPixels = 68
  Hours <- MCDay
INVARIANTS
  TypeOK
  BlocksAreUniform
PROPERTIES
  PlaysLightCycle
CHECK_DEADLOCK FALSE
