SPECIFICATION Spec
CONSTANTS
  HRes = 80
  VRes = 70
  U16 = 65536
  Margin = 30
  Entries <- MCEntries
  Packets <- MCPackets
  Statuses <- MCStatuses
INVARIANTS
  TypeOK
  CursorInside
  BackInStep
PROPERTIES
  ChosenByClick
CHECK_DEADLOCK FALSE
