SPECIFICATION FairSpec
CONSTANTS
  MaxSent = 3
  Tries = 2
INVARIANTS
  TypeOK
  StatusStillTrue
  NoticedIsTaken
  LeftInOrder
PROPERTIES
  BufferIsEmptied
CHECK_DEADLOCK FALSE
