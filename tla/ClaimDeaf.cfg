SPECIFICATION Spec
CONSTANTS
  MaxSent = 3
  Tries = 2
INVARIANTS
  NeverDeaf
CHECK_DEADLOCK FALSE
