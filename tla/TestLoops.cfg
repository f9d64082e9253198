SPECIFICATION FairSpec
CONSTANTS
  TicksPerSecond = 3
  Args <- MCArgs
INVARIANTS
  TypeOK
  CountsSilence
  EndsAfterSilence
PROPERTIES
  SilenceEnds
CHECK_DEADLOCK FALSE
