SPECIFICATION Spec
CONSTANTS
  TIMER_FREQ = 1193182
  U16 = 65536
  Timers <- MCTimers
  Freqs <- MCFreqs
  Garbage <- MCGarbage
INVARIANTS
  TypeOK
  ModeSurvives
  RunsAsAccepted
