SPECIFICATION Spec
CONSTANTS
  x_len = 2
  tolerance = 1
  Packets <- MCPackets
INVARIANTS
  GestureEnds
