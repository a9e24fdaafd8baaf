SPECIFICATION Spec
CONSTANTS
  Word = 4
  TICK_COUNTS = 3
  MaxTime = 12
INVARIANTS ReadsTrue CountTrue WriteNotEarly
PROPERTY EdgesKept
