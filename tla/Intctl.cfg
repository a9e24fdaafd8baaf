SPECIFICATION Spec
CONSTANTS
  CFN_MAX_INTNO = 4
  PLIC_SOURCE_COUNT = 4
  PLIC_MAX_PRIORITY = 3
  Level = {0, 1, 2, 3, 4}
INVARIANTS NestingOrdered ThresholdMatches ClaimsHeld NoneMissed HandlersMasked
PROPERTY OffStaysOff
