SPECIFICATION Spec
CONSTANTS
  BitSets <- MCBitSets
  Variants <- MCVariants
  Precision = 12
  MaxExponent = 16
INVARIANTS
  ShowsLastNumber
  ShowsLastBit
CHECK_DEADLOCK FALSE
