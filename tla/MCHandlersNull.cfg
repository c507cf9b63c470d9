SPECIFICATION Spec
CONSTANTS
  BitSets <- MCBitSets
  Variants <- MCVariants
  Precision = 12
  MaxExponent = 16
INVARIANT
  HandlersReturn
CHECK_DEADLOCK FALSE
