SPECIFICATION Spec
CONSTANTS
  HashPair <- PairOf
  Leaf = {a, b}
  Junk = junk
  MaxLeaves = 5
  MaxIndex = 8
  MaxFaults = 2
CHECK_DEADLOCK FALSE
INVARIANT OversizedIndexRejected
