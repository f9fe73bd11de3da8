SPECIFICATION Spec
CONSTANTS
  HashPair <- PairOf
  Leaf = {a, b}
  Junk = junk
  MaxLeaves = 5
  MaxIndex = 8
  MaxFaults = 2
INVARIANTS
  HonestProofAccepted
  AcceptedProofIsGenuine
  AcceptedProofHasHeight
  RootBindsLeaves
CHECK_DEADLOCK FALSE
