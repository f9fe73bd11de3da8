SPECIFICATION Spec
CONSTANTS
  HashPair <- PairOf
  RecordLeaf <- LeafOf
  Junk <- NoLeaf
  WordMax = 63
  U32Max = 2
  Draw <- Draws
  Opening = {8}
  Sizes = {0, 1, 2, 3, 5, 10}
  Samples = {0, 1, 3, 12}
INVARIANTS
  CleanUnlessUnderflow
  SampleSpreads
  EverySingleFaultDetected
  ConsistentFalsehoodMissed
  WrittenVectorReproduces
  HonestStudyPasses
CHECK_DEADLOCK FALSE
