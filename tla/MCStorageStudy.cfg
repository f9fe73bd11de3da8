SPECIFICATION StorageSpec
CONSTANTS
  HashPair <- PairOf
  Junk = junk
  Tree <- Trees
  MaxLeaves = 9
  MaxLevel = 5
  U32Max = 2
  WordMax = 4095
  HASH_BYTES = 32
  USIZE_BYTES = 8
INVARIANTS
  KeysApart
  BaselinesAgree
  DedupCountsSubtrees
  MinimumViableSuffices
  StorageVectorReproduces
  StorageStudyPasses
CHECK_DEADLOCK FALSE
