SPECIFICATION Spec
CONSTANTS
  HashPair <- PairOf
  TestLeaf <- HashOf
  tg = tg
  ta = ta
  tb = tb
  tc = tc
  td = td
  Missing = missing
  Torn = torn
  Junk = junk
  EmptyDigest = digest
  KnownDigest = digest
  Content <- Contents
  Output <- Outputs
  Block <- BlockTxids
  WordMax = 131071
  MaxEdits = 1
INVARIANT StudyVectorsRegenerate
