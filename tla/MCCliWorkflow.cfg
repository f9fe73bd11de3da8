SPECIFICATION BSpec
CONSTANTS
  HashPair <- PairOf
  HashRecord <- DigestOf
  r = r
  s = s
  t = t
  hr = hr
  hs = hs
  ht = ht
  ta = ta
  tb = tb
  tc = tc
  td = td
  Block <- BlockTxids
  Txid <- Txids
  Reply <- Answers
  Record = {r, s, t}
  Batch <- Batches
  U32Max = 3
  MaxIndex = 4
  MaxLevel = 1
INVARIANTS
  HonestCommandsSucceed
  AlteredBundleRejected
  AcceptedAgainstChain
  
  HonestScriptsSucceed
