SPECIFICATION ASpec
CONSTANTS
  HashPair <- PairOf
  HashRecord <- LeafOfRecord
  la = la
  lb = lb
  lc = lc
  ra = ra
  rc = rc
  rs = rs
  Key = {k1, k2}
  Leaf = {la, lb, lc}
  Junk = junk
  Tree <- Trees
  Client = {}
  Record = {ra, rc, rs}
  MaxLevel = 2
SYMMETRY Keys
INVARIANT EvidenceWitnessesRecord
PROPERTY ImplementsEvidence
