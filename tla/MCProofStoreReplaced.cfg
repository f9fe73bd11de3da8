SPECIFICATION Spec
CONSTANTS
  HashPair <- PairOf
  la = la
  lb = lb
  lc = lc
  Key = {k1, k2}
  Leaf = {la, lb, lc}
  Junk = junk
  Tree <- Trees
  Client = {auditor}
  MaxLevel = 2
INVARIANT AssistanceAcceptsGenuine
