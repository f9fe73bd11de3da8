SPECIFICATION Spec
CONSTANTS
  HashPair <- PairOf
  la = la
  lb = lb
  lc = lc
  Key = {k1, k2}
  Leaf = {la, lb, lc}
  Junk = junk
  Tree <- Trees
  Client = {auditor}
  MaxLevel = 3
SYMMETRY Keys
INVARIANTS
  TypeOK
  ShardsCoverProof
  HeldCopyVerifies
  AcceptedCopyIsGenuine
  LabelsHashToRoot
  LabelsPublished
  AssistanceCompletes
  UpperShardNotTrusted
  RefusedOnlyWhenReplaced
