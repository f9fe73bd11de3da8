--------------------------- MODULE ProofStoreProofs ---------------------------
(***************************************************************************)
(* Theorems about the proof store, and about the audit verifier over it,   *)
(* for every set of trees, keys, clients and records, every predetermined  *)
(* level and every hash of a pair.                                         *)
(***************************************************************************)
EXTENDS AuditApi, MerkleTreeProofs

-------------------------------------------------------------------------------
(***************************************************************************)
(* What anchor stores.                                                     *)
(***************************************************************************)
\* A tree and an index in it: what a key is anchored for.
Place(p) == p.leaves \in Tree \ {<<>>} /\ p.index \in DOMAIN p.leaves

\* The proof stored for a place.
Stored(key, p, level) ==
  [key |-> key, leaf_index |-> p.index,
   shards |-> ShardProof(SiblingsOf(p.leaves, p.index), level),
   expected_root |-> MerkleRoot(p.leaves)]

\* A tree that is not the empty vector has a positive number of leaves.
LEMMA TreeShape ==
  ASSUME NEW leaves \in Tree \ {<<>>}
  PROVE  /\ VecLen(leaves) \in Nat \ {0}
         /\ DOMAIN leaves = 0 .. VecLen(leaves) - 1
<1>1. VecLen(leaves) \in Nat /\ IsVec(leaves, VecLen(leaves))
  BY TreeAssumption
<1>2. DOMAIN leaves = 0 .. VecLen(leaves) - 1
  BY <1>1, VecShape
<1>3. VecLen(leaves) # 0
  <2>. SUFFICES ASSUME VecLen(leaves) = 0 PROVE FALSE
    OBVIOUS
  <2>1. IsVec(<<>>, 0)
    BY DEF IsVec
  <2>2. IsVec(leaves, 0) /\ 0 \in Nat /\ \A j \in 0 .. 0 - 1 : leaves[j] = <<>>[j]
    BY <1>1
  <2>3. leaves = <<>>
    BY <2>1, <2>2, VecExtensional
  <2>. QED BY <2>3
<1>. QED BY <1>1, <1>2, <1>3

\* The same of the tree of a place, with its index inside.
LEMMA PlaceShape ==
  ASSUME NEW p, Place(p)
  PROVE  /\ VecLen(p.leaves) \in Nat \ {0}
         /\ DOMAIN p.leaves = 0 .. VecLen(p.leaves) - 1
         /\ p.index \in 0 .. VecLen(p.leaves) - 1
         /\ Height(p.leaves) \in Nat
<1>1. /\ VecLen(p.leaves) \in Nat \ {0}
      /\ DOMAIN p.leaves = 0 .. VecLen(p.leaves) - 1
  BY TreeShape DEF Place
<1>2. Height(p.leaves) \in 0 .. VecLen(p.leaves)
  BY <1>1, HeightShape
<1>. QED BY <1>1, <1>2 DEF Place

\* Reassembling a stored proof gives the Merkle proof of its place.
LEMMA ReassembleStored ==
  ASSUME NEW key, NEW p, Place(p), NEW level \in Nat
  PROVE  Reassemble(Stored(key, p, level)) = MerkleProof(p.leaves, p.index)
<1>. DEFINE s == SiblingsOf(p.leaves, p.index)
<1>1. Concatenated(ShardProof(s, level)) = s
  BY PlaceShape, SiblingsShape, ConcatenatedShards
<1>2. Stored(key, p, level).leaf_index = p.index
      /\ Stored(key, p, level).shards = ShardProof(s, level)
  BY DEF Stored
<1>. HIDE DEF s
<1>3. Reassemble(Stored(key, p, level)) = [leaf_index |-> p.index, siblings |-> s]
  BY <1>1, <1>2 DEF Reassemble
<1>. QED BY <1>3 DEF MerkleProof, s

\* The shards of a stored proof abut, from the leaf to the root.
LEMMA StoredShardsAbut ==
  ASSUME NEW d \in Nat, NEW s, IsVec(s, d), NEW level \in Nat
  PROVE  Abut(ShardProof(s, level), d)
<1>. DEFINE k == Least(level, d)
            shards == ShardProof(s, level)
            lo == Shard(s, 0, k)
            hi == Shard(s, k, d)
            all == Shard(s, 0, d)
<1>1. DOMAIN s = 0 .. d - 1
  BY VecShape
<1>2. /\ k \in 0 .. d
      /\ d = 0 => shards = <<>>
      /\ d > 0 /\ k \in {0, d} => shards = <<all>>
      /\ 0 < k /\ k < d => shards = <<lo, hi>>
  BY <1>1, ShardCases
<1>3. /\ lo.from_level = 0 /\ lo.to_level = k /\ hi.from_level = k
      /\ hi.to_level = d /\ all.from_level = 0 /\ all.to_level = d
  BY ShardFields
<1>. HIDE DEF k, shards
<1>4. VecLen(lo.siblings) = k - 0
  <2>1. 0 \in Nat /\ k \in Nat /\ 0 <= k
    BY <1>2
  <2>. QED BY <2>1, ShardShape
<1>5. VecLen(hi.siblings) = d - k
  <2>1. k \in Nat /\ k <= d
    BY <1>2
  <2>. QED BY <2>1, ShardShape
<1>6. VecLen(all.siblings) = d - 0
  <2>1. 0 \in Nat /\ 0 <= d
    OBVIOUS
  <2>. QED BY <2>1, ShardShape
<1>. HIDE DEF lo, hi, all
<1>7. CASE d = 0
  BY <1>2, <1>7 DEF Abut, shards
<1>8. CASE d > 0 /\ k \in {0, d}
  <2>1. /\ shards # <<>> /\ Len(shards) = 1 /\ DOMAIN shards = {1}
        /\ shards[1] = all
    BY <1>2, <1>8
  <2>. QED BY <1>3, <1>6, <1>8, <2>1 DEF Abut, shards
<1>9. CASE 0 < k /\ k < d
  <2>1. /\ shards # <<>> /\ Len(shards) = 2 /\ DOMAIN shards = {1, 2}
        /\ shards[1] = lo /\ shards[2] = hi
    BY <1>2, <1>9
  <2>. QED BY <1>2, <1>3, <1>4, <1>5, <1>9, <2>1 DEF Abut, shards
<1>. QED BY <1>2, <1>7, <1>8, <1>9

-------------------------------------------------------------------------------
(***************************************************************************)
(* The inductive invariant: what is stored under a key, what is published  *)
(* for a root and what a client holds were all made by an anchor of some   *)
(* tree at the one predetermined level of this store.  The properties of   *)
(* the store follow from its four parts.                                   *)
(***************************************************************************)
StoredInv ==
  /\ DOMAIN origin = DOMAIN storage
  /\ DOMAIN storage \subseteq Key
  /\ \A key \in DOMAIN storage :
       /\ Place(origin[key])
       /\ storage[key] = Stored(key, origin[key], predetermined_level)

LabelsInv ==
  \A root \in DOMAIN assistance_by_root :
    \E leaves \in Tree \ {<<>>} :
      /\ MerkleRoot(leaves) = root
      /\ assistance_by_root[root] = Assistance(leaves, predetermined_level)

\* What a copy has for a shape, altered or not.
Shards(shards) ==
  /\ \E m \in 0 .. 2 : DOMAIN shards = 1 .. m
  /\ \A n \in DOMAIN shards : VecLen(shards[n].siblings) \in Nat

Fields(copy) ==
  /\ DOMAIN copy = {"proof", "from", "altered"}
  /\ DOMAIN copy.proof = {"key", "leaf_index", "shards", "expected_root"}
  /\ \A n \in DOMAIN copy.proof.shards :
       DOMAIN copy.proof.shards[n] = {"from_level", "to_level", "siblings"}

\* One sibling of a proof, or of one of its shards, replaced by a hash of no tree.
JunkAt(s, J) == [s EXCEPT ![J] = Junk]

JunkInShard(shards, n, j) == [shards EXCEPT ![n].siblings[j] = Junk]

WithShards(proof, shards) == [proof EXCEPT !.shards = shards]

AlteredOf(copy, n, j) ==
  [copy EXCEPT !.proof.shards[n].siblings[j] = Junk, !.altered = TRUE]

\* The stored proof of a place with one of its siblings replaced.
AlteredFrom(proof, key, p, level) ==
  \E J \in 0 .. Height(p.leaves) - 1 :
    proof = WithShards(Stored(key, p, level),
                       ShardProof(JunkAt(SiblingsOf(p.leaves, p.index), J), level))

HeldInv ==
  /\ DOMAIN held \subseteq Client
  /\ \A client \in DOMAIN held :
       /\ Fields(held[client])
       /\ Place(held[client].from)
       /\ held[client].altered \in BOOLEAN
       /\ held[client].proof.leaf_index = held[client].from.index
       /\ held[client].proof.expected_root = MerkleRoot(held[client].from.leaves)
       /\ Shards(held[client].proof.shards)
       /\ ~ held[client].altered =>
            \E key : held[client].proof
                       = Stored(key, held[client].from, predetermined_level)
       /\ held[client].altered =>
            \E key : AlteredFrom(held[client].proof, key, held[client].from,
                                 predetermined_level)

IInv ==
  /\ predetermined_level \in 0 .. MaxLevel
  /\ answer \in {"none", "Ok", "EmptyTree", "IndexOutOfRange", "KeyNotFound"}
  /\ StoredInv
  /\ LabelsInv
  /\ LabelsPublished
  /\ HeldInv

\* A stored proof has the shape of a copy.
LEMMA StoredShards ==
  ASSUME NEW p, Place(p), NEW key, NEW level \in Nat
  PROVE  Shards(Stored(key, p, level).shards)
<1>. DEFINE d == Height(p.leaves)
            s == SiblingsOf(p.leaves, p.index)
            shards == ShardProof(s, level)
            k == Least(level, d)
<1>1. d \in Nat /\ IsVec(s, d) /\ DOMAIN s = 0 .. d - 1
  BY PlaceShape, SiblingsShape, VecShape
<1>2. Stored(key, p, level).shards = shards
  BY DEF Stored
<1>. HIDE DEF d, s, shards
<1>3. /\ k \in 0 .. d
      /\ d = 0 => shards = <<>>
      /\ d > 0 /\ k \in {0, d} => shards = <<Shard(s, 0, d)>>
      /\ 0 < k /\ k < d => shards = <<Shard(s, 0, k), Shard(s, k, d)>>
  BY <1>1, ShardCases DEF shards
<1>. HIDE DEF k
<1>4. CASE d = 0
  <2>1. DOMAIN shards = 1 .. 0
    BY <1>3, <1>4
  <2>. QED BY <1>2, <2>1 DEF Shards
<1>5. CASE d > 0 /\ k \in {0, d}
  <2>1. DOMAIN shards = 1 .. 1 /\ shards[1] = Shard(s, 0, d)
    BY <1>3, <1>5
  <2>2. VecLen(Shard(s, 0, d).siblings) = d - 0
    <3>1. 0 \in Nat /\ 0 <= d
      BY <1>1
    <3>. QED BY <1>1, <3>1, ShardShape
  <2>. QED BY <1>1, <1>2, <2>1, <2>2 DEF Shards
<1>6. CASE 0 < k /\ k < d
  <2>1. /\ DOMAIN shards = 1 .. 2
        /\ shards[1] = Shard(s, 0, k) /\ shards[2] = Shard(s, k, d)
    BY <1>3, <1>6
  <2>2. 0 \in Nat /\ k \in Nat /\ 0 <= k /\ k <= d
    BY <1>3
  <2>3. VecLen(Shard(s, 0, k).siblings) = k - 0
    BY <2>2, ShardShape
  <2>4. VecLen(Shard(s, k, d).siblings) = d - k
    BY <1>1, <2>2, ShardShape
  <2>. QED BY <1>1, <1>2, <2>1, <2>2, <2>3, <2>4 DEF Shards
<1>. QED BY <1>1, <1>3, <1>4, <1>5, <1>6

\* A sibling replaced in a shard is that sibling replaced in the proof.
LEMMA AlteredShard ==
  ASSUME NEW d \in Nat, NEW s, IsVec(s, d),
         NEW from \in 0 .. d, NEW to \in from .. d, NEW j \in 0 .. to - from - 1
  PROVE  [Shard(s, from, to) EXCEPT !.siblings[j] = Junk]
           = Shard([s EXCEPT ![from + j] = Junk], from, to)
<1>. DEFINE t == [s EXCEPT ![from + j] = Junk]
            v == [i \in 0 .. to - from - 1 |-> s[from + i]]
            w == [i \in 0 .. to - from - 1 |-> t[from + i]]
<1>1. DOMAIN s = 0 .. d - 1
  BY VecShape
<1>2. ASSUME NEW i \in 0 .. to - from - 1
      PROVE  w[i] = [v EXCEPT ![j] = Junk][i]
  <2>1. from + i \in 0 .. d - 1 /\ (from + i = from + j <=> i = j)
    OBVIOUS
  <2>2. t[from + i] = IF i = j THEN Junk ELSE s[from + i]
    BY <1>1, <2>1
  <2>. QED BY <2>2
<1>3. w = [v EXCEPT ![j] = Junk]
  BY <1>2
<1>4. Shard(s, from, to) = [from_level |-> from, to_level |-> to, siblings |-> v]
      /\ Shard(t, from, to) = [from_level |-> from, to_level |-> to, siblings |-> w]
  BY DEF Shard
<1>. HIDE DEF t, v, w
<1>5. [Shard(s, from, to) EXCEPT !.siblings[j] = Junk]
        = [from_level |-> from, to_level |-> to, siblings |-> [v EXCEPT ![j] = Junk]]
  BY <1>4
<1>. QED BY <1>3, <1>4, <1>5 DEF t

\* A sibling replaced in another shard leaves a shard as it was.
LEMMA UnalteredShard ==
  ASSUME NEW d \in Nat, NEW s, IsVec(s, d), NEW from \in 0 .. d, NEW to \in from .. d,
         NEW J \in 0 .. d - 1, J < from \/ to <= J
  PROVE  Shard([s EXCEPT ![J] = Junk], from, to) = Shard(s, from, to)
<1>. DEFINE t == [s EXCEPT ![J] = Junk]
<1>1. DOMAIN s = 0 .. d - 1
  BY VecShape
<1>2. \A i \in 0 .. to - from - 1 : t[from + i] = s[from + i]
  BY <1>1
<1>. HIDE DEF t
<1>3. Shard(t, from, to) = Shard(s, from, to)
  BY <1>2 DEF Shard
<1>. QED BY <1>3 DEF t

\* Sharding and replacing a sibling commute.
LEMMA AlteredShards ==
  ASSUME NEW d \in Nat, NEW s, IsVec(s, d), NEW level \in Nat,
         NEW n \in DOMAIN ShardProof(s, level),
         NEW j \in DOMAIN ShardProof(s, level)[n].siblings
  PROVE  \E J \in 0 .. d - 1 :
           JunkInShard(ShardProof(s, level), n, j) = ShardProof(JunkAt(s, J), level)
<1>. DEFINE k == Least(level, d)
            Alt(J) == [s EXCEPT ![J] = Junk]
<1>1. DOMAIN s = 0 .. d - 1 /\ \A J : DOMAIN Alt(J) = 0 .. d - 1
  BY VecShape
<1>2. /\ k \in 0 .. d
      /\ d = 0 => ShardProof(s, level) = <<>>
      /\ d > 0 /\ k \in {0, d} => ShardProof(s, level) = <<Shard(s, 0, d)>>
      /\ 0 < k /\ k < d => ShardProof(s, level) = <<Shard(s, 0, k), Shard(s, k, d)>>
  BY <1>1, ShardCases
<1>3. ASSUME NEW J
      PROVE  /\ d > 0 /\ k \in {0, d} => ShardProof(Alt(J), level) = <<Shard(Alt(J), 0, d)>>
             /\ 0 < k /\ k < d =>
                  ShardProof(Alt(J), level) = <<Shard(Alt(J), 0, k), Shard(Alt(J), k, d)>>
  <2>. HIDE DEF Alt
  <2>. QED BY <1>1, ShardCases
<1>. HIDE DEF k, Alt
<1>4. d > 0
  BY <1>2
<1>5. CASE k \in {0, d}
  <2>1. ShardProof(s, level) = <<Shard(s, 0, d)>> /\ n = 1
    BY <1>2, <1>4, <1>5
  <2>2. ShardProof(s, level)[n] = Shard(s, 0, d)
    BY <2>1
  <2>3. j \in 0 .. d - 1
    <3>1. IsVec(Shard(s, 0, d).siblings, d - 0)
      <4>1. 0 \in Nat /\ 0 <= d
        OBVIOUS
      <4>. QED BY <4>1, ShardShape
    <3>2. j \in 0 .. (d - 0) - 1
      BY <2>2, <3>1, VecShape
    <3>. QED BY <3>2
  <2>4. [Shard(s, 0, d) EXCEPT !.siblings[j] = Junk] = Shard(Alt(j), 0, d)
    <3>1. 0 \in 0 .. d /\ d \in 0 .. d /\ j \in 0 .. d - 0 - 1 /\ 0 + j = j
      BY <2>3
    <3>2. [Shard(s, 0, d) EXCEPT !.siblings[j] = Junk]
            = Shard([s EXCEPT ![0 + j] = Junk], 0, d)
      BY <3>1, AlteredShard
    <3>. QED BY <3>1, <3>2 DEF Alt
  <2>5. [ShardProof(s, level) EXCEPT ![n].siblings[j] = Junk]
          = <<[Shard(s, 0, d) EXCEPT !.siblings[j] = Junk]>>
    <3>. DEFINE x == Shard(s, 0, d)
    <3>1. ShardProof(s, level) = <<x>> /\ n = 1
      BY <2>1
    <3>. HIDE DEF x
    <3>. QED BY <3>1 DEF x
  <2>6. [ShardProof(s, level) EXCEPT ![n].siblings[j] = Junk] = ShardProof(Alt(j), level)
    BY <1>3, <1>4, <1>5, <2>4, <2>5
  <2>. QED BY <2>3, <2>6 DEF Alt, JunkAt, JunkInShard
<1>6. CASE 0 < k /\ k < d
  <2>. DEFINE lo == Shard(s, 0, k)
              hi == Shard(s, k, d)
  <2>1. ShardProof(s, level) = <<lo, hi>> /\ n \in {1, 2}
    BY <1>2, <1>6
  <2>2. /\ 0 \in 0 .. d /\ k \in 0 .. d /\ k \in Nat /\ d \in k .. d /\ 0 \in Nat
        /\ 0 <= k /\ k <= d /\ k - 0 = k
    BY <1>2, <1>6
  <2>3. DOMAIN lo.siblings = 0 .. k - 0 - 1 /\ DOMAIN hi.siblings = 0 .. d - k - 1
    <3>1. IsVec(lo.siblings, k - 0) /\ IsVec(hi.siblings, d - k)
      BY <2>2, ShardShape
    <3>2. k - 0 \in Nat /\ d - k \in Nat
      BY <2>2
    <3>. QED BY <3>1, <3>2, VecShape
  <2>4. CASE n = 1
    <3>1. j \in 0 .. k - 0 - 1 /\ j \in 0 .. d - 1 /\ 0 + j = j /\ j < k
      <4>1. j \in 0 .. k - 0 - 1
        <5>. HIDE DEF lo, hi
        <5>1. ShardProof(s, level)[n] = lo
          BY <2>1, <2>4
        <5>2. j \in DOMAIN lo.siblings
          BY <5>1
        <5>. QED BY <2>3, <5>2
      <4>. QED BY <2>2, <4>1
    <3>2. [lo EXCEPT !.siblings[j] = Junk] = Shard(Alt(j), 0, k)
      <4>1. [lo EXCEPT !.siblings[j] = Junk] = Shard([s EXCEPT ![0 + j] = Junk], 0, k)
        BY <2>2, <3>1, AlteredShard
      <4>. QED BY <3>1, <4>1 DEF Alt
    <3>3. Shard(Alt(j), k, d) = hi
      BY <2>2, <3>1, UnalteredShard DEF Alt
    <3>4. [ShardProof(s, level) EXCEPT ![n].siblings[j] = Junk]
            = <<[lo EXCEPT !.siblings[j] = Junk], hi>>
      <4>. HIDE DEF lo, hi
      <4>. QED BY <2>1, <2>4
    <3>5. ShardProof(Alt(j), level) = [ShardProof(s, level) EXCEPT ![n].siblings[j] = Junk]
      BY <1>3, <1>6, <3>2, <3>3, <3>4
    <3>. QED BY <3>1, <3>5 DEF Alt, JunkAt, JunkInShard
  <2>5. CASE n = 2
    <3>1. j \in 0 .. d - k - 1 /\ k + j \in 0 .. d - 1 /\ k <= k + j
      <4>1. j \in 0 .. d - k - 1
        <5>. HIDE DEF lo, hi
        <5>1. ShardProof(s, level)[n] = hi
          BY <2>1, <2>5
        <5>2. j \in DOMAIN hi.siblings
          BY <5>1
        <5>. QED BY <2>3, <5>2
      <4>. QED BY <2>2, <4>1
    <3>2. [hi EXCEPT !.siblings[j] = Junk] = Shard(Alt(k + j), k, d)
      BY <2>2, <3>1, AlteredShard DEF Alt
    <3>3. Shard(Alt(k + j), 0, k) = lo
      BY <2>2, <3>1, UnalteredShard DEF Alt
    <3>4. [ShardProof(s, level) EXCEPT ![n].siblings[j] = Junk]
            = <<lo, [hi EXCEPT !.siblings[j] = Junk]>>
      <4>. HIDE DEF lo, hi
      <4>. QED BY <2>1, <2>5
    <3>5. ShardProof(Alt(k + j), level)
            = [ShardProof(s, level) EXCEPT ![n].siblings[j] = Junk]
      BY <1>3, <1>6, <3>2, <3>3, <3>4
    <3>. QED BY <3>1, <3>5 DEF Alt, JunkAt, JunkInShard
  <2>. QED BY <2>1, <2>4, <2>5
<1>. QED
  <2>1. k \in {0, d} \/ (0 < k /\ k < d)
    BY <1>2
  <2>. QED BY <1>5, <1>6, <2>1

\* A changed sibling leaves everything else of a copy as it was.
LEMMA AlteredCopy ==
  ASSUME NEW copy, Fields(copy), Shards(copy.proof.shards),
         NEW n \in DOMAIN copy.proof.shards, NEW j
  PROVE  LET new == [copy EXCEPT !.proof.shards[n].siblings[j] = Junk,
                                 !.altered = TRUE]
         IN  /\ Fields(new)
             /\ new.from = copy.from
             /\ new.altered = TRUE
             /\ new.proof.leaf_index = copy.proof.leaf_index
             /\ new.proof.expected_root = copy.proof.expected_root
             /\ Shards(new.proof.shards)
<1>. DEFINE old == copy.proof.shards[n]
            siblings == [old.siblings EXCEPT ![j] = Junk]
            shard == [old EXCEPT !.siblings = siblings]
            shards == [copy.proof.shards EXCEPT ![n] = shard]
            proof == [copy.proof EXCEPT !.shards = shards]
            new == [copy EXCEPT !.proof = proof, !.altered = TRUE]
<1>1. [copy EXCEPT !.proof.shards[n].siblings[j] = Junk, !.altered = TRUE] = new
  OBVIOUS
<1>2. DOMAIN siblings = DOMAIN old.siblings
  OBVIOUS
<1>3. /\ DOMAIN shard = {"from_level", "to_level", "siblings"}
      /\ shard.siblings = siblings
  <2>1. DOMAIN old = {"from_level", "to_level", "siblings"}
    BY DEF Fields
  <2>. HIDE DEF old, siblings
  <2>. QED BY <2>1
<1>4. /\ DOMAIN shards = DOMAIN copy.proof.shards
      /\ shards[n] = shard
      /\ \A m \in DOMAIN shards : m # n => shards[m] = copy.proof.shards[m]
  <2>. HIDE DEF shard
  <2>. QED OBVIOUS
<1>5. /\ DOMAIN proof = {"key", "leaf_index", "shards", "expected_root"}
      /\ proof.shards = shards
      /\ proof.leaf_index = copy.proof.leaf_index
      /\ proof.expected_root = copy.proof.expected_root
  <2>1. DOMAIN copy.proof = {"key", "leaf_index", "shards", "expected_root"}
    BY DEF Fields
  <2>. HIDE DEF shards
  <2>. QED BY <2>1
<1>6. /\ DOMAIN new = {"proof", "from", "altered"}
      /\ new.proof = proof /\ new.from = copy.from /\ new.altered = TRUE
  <2>1. DOMAIN copy = {"proof", "from", "altered"}
    BY DEF Fields
  <2>. HIDE DEF proof
  <2>. QED BY <2>1
<1>7. VecLen(siblings) = VecLen(old.siblings)
  BY <1>2 DEF VecLen
<1>. HIDE DEF siblings, shard, shards, proof, new
<1>8. Fields(new)
  <2>1. \A m \in DOMAIN shards :
          DOMAIN shards[m] = {"from_level", "to_level", "siblings"}
    BY <1>3, <1>4 DEF Fields
  <2>. QED BY <1>5, <1>6, <2>1 DEF Fields
<1>9. Shards(shards)
  <2>1. \E m \in 0 .. 2 : DOMAIN shards = 1 .. m
    BY <1>4 DEF Shards
  <2>2. ASSUME NEW m \in DOMAIN shards PROVE VecLen(shards[m].siblings) \in Nat
    <3>1. CASE m = n
      BY <1>3, <1>4, <1>7, <3>1 DEF Shards
    <3>2. CASE m # n
      BY <1>4, <3>2 DEF Shards
    <3>. QED BY <3>1, <3>2
  <2>. QED BY <2>1, <2>2 DEF Shards
<1>. QED BY <1>1, <1>5, <1>6, <1>8, <1>9 DEF new

\* The proof in an altered copy is the proof with an altered shard.
LEMMA AlteredProof ==
  ASSUME NEW copy, Fields(copy), NEW n, NEW j
  PROVE  AlteredOf(copy, n, j).proof
           = WithShards(copy.proof, JunkInShard(copy.proof.shards, n, j))
<1>. DEFINE proof == WithShards(copy.proof, JunkInShard(copy.proof.shards, n, j))
<1>1. AlteredOf(copy, n, j) = [copy EXCEPT !.proof = proof, !.altered = TRUE]
  BY DEF AlteredOf, WithShards, JunkInShard
<1>2. "proof" \in DOMAIN copy
  BY DEF Fields
<1>. HIDE DEF proof
<1>3. [copy EXCEPT !.proof = proof, !.altered = TRUE].proof = proof
  BY <1>2
<1>. QED BY <1>1, <1>3 DEF proof

\* A stored proof has the fields of a proof, also in the hands of a client.
LEMMA QueriedCopy ==
  ASSUME NEW p, Place(p), NEW key, NEW level \in Nat
  PROVE  LET copy == [proof |-> Stored(key, p, level), from |-> p, altered |-> FALSE]
         IN  /\ Fields(copy)
             /\ copy.from = p
             /\ copy.altered = FALSE
             /\ copy.proof = Stored(key, p, level)
             /\ copy.proof.leaf_index = p.index
             /\ copy.proof.expected_root = MerkleRoot(p.leaves)
             /\ Shards(copy.proof.shards)
<1>. DEFINE d == Height(p.leaves)
            s == SiblingsOf(p.leaves, p.index)
            stored == Stored(key, p, level)
            shards == ShardProof(s, level)
            copy == [proof |-> stored, from |-> p, altered |-> FALSE]
            k == Least(level, d)
<1>1. /\ DOMAIN stored = {"key", "leaf_index", "shards", "expected_root"}
      /\ stored.leaf_index = p.index /\ stored.expected_root = MerkleRoot(p.leaves)
      /\ stored.shards = shards
  <2>. HIDE DEF shards
  <2>. QED BY DEF Stored, shards
<1>2. Shards(stored.shards)
  BY StoredShards
<1>3. d \in Nat /\ DOMAIN s = 0 .. d - 1
  BY PlaceShape, SiblingsShape, VecShape
<1>. HIDE DEF stored, d, s
<1>4. /\ DOMAIN copy = {"proof", "from", "altered"}
      /\ copy.proof = stored /\ copy.from = p /\ copy.altered = FALSE
  OBVIOUS
<1>. HIDE DEF copy
<1>5. \A n \in DOMAIN shards :
        DOMAIN shards[n] = {"from_level", "to_level", "siblings"}
  <2>1. /\ k \in 0 .. d
        /\ d = 0 => shards = <<>>
        /\ d > 0 /\ k \in {0, d} => shards = <<Shard(s, 0, d)>>
        /\ 0 < k /\ k < d => shards = <<Shard(s, 0, k), Shard(s, k, d)>>
    BY <1>3, ShardCases
  <2>. HIDE DEF shards, k
  <2>2. d = 0 \/ (d > 0 /\ k \in {0, d}) \/ (0 < k /\ k < d)
    BY <1>3, <2>1
  <2>3. \A n \in DOMAIN shards : \E from, to : shards[n] = Shard(s, from, to)
    BY <2>1, <2>2
  <2>. QED BY <2>3, ShardFields
<1>. HIDE DEF shards
<1>6. Fields(copy)
  BY <1>1, <1>4, <1>5 DEF Fields
<1>. QED BY <1>1, <1>2, <1>4, <1>6 DEF copy, stored

-------------------------------------------------------------------------------
(***************************************************************************)
(* The invariant holds: one lemma for each action.                         *)
(***************************************************************************)
\* The store starts empty.
LEMMA InitEstablishes == Init => IInv
BY DEF Init, IInv, StoredInv, LabelsInv, LabelsPublished, HeldInv

\* A failed anchor changes no more than the answer.
LEMMA AnchorFailsPreserves ==
  ASSUME IInv, NEW leaves, NEW index, AnchorFails(leaves, index)
  PROVE  IInv'
BY DEF AnchorFails, store, IInv, StoredInv, LabelsInv, LabelsPublished, HeldInv

\* A failed query changes no more than the answer.
LEMMA QueryUnknownPreserves ==
  ASSUME IInv, NEW key, QueryUnknown(key)
  PROVE  IInv'
BY DEF QueryUnknown, store, IInv, StoredInv, LabelsInv, LabelsPublished, HeldInv

\* An anchor stores the proof of its place and publishes the labels of its
\* tree; the labels that a root had before may be lost, never the entry.
LEMMA AnchorPreserves ==
  ASSUME IInv, NEW key \in Key, NEW leaves \in Tree,
         NEW index \in 0 .. VecLen(leaves), Anchor(key, leaves, index)
  PROVE  IInv'
<1>. DEFINE root == MerkleRoot(leaves)
            p == [leaves |-> leaves, index |-> index]
            labels == Assistance(leaves, predetermined_level)
            stored == Stored(key, p, predetermined_level)
<1>1. /\ storage' = Insert(storage, key, stored)
      /\ assistance_by_root' = Insert(assistance_by_root, root, labels)
      /\ origin' = Insert(origin, key, p)
      /\ answer' = "Ok"
      /\ predetermined_level' = predetermined_level /\ held' = held
  BY DEF Anchor, PublishLabels, Stored, MerkleProof
<1>2. Place(p)
  <2>1. leaves \in Tree \ {<<>>}
    BY DEF Anchor
  <2>2. index \in DOMAIN leaves
    <3>1. /\ VecLen(leaves) \in Nat \ {0}
          /\ DOMAIN leaves = 0 .. VecLen(leaves) - 1
      BY <2>1, TreeShape
    <3>. QED BY <3>1 DEF Anchor, InRange
  <2>. QED BY <2>1, <2>2 DEF Place
<1>3. leaves \in Tree \ {<<>>} /\ MerkleRoot(leaves) = root
  BY DEF Anchor
<1>4. stored.expected_root = root
  BY DEF Stored
<1>5. /\ DOMAIN storage' = DOMAIN storage \cup {key}
      /\ storage'[key] = stored
      /\ \A x \in DOMAIN storage : x # key => storage'[x] = storage[x]
  <2>1. storage' = Insert(storage, key, stored)
    BY <1>1
  <2>. HIDE DEF stored
  <2>. QED BY <2>1 DEF Insert
<1>6. /\ DOMAIN origin' = DOMAIN origin \cup {key}
      /\ origin'[key] = p
      /\ \A x \in DOMAIN origin : x # key => origin'[x] = origin[x]
  <2>1. origin' = Insert(origin, key, p)
    BY <1>1
  <2>. HIDE DEF p
  <2>. QED BY <2>1 DEF Insert
<1>7. /\ DOMAIN assistance_by_root' = DOMAIN assistance_by_root \cup {root}
      /\ assistance_by_root'[root] = labels
      /\ \A x \in DOMAIN assistance_by_root :
           x # root => assistance_by_root'[x] = assistance_by_root[x]
  <2>1. assistance_by_root' = Insert(assistance_by_root, root, labels)
    BY <1>1
  <2>. HIDE DEF root, labels
  <2>. QED BY <2>1 DEF Insert
<1>. HIDE DEF root, p
<1>8. StoredInv'
  <2>1. DOMAIN origin' = DOMAIN storage' /\ DOMAIN storage' \subseteq Key
    BY <1>5, <1>6 DEF IInv, StoredInv
  <2>2. ASSUME NEW x \in DOMAIN storage'
        PROVE  /\ Place(origin'[x])
               /\ storage'[x] = Stored(x, origin'[x], predetermined_level')
    <3>1. CASE x = key
      BY <1>1, <1>2, <1>5, <1>6, <3>1
    <3>2. CASE x # key
      <4>1. x \in DOMAIN storage /\ x \in DOMAIN origin
        BY <1>5, <3>2 DEF IInv, StoredInv
      <4>. QED BY <1>1, <1>5, <1>6, <3>2, <4>1 DEF IInv, StoredInv
    <3>. QED BY <3>1, <3>2
  <2>. QED BY <2>1, <2>2 DEF StoredInv
<1>. HIDE DEF stored
<1>9. LabelsInv'
  <2>. SUFFICES ASSUME NEW r \in DOMAIN assistance_by_root'
                PROVE  \E v \in Tree \ {<<>>} :
                         /\ MerkleRoot(v) = r
                         /\ assistance_by_root'[r] = Assistance(v, predetermined_level')
    BY DEF LabelsInv
  <2>1. CASE r = root
    BY <1>1, <1>3, <1>7, <2>1
  <2>2. CASE r # root
    <3>. HIDE DEF labels
    <3>1. r \in DOMAIN assistance_by_root
      BY <1>7, <2>2
    <3>2. assistance_by_root'[r] = assistance_by_root[r]
      BY <1>7, <2>2, <3>1
    <3>. QED BY <1>1, <3>1, <3>2 DEF IInv, LabelsInv
  <2>. QED BY <2>1, <2>2
<1>10. LabelsPublished'
  <2>. HIDE DEF labels
  <2>1. ASSUME NEW x \in DOMAIN storage'
        PROVE  storage'[x].expected_root \in DOMAIN assistance_by_root'
    <3>1. CASE x = key
      BY <1>4, <1>5, <1>7, <3>1
    <3>2. CASE x # key
      <4>1. x \in DOMAIN storage /\ storage'[x] = storage[x]
        BY <1>5, <3>2
      <4>2. storage[x].expected_root \in DOMAIN assistance_by_root
        BY <4>1 DEF IInv, LabelsPublished
      <4>. QED BY <1>7, <4>1, <4>2
    <3>. QED BY <3>1, <3>2
  <2>2. ASSUME NEW client \in DOMAIN held'
        PROVE  held'[client].proof.expected_root \in DOMAIN assistance_by_root'
    <3>1. held[client].proof.expected_root \in DOMAIN assistance_by_root
      BY <1>1, <2>2 DEF IInv, LabelsPublished
    <3>. QED BY <1>1, <1>7, <3>1
  <2>. QED BY <2>1, <2>2 DEF LabelsPublished
<1>11. HeldInv'
  BY <1>1 DEF IInv, HeldInv
<1>. QED BY <1>1, <1>8, <1>9, <1>10, <1>11 DEF IInv

\* A client's copy is the stored proof, and remembers its place.
LEMMA QueryPreserves ==
  ASSUME IInv, NEW client \in Client, NEW key, Query(client, key)
  PROVE  IInv'
<1>. DEFINE copy == [proof |-> storage[key], from |-> origin[key], altered |-> FALSE]
<1>1. /\ held' = Insert(held, client, copy)
      /\ answer' = "Ok" /\ key \in DOMAIN storage
      /\ UNCHANGED <<predetermined_level, storage, assistance_by_root, origin>>
  BY DEF Query, store
<1>2. /\ Place(origin[key])
      /\ storage[key] = Stored(key, origin[key], predetermined_level)
      /\ predetermined_level \in Nat
      /\ storage[key].expected_root \in DOMAIN assistance_by_root
  BY <1>1, MaxLevelAssumption DEF IInv, StoredInv, LabelsPublished
<1>3. /\ Fields(copy)
      /\ copy.from = origin[key]
      /\ copy.altered = FALSE
      /\ copy.proof = storage[key]
      /\ copy.proof.leaf_index = origin[key].index
      /\ copy.proof.expected_root = MerkleRoot(origin[key].leaves)
      /\ Shards(copy.proof.shards)
  BY <1>2, QueriedCopy
<1>4. /\ DOMAIN held' = DOMAIN held \cup {client}
      /\ held'[client] = copy
      /\ \A x \in DOMAIN held : x # client => held'[x] = held[x]
  <2>1. held' = Insert(held, client, copy)
    BY <1>1
  <2>. HIDE DEF copy
  <2>. QED BY <2>1 DEF Insert
<1>. HIDE DEF copy
<1>5. HeldInv'
  <2>. SUFFICES ASSUME NEW x \in DOMAIN held'
                PROVE  /\ Fields(held'[x])
                       /\ Place(held'[x].from)
                       /\ held'[x].altered \in BOOLEAN
                       /\ held'[x].proof.leaf_index = held'[x].from.index
                       /\ held'[x].proof.expected_root
                            = MerkleRoot(held'[x].from.leaves)
                       /\ Shards(held'[x].proof.shards)
                       /\ ~ held'[x].altered =>
                            \E k : held'[x].proof
                                     = Stored(k, held'[x].from, predetermined_level')
                       /\ held'[x].altered =>
                            \E k : AlteredFrom(held'[x].proof, k, held'[x].from,
                                              predetermined_level')
    BY <1>4 DEF IInv, HeldInv
  <2>1. CASE x = client
    <3>1. copy.proof = Stored(key, copy.from, predetermined_level')
      BY <1>1, <1>2, <1>3
    <3>. QED BY <1>2, <1>3, <1>4, <2>1, <3>1
  <2>2. CASE x # client
    <3>1. x \in DOMAIN held /\ held'[x] = held[x]
      BY <1>4, <2>2
    <3>. QED BY <1>1, <3>1 DEF IInv, HeldInv
  <2>. QED BY <2>1, <2>2
<1>6. LabelsPublished'
  <2>1. \A x \in DOMAIN held' :
          held'[x].proof.expected_root \in DOMAIN assistance_by_root
    <3>. SUFFICES ASSUME NEW x \in DOMAIN held'
                  PROVE  held'[x].proof.expected_root \in DOMAIN assistance_by_root
      OBVIOUS
    <3>1. CASE x = client
      BY <1>2, <1>3, <1>4, <3>1
    <3>2. CASE x # client
      BY <1>4, <3>2 DEF IInv, LabelsPublished
    <3>. QED BY <3>1, <3>2
  <2>. QED BY <1>1, <2>1 DEF IInv, LabelsPublished
<1>7. StoredInv' /\ LabelsInv'
  BY <1>1 DEF IInv, StoredInv, LabelsInv
<1>. QED BY <1>1, <1>5, <1>6, <1>7 DEF IInv

\* A change to a copy touches no more than one sibling of it.
LEMMA TamperShardPreserves ==
  ASSUME IInv, NEW client \in DOMAIN held,
         NEW n \in DOMAIN held[client].proof.shards,
         NEW j \in DOMAIN held[client].proof.shards[n].siblings,
         TamperShard(client, n, j)
  PROVE  IInv'
<1>. DEFINE copy == held[client]
            new == [copy EXCEPT !.proof.shards[n].siblings[j] = Junk,
                                !.altered = TRUE]
<1>1. /\ held' = [held EXCEPT ![client] = new]
      /\ answer' = answer
      /\ UNCHANGED <<predetermined_level, storage, assistance_by_root, origin>>
  BY DEF TamperShard, store
<1>2. /\ Fields(copy)
      /\ Shards(copy.proof.shards)
  BY DEF IInv, HeldInv
<1>3. /\ Fields(new)
      /\ new.from = copy.from
      /\ new.altered = TRUE
      /\ new.proof.leaf_index = copy.proof.leaf_index
      /\ new.proof.expected_root = copy.proof.expected_root
      /\ Shards(new.proof.shards)
  <2>. HIDE DEF copy
  <2>1. n \in DOMAIN copy.proof.shards
    BY DEF copy
  <2>. QED BY <1>2, <2>1, AlteredCopy
<1>9. new.proof = WithShards(copy.proof, JunkInShard(copy.proof.shards, n, j))
  <2>. HIDE DEF copy
  <2>1. new = AlteredOf(copy, n, j)
    BY DEF AlteredOf
  <2>. HIDE DEF new
  <2>. QED BY <1>2, <2>1, AlteredProof
<1>. HIDE DEF new
<1>8. \E key : AlteredFrom(new.proof, key, new.from, predetermined_level)
  <2>. DEFINE p == copy.from
              level == predetermined_level
              s == SiblingsOf(p.leaves, p.index)
              d == Height(p.leaves)
  <2>1. Place(p) /\ ~ copy.altered
    BY DEF TamperShard, IInv, HeldInv
  <2>2. PICK key : copy.proof = Stored(key, p, level)
    BY <2>1 DEF IInv, HeldInv
  <2>3. level \in Nat
    BY MaxLevelAssumption DEF IInv
  <2>4. copy.proof.shards = ShardProof(s, level)
    <3>. HIDE DEF copy, s, level
    <3>. QED BY <2>2 DEF Stored, s
  <2>5. d \in Nat /\ IsVec(s, d)
    BY <2>1, PlaceShape, SiblingsShape
  <2>6. /\ n \in DOMAIN ShardProof(s, level)
        /\ j \in DOMAIN ShardProof(s, level)[n].siblings
    BY <2>4
  <2>7. PICK J \in 0 .. d - 1 :
          JunkInShard(ShardProof(s, level), n, j) = ShardProof(JunkAt(s, J), level)
    <3>. HIDE DEF copy, p, s, d, level
    <3>1. \A x \in DOMAIN ShardProof(s, level) :
            \A y \in DOMAIN ShardProof(s, level)[x].siblings :
              \E J \in 0 .. d - 1 :
                JunkInShard(ShardProof(s, level), x, y) = ShardProof(JunkAt(s, J), level)
      <4>. SUFFICES ASSUME NEW x \in DOMAIN ShardProof(s, level),
                           NEW y \in DOMAIN ShardProof(s, level)[x].siblings
                    PROVE  \E J \in 0 .. d - 1 :
                             JunkInShard(ShardProof(s, level), x, y)
                               = ShardProof(JunkAt(s, J), level)
        OBVIOUS
      <4>. QED BY ONLY <2>3, <2>5, x \in DOMAIN ShardProof(s, level),
                       y \in DOMAIN ShardProof(s, level)[x].siblings, AlteredShards
    <3>. QED BY ONLY <2>6, <3>1
  <2>. HIDE DEF s, d, level
  <2>8. new.proof = WithShards(Stored(key, p, level), ShardProof(JunkAt(s, J), level))
    BY <1>9, <2>2, <2>4, <2>7
  <2>9. AlteredFrom(new.proof, key, p, level)
    BY <2>8 DEF AlteredFrom, s, d
  <2>. QED BY <1>3, <2>9 DEF level
<1>4. /\ DOMAIN held' = DOMAIN held
      /\ held'[client] = new
      /\ \A x \in DOMAIN held : x # client => held'[x] = held[x]
  BY <1>1
<1>5. HeldInv'
  <2>. SUFFICES ASSUME NEW x \in DOMAIN held'
                PROVE  /\ Fields(held'[x])
                       /\ Place(held'[x].from)
                       /\ held'[x].altered \in BOOLEAN
                       /\ held'[x].proof.leaf_index = held'[x].from.index
                       /\ held'[x].proof.expected_root
                            = MerkleRoot(held'[x].from.leaves)
                       /\ Shards(held'[x].proof.shards)
                       /\ ~ held'[x].altered =>
                            \E k : held'[x].proof
                                     = Stored(k, held'[x].from, predetermined_level')
                       /\ held'[x].altered =>
                            \E k : AlteredFrom(held'[x].proof, k, held'[x].from,
                                              predetermined_level')
    BY <1>4 DEF IInv, HeldInv
  <2>1. CASE x = client
    <3>1. /\ Place(copy.from)
          /\ copy.proof.leaf_index = copy.from.index
          /\ copy.proof.expected_root = MerkleRoot(copy.from.leaves)
      BY DEF IInv, HeldInv
    <3>. HIDE DEF copy
    <3>. QED BY <1>1, <1>3, <1>4, <1>8, <2>1, <3>1
  <2>2. CASE x # client
    <3>1. x \in DOMAIN held /\ held'[x] = held[x]
      BY <1>4, <2>2
    <3>. QED BY <1>1, <3>1 DEF IInv, HeldInv
  <2>. QED BY <2>1, <2>2
<1>6. LabelsPublished'
  <2>1. \A x \in DOMAIN held' :
          held'[x].proof.expected_root \in DOMAIN assistance_by_root
    <3>. SUFFICES ASSUME NEW x \in DOMAIN held'
                  PROVE  held'[x].proof.expected_root \in DOMAIN assistance_by_root
      OBVIOUS
    <3>1. CASE x = client
      BY <1>3, <1>4, <3>1 DEF IInv, LabelsPublished
    <3>2. CASE x # client
      BY <1>4, <3>2 DEF IInv, LabelsPublished
    <3>. QED BY <3>1, <3>2
  <2>. QED BY <1>1, <2>1 DEF IInv, LabelsPublished
<1>7. StoredInv' /\ LabelsInv'
  BY <1>1 DEF IInv, StoredInv, LabelsInv
<1>. QED BY <1>1, <1>5, <1>6, <1>7 DEF IInv

\* Every step preserves the invariant.
LEMMA NextPreserves == IInv /\ [Next]_vars => IInv'
<1>. SUFFICES ASSUME IInv, [Next]_vars PROVE IInv'
  OBVIOUS
<1>1. CASE \E leaves \in Tree : \E index \in 0 .. VecLen(leaves) :
             \/ AnchorFails(leaves, index)
             \/ \E key \in Key : Anchor(key, leaves, index)
  BY <1>1, AnchorFailsPreserves, AnchorPreserves
<1>2. CASE \E key \in Key : \/ QueryUnknown(key)
                            \/ \E client \in Client : Query(client, key)
  BY <1>2, QueryUnknownPreserves, QueryPreserves
<1>3. CASE \E client \in DOMAIN held :
             \E n \in DOMAIN held[client].proof.shards :
               \E j \in DOMAIN held[client].proof.shards[n].siblings :
                 TamperShard(client, n, j)
  BY <1>3, TamperShardPreserves
<1>4. CASE UNCHANGED vars
  BY <1>4 DEF vars, IInv, StoredInv, LabelsInv, LabelsPublished, HeldInv
<1>. QED BY <1>1, <1>2, <1>3, <1>4 DEF Next

\* The invariant holds in every state of the specification.
LEMMA Invariance == Spec => []IInv
BY InitEstablishes, NextPreserves, PTL DEF Spec

-------------------------------------------------------------------------------
(***************************************************************************)
(* The theorems of the store.                                              *)
(***************************************************************************)
\* The state keeps its type: the store never holds a proof without a place.
THEOREM StoreTypeCorrect == Spec => []TypeOK
<1>1. IInv => TypeOK
  <2>. SUFFICES ASSUME IInv PROVE TypeOK
    OBVIOUS
  <2>1. ASSUME NEW key \in DOMAIN storage
        PROVE  /\ DOMAIN storage[key] = {"key", "leaf_index", "shards", "expected_root"}
               /\ storage[key].key = key
               /\ origin[key].leaves \in Tree \ {<<>>}
               /\ origin[key].index \in DOMAIN origin[key].leaves
    BY DEF IInv, StoredInv, Stored, Place
  <2>2. ASSUME NEW client \in DOMAIN held
        PROVE  /\ held[client].from.leaves \in Tree \ {<<>>}
               /\ held[client].from.index \in DOMAIN held[client].from.leaves
               /\ held[client].altered \in BOOLEAN
    BY DEF IInv, HeldInv, Place
  <2>. QED BY <2>1, <2>2 DEF IInv, StoredInv, HeldInv, TypeOK
<1>. QED BY <1>1, Invariance, PTL

\* What is stored under a key is, after any number of anchors, the proof of
\* the place the key was last anchored for, in shards that cover it.
THEOREM StoredProofsCovered == Spec => []ShardsCoverProof
<1>1. IInv => ShardsCoverProof
  <2>. SUFFICES ASSUME IInv, NEW key \in DOMAIN storage
                PROVE  /\ storage[key].expected_root = MerkleRoot(origin[key].leaves)
                       /\ Abut(storage[key].shards, Height(origin[key].leaves))
                       /\ Reassemble(storage[key])
                            = MerkleProof(origin[key].leaves, origin[key].index)
    BY DEF ShardsCoverProof
  <2>. DEFINE p == origin[key]
              s == SiblingsOf(p.leaves, p.index)
  <2>1. /\ Place(p) /\ predetermined_level \in Nat
        /\ storage[key] = Stored(key, p, predetermined_level)
    BY MaxLevelAssumption DEF IInv, StoredInv
  <2>2. /\ storage[key].expected_root = MerkleRoot(p.leaves)
        /\ storage[key].shards = ShardProof(s, predetermined_level)
    BY <2>1 DEF Stored
  <2>. HIDE DEF p
  <2>3. Abut(ShardProof(s, predetermined_level), Height(p.leaves))
    BY <2>1, PlaceShape, SiblingsShape, StoredShardsAbut
  <2>4. Reassemble(storage[key]) = MerkleProof(p.leaves, p.index)
    BY <2>1, ReassembleStored
  <2>. QED BY <2>2, <2>3, <2>4 DEF p
<1>. QED BY <1>1, Invariance, PTL

\* An unaltered copy verifies the leaf of its place for ever: no later
\* anchor, of its key or of its root, takes that away.
THEOREM HeldCopiesVerify == Spec => []HeldCopyVerifies
<1>1. IInv => HeldCopyVerifies
  <2>. SUFFICES ASSUME IInv, NEW client \in DOMAIN held, ~ held[client].altered
                PROVE  Verify(OwnLeaf(held[client]), held[client].proof) = "Ok"
    BY DEF HeldCopyVerifies
  <2>. DEFINE copy == held[client]
              p == copy.from
  <2>1. PICK key : copy.proof = Stored(key, p, predetermined_level)
    BY DEF IInv, HeldInv
  <2>2. Place(p) /\ predetermined_level \in Nat
    BY MaxLevelAssumption DEF IInv, HeldInv
  <2>3. copy.proof.expected_root = MerkleRoot(p.leaves)
    BY DEF IInv, HeldInv
  <2>4. OwnLeaf(copy) = p.leaves[p.index]
    BY DEF OwnLeaf
  <2>. HIDE DEF copy, p
  <2>5. Reassemble(copy.proof) = MerkleProof(p.leaves, p.index)
    BY <2>1, <2>2, ReassembleStored
  <2>6. Verifies(MerkleProof(p.leaves, p.index), p.leaves[p.index], MerkleRoot(p.leaves))
    BY <2>2, PlaceShape, MerkleRoundTrip
  <2>. QED BY <2>3, <2>4, <2>5, <2>6 DEF Verify, copy
<1>. QED BY <1>1, Invariance, PTL

\* A copy accepts no leaf but the one it was anchored for, and none at all once
\* a sibling of it has changed, unless its walk exhibits a collision.
THEOREM AcceptedCopiesGenuine == Spec => []AcceptedCopyIsGenuine
<1>1. IInv => AcceptedCopyIsGenuine
  <2>. SUFFICES ASSUME IInv, NEW client \in DOMAIN held, NEW leaf,
                       Verify(leaf, held[client].proof) = "Ok",
                       ~ Collides(held[client].from.leaves,
                                  Reassemble(held[client].proof), leaf)
                PROVE  leaf = OwnLeaf(held[client]) /\ ~ held[client].altered
    BY DEF AcceptedCopyIsGenuine
  <2>. DEFINE copy == held[client]
              p == copy.from
              proof == Reassemble(copy.proof)
              s == SiblingsOf(p.leaves, p.index)
              d == Height(p.leaves)
              level == predetermined_level
  <2>1. /\ Place(p) /\ level \in Nat
        /\ copy.altered \in BOOLEAN
        /\ copy.proof.leaf_index = p.index
        /\ copy.proof.expected_root = MerkleRoot(p.leaves)
        /\ ~ copy.altered => \E key : copy.proof = Stored(key, p, level)
        /\ copy.altered => \E key : AlteredFrom(copy.proof, key, p, level)
    BY MaxLevelAssumption DEF IInv, HeldInv
  <2>2. Verifies(proof, leaf, MerkleRoot(p.leaves)) /\ ~ Collides(p.leaves, proof, leaf)
    BY <2>1 DEF Verify
  <2>3. /\ proof.leaf_index = p.index
        /\ proof.siblings = Concatenated(copy.proof.shards)
    BY <2>1 DEF Reassemble
  <2>4. d \in Nat /\ IsVec(s, d) /\ VecLen(s) = d
    BY <2>1, PlaceShape, SiblingsShape
  <2>5. OwnLeaf(copy) = p.leaves[p.index]
    BY DEF OwnLeaf
  <2>. HIDE DEF copy, p, proof, s, d, level
  <2>6. ASSUME VecLen(proof.siblings) = d
        PROVE  /\ leaf = p.leaves[p.index]
               /\ \A j \in 0 .. d - 1 : proof.siblings[j] = s[j]
    <3>1. /\ VecLen(p.leaves) \in Nat \ {0}
          /\ DOMAIN p.leaves = 0 .. VecLen(p.leaves) - 1
          /\ p.index \in 0 .. VecLen(p.leaves) - 1
      BY <2>1, PlaceShape
    <3>. QED BY <2>2, <2>3, <2>6, <3>1, MerkleSoundness DEF d, s
  <2>7. CASE ~ copy.altered
    <3>1. PICK key : copy.proof = Stored(key, p, level)
      BY <2>1, <2>7
    <3>2. copy.proof.shards = ShardProof(s, level)
      BY <3>1 DEF Stored, s
    <3>3. proof.siblings = s
      BY <2>1, <2>3, <2>4, <3>2, ConcatenatedShards
    <3>. QED BY <2>4, <2>5, <2>6, <2>7, <3>3 DEF copy
  <2>8. CASE copy.altered
    <3>1. PICK key : AlteredFrom(copy.proof, key, p, level)
      BY <2>1, <2>8
    <3>2. PICK J \in 0 .. d - 1 :
            copy.proof
              = WithShards(Stored(key, p, level), ShardProof(JunkAt(s, J), level))
      BY <3>1 DEF AlteredFrom, d, s
    <3>. DEFINE t == JunkAt(s, J)
    <3>3. copy.proof.shards = ShardProof(t, level)
      <4>. HIDE DEF t
      <4>1. "shards" \in DOMAIN Stored(key, p, level)
        BY DEF Stored
      <4>. QED BY <3>2, <4>1 DEF t, WithShards
    <3>4. DOMAIN s = 0 .. d - 1 /\ IsVec(t, d) /\ t[J] = Junk
      <4>1. DOMAIN s = 0 .. d - 1
        BY <2>4, VecShape
      <4>. QED BY <2>4, <4>1 DEF IsVec, JunkAt
    <3>. HIDE DEF t
    <3>5. proof.siblings = t
      BY <2>1, <2>3, <2>4, <3>3, <3>4, ConcatenatedShards
    <3>6. s[J] = Junk
      <4>1. VecLen(t) = d
        BY <2>4, <3>4, VecShape
      <4>. QED BY <2>6, <3>4, <3>5, <4>1
    <3>7. s[J] # Junk
      BY <2>1, JunkAssumption DEF Place, s, d
    <3>. QED BY <3>6, <3>7
  <2>. QED BY <2>1, <2>7, <2>8
<1>. QED BY <1>1, Invariance, PTL

\* The labels published for a root hash up to it.
THEOREM PublishedLabelsHashToRoot == Spec => []LabelsHashToRoot
<1>1. IInv => LabelsHashToRoot
  <2>. SUFFICES ASSUME IInv, NEW root \in DOMAIN assistance_by_root
                PROVE  MerkleRoot(assistance_by_root[root].node_labels) = root
    BY DEF LabelsHashToRoot
  <2>1. PICK leaves \in Tree \ {<<>>} :
          /\ MerkleRoot(leaves) = root
          /\ assistance_by_root[root] = Assistance(leaves, predetermined_level)
    BY DEF IInv, LabelsInv
  <2>. DEFINE k == Least(predetermined_level, Height(leaves))
  <2>2. assistance_by_root[root].node_labels = Levels(leaves)[k]
    BY <2>1 DEF Assistance
  <2>3. /\ VecLen(leaves) \in Nat \ {0}
        /\ DOMAIN leaves = 0 .. VecLen(leaves) - 1
    BY TreeShape
  <2>4. Height(leaves) \in Nat /\ predetermined_level \in Nat
    BY <2>3, HeightShape, MaxLevelAssumption DEF IInv
  <2>5. k \in 0 .. Height(leaves)
    BY <2>4 DEF Least
  <2>. HIDE DEF k
  <2>6. MerkleRoot(Levels(leaves)[k]) = MerkleRoot(leaves)
    BY <2>3, <2>5, RootOfLevel
  <2>. QED BY <2>1, <2>2, <2>6
<1>. QED BY <1>1, Invariance, PTL

\* No stored or held proof is left without labels for its root.
THEOREM LabelsAlwaysPublished == Spec => []LabelsPublished
<1>1. IInv => LabelsPublished
  BY DEF IInv
<1>. QED BY <1>1, Invariance, PTL

\* The lower siblings of a copy have a length, altered or not.
LEMMA LowerSiblingsShape ==
  ASSUME NEW stored, Shards(stored.shards)
  PROVE  VecLen(LowerSiblings(stored)) \in Nat
<1>. DEFINE shards == stored.shards
            Starts(n) == shards[n].from_level = 0
            First(n) == Starts(n) /\ \A m \in 1 .. n - 1 : ~ Starts(m)
            first == CHOOSE n \in DOMAIN shards : First(n)
<1>1. PICK m \in 0 .. 2 : DOMAIN shards = 1 .. m
  BY DEF Shards
<1>2. CASE \E n \in DOMAIN shards : Starts(n)
  <2>1. \E n \in DOMAIN shards : First(n)
    <3>1. PICK n \in DOMAIN shards : Starts(n)
      BY <1>2
    <3>2. n \in {1, 2} /\ (n = 2 => 1 \in DOMAIN shards)
      BY <1>1, <3>1
    <3>3. CASE n = 2 /\ ~ Starts(1)
      <4>1. First(2)
        <5>1. 1 .. 2 - 1 = {1}
          OBVIOUS
        <5>. QED BY <3>1, <3>3, <5>1
      <4>. QED BY <3>1, <3>3, <4>1
    <3>4. CASE n = 1 \/ Starts(1)
      <4>1. 1 \in DOMAIN shards /\ Starts(1)
        BY <3>1, <3>2, <3>4
      <4>2. 1 .. 1 - 1 = {}
        OBVIOUS
      <4>. QED BY <4>1, <4>2
    <3>. QED BY <3>2, <3>3, <3>4
  <2>2. first \in DOMAIN shards
    <3>. HIDE DEF First
    <3>. QED BY <2>1
  <2>3. LowerSiblings(stored) = shards[first].siblings
    BY <1>2 DEF LowerSiblings
  <2>. HIDE DEF first
  <2>. QED BY <2>2, <2>3 DEF Shards
<1>3. CASE ~ \E n \in DOMAIN shards : Starts(n)
  <2>1. LowerSiblings(stored) = <<>>
    BY <1>3 DEF LowerSiblings
  <2>2. VecLen(<<>>) = 0
    BY VecLenOfDomain
  <2>. QED BY <2>1, <2>2
<1>. QED BY <1>2, <1>3

\* In every state of the invariant what is accepted is completed to a proof that
\* verifies the leaf.
LEMMA InvCompletes == IInv => AssistanceCompletes
<1>. SUFFICES ASSUME IInv, NEW client \in DOMAIN held, NEW leaf,
                     VerifyWithAssistance(leaf, held[client].proof) = "Ok"
              PROVE  LET stored == held[client].proof
                         root == stored.expected_root
                     IN  Verifies(CompletedProof(stored, assistance_by_root[root]),
                                  leaf, root)
  BY DEF AssistanceCompletes
<1>. DEFINE stored == held[client].proof
            root == stored.expected_root
            assistance == assistance_by_root[root]
            labels == assistance.node_labels
            lower == LowerProof(stored)
            k == LevelReached(stored, assistance)
            idx == Shifted(stored.leaf_index)[k]
            upper == MerkleProof(labels, idx)
            h == Height(labels)
            first == [j \in 0 .. k - 1 |-> LowerSiblings(stored)[j]]
            whole == CompletedProof(stored, assistance)
<1>1. /\ root \in DOMAIN assistance_by_root
      /\ idx < VecLen(labels) /\ labels[idx] = Walk(lower, leaf)[k]
      /\ MerkleRoot(labels) = root
  BY DEF VerifyWithAssistance, LabelMatches
<1>2. PICK leaves \in Tree \ {<<>>} :
        assistance = Assistance(leaves, predetermined_level)
  BY <1>1 DEF IInv, LabelsInv
<1>3. /\ VecLen(leaves) \in Nat \ {0}
      /\ DOMAIN leaves = 0 .. VecLen(leaves) - 1
  BY TreeShape
<1>4. Height(leaves) \in Nat /\ predetermined_level \in Nat
  BY <1>3, HeightShape, MaxLevelAssumption DEF IInv
<1>. DEFINE l == Least(predetermined_level, Height(leaves))
<1>5. /\ l \in Nat /\ labels = Levels(leaves)[l]
      /\ assistance.predetermined_level = l
  <2>1. l \in Nat
    BY <1>4 DEF Least
  <2>2. labels = Levels(leaves)[l] /\ assistance.predetermined_level = l
    <3>. HIDE DEF l
    <3>. QED BY <1>2 DEF Assistance, l
  <2>. QED BY <2>1, <2>2
<1>6. VecLen(labels) \in Nat \ {0} /\ DOMAIN labels = 0 .. VecLen(labels) - 1
  <2>. HIDE DEF l, labels
  <2>. QED BY <1>3, <1>5, LevelShape
<1>7. k \in Nat
  <2>1. VecLen(LowerSiblings(stored)) \in Nat
    BY LowerSiblingsShape DEF IInv, HeldInv
  <2>. QED BY <1>5, <2>1 DEF LevelReached, Least
<1>8. idx \in 0 .. VecLen(labels) - 1
  <2>1. stored.leaf_index = held[client].from.index /\ Place(held[client].from)
    BY DEF IInv, HeldInv
  <2>2. idx \in Nat
    <3>. DEFINE p == held[client].from
    <3>1. \A j \in Nat : Shifted(p.index)[j]
                           \in 0 .. VecLen(Levels(p.leaves)[j]) - 1
      BY <2>1, PlaceShape, ShiftedInLevel
    <3>. HIDE DEF p, k
    <3>. QED BY <1>7, <2>1, <3>1 DEF p
  <2>. HIDE DEF idx, labels
  <2>. QED BY <1>1, <1>6, <2>2
<1>9. h \in Nat /\ VecLen(SiblingsOf(labels, idx)) = h
  <2>. HIDE DEF labels, idx
  <2>. QED BY <1>6, HeightShape, SiblingsShape
<1>10. Walk(upper, labels[idx])[h] = root
  <2>. HIDE DEF labels, idx, root
  <2>. QED BY <1>1, <1>6, <1>8, <1>9, WalkInTree, TopLevel
<1>11. /\ VecLen(whole.siblings) = k + h
       /\ \A j \in 0 .. k - 1 : whole.siblings[j] = lower.siblings[j]
       /\ \A j \in 0 .. h - 1 : whole.siblings[k + j] = upper.siblings[j]
  <2>. DEFINE s == SiblingsOf(labels, idx)
  <2>1. whole.siblings = Extend(first, s)
    BY DEF CompletedProof
  <2>2. VecLen(first) = k
    <3>. HIDE DEF k
    <3>. QED BY <1>7, VecLenOfDomain
  <2>3. \A j \in 0 .. k - 1 : first[j] = lower.siblings[j]
    BY DEF LowerProof
  <2>4. upper.siblings = s
    BY DEF MerkleProof
  <2>. HIDE DEF whole, first, s, k, h, lower, upper
  <2>5. /\ IsVec(Extend(first, s), k + h)
        /\ \A j \in 0 .. k - 1 : Extend(first, s)[j] = first[j]
        /\ \A j \in 0 .. h - 1 : Extend(first, s)[k + j] = s[j]
    BY <1>7, <1>9, <2>2, ExtendShape DEF s
  <2>6. VecLen(Extend(first, s)) = k + h
    BY <1>7, <1>9, <2>5, VecShape
  <2>. QED BY <2>1, <2>3, <2>4, <2>5, <2>6
<1>12. /\ lower.leaf_index = whole.leaf_index
       /\ upper.leaf_index = Shifted(whole.leaf_index)[k]
  BY DEF LowerProof, CompletedProof, MerkleProof
<1>. HIDE DEF stored, root, assistance, labels, lower, k, idx, upper, h, whole
<1>13. Walk(whole, leaf)[k + h] = Walk(upper, Walk(lower, leaf)[k])[h]
  <2>1. Joins(whole, lower, upper, k, h)
    BY <1>11, <1>12 DEF Joins
  <2>. QED BY <1>7, <1>9, <2>1, WalkCompose
<1>14. ReconstructRoot(whole, leaf) = root
  BY <1>1, <1>10, <1>11, <1>13 DEF ReconstructRoot
<1>. QED BY <1>14 DEF Verifies, whole, root, assistance, stored

(***************************************************************************)
(* Whatever verify_with_assistance accepts, of a copy however altered, the *)
(* lower siblings and the path of the matching label complete one another  *)
(* to a proof that verifies the leaf: a chain of hashes from the leaf to   *)
(* the anchored root.                                                      *)
(***************************************************************************)
THEOREM AssistedProofsComplete == Spec => []AssistanceCompletes
BY InvCompletes, Invariance, PTL
-------------------------------------------------------------------------------
(***************************************************************************)
(* The labels in place of the upper shard, with a hash that never          *)
(* collides and trees whose leaves are no hashes of pairs.                 *)
(***************************************************************************)
TreesOfRecords ==
  \A leaves \in Tree \ {<<>>} : \A i \in DOMAIN leaves : NoPair(leaves[i])

\* A copy has the shards of its place, or of a vector as long.
LEMMA HeldShards ==
  ASSUME IInv, NEW client \in DOMAIN held
  PROVE  LET copy == held[client]
             s == SiblingsOf(copy.from.leaves, copy.from.index)
             d == Height(copy.from.leaves)
         IN  /\ d \in Nat /\ IsVec(s, d) /\ predetermined_level \in Nat
             /\ \E t : /\ IsVec(t, d)
                       /\ copy.proof.shards = ShardProof(t, predetermined_level)
                       /\ ~ copy.altered => t = s
<1>. DEFINE copy == held[client]
            p == copy.from
            s == SiblingsOf(p.leaves, p.index)
            d == Height(p.leaves)
            level == predetermined_level
<1>1. /\ Place(p) /\ level \in Nat /\ copy.altered \in BOOLEAN
      /\ ~ copy.altered => \E key : copy.proof = Stored(key, p, level)
      /\ copy.altered => \E key : AlteredFrom(copy.proof, key, p, level)
  BY MaxLevelAssumption DEF IInv, HeldInv
<1>2. d \in Nat /\ IsVec(s, d)
  BY <1>1, PlaceShape, SiblingsShape
<1>. HIDE DEF copy, p, s, d, level
<1>3. CASE ~ copy.altered
  <2>1. PICK key : copy.proof = Stored(key, p, level)
    BY <1>1, <1>3
  <2>2. copy.proof.shards = ShardProof(s, level)
    BY <2>1 DEF Stored, s
  <2>. QED BY <1>1, <1>2, <2>2 DEF copy, p, s, d, level
<1>4. CASE copy.altered
  <2>1. PICK key : AlteredFrom(copy.proof, key, p, level)
    BY <1>1, <1>4
  <2>2. PICK J \in 0 .. d - 1 :
          copy.proof = WithShards(Stored(key, p, level), ShardProof(JunkAt(s, J), level))
    BY <2>1 DEF AlteredFrom, d, s
  <2>. DEFINE t == JunkAt(s, J)
  <2>3. IsVec(t, d)
    <3>1. DOMAIN s = 0 .. d - 1
      BY <1>2, VecShape
    <3>. QED BY <1>2, <3>1 DEF IsVec, JunkAt
  <2>. HIDE DEF t
  <2>4. copy.proof.shards = ShardProof(t, level)
    <3>1. "shards" \in DOMAIN Stored(key, p, level)
      BY DEF Stored
    <3>. QED BY <2>2, <3>1 DEF t, WithShards
  <2>. QED BY <1>1, <1>2, <1>4, <2>3, <2>4 DEF copy, p, s, d, level
<1>. QED BY <1>1, <1>3, <1>4

\* The labels a copy meets are those of the level its own tree was cut at,
\* whichever tree of its root they were last published for.
LEMMA LabelsMet ==
  ASSUME IInv, CollisionFree, TreesOfRecords, NEW client \in DOMAIN held,
         NEW leaves \in Tree \ {<<>>},
         MerkleRoot(leaves) = held[client].proof.expected_root,
         assistance_by_root[held[client].proof.expected_root]
           = Assistance(leaves, predetermined_level)
  PROVE  LET copy == held[client]
             assistance == assistance_by_root[copy.proof.expected_root]
             d == Height(copy.from.leaves)
             k == Least(predetermined_level, d)
         IN  /\ k \in 0 .. d
             /\ assistance.predetermined_level = k
             /\ assistance.node_labels = Levels(leaves)[k]
             /\ LevelReached(copy.proof, assistance) = k
             /\ Height(leaves) = d /\ Height(assistance.node_labels) = d - k
             /\ \A i \in 0 .. VecLen(Levels(copy.from.leaves)[k]) - 1 :
                  i < VecLen(Levels(leaves)[k]) =>
                    Levels(copy.from.leaves)[k][i] = Levels(leaves)[k][i]
<1>. DEFINE copy == held[client]
            p == copy.from
            assistance == assistance_by_root[copy.proof.expected_root]
            d == Height(p.leaves)
            k == Least(predetermined_level, d)
            n == VecLen(p.leaves)
            m == VecLen(leaves)
<1>1. Place(p) /\ copy.proof.expected_root = MerkleRoot(p.leaves)
  BY DEF IInv, HeldInv
<1>2. /\ n \in Nat \ {0} /\ DOMAIN p.leaves = 0 .. n - 1 /\ d \in Nat
      /\ \A i \in 0 .. n - 1 : NoPair(p.leaves[i])
  <2>1. n \in Nat \ {0} /\ DOMAIN p.leaves = 0 .. n - 1 /\ d \in Nat
    BY <1>1, PlaceShape
  <2>. QED BY <1>1, <2>1 DEF Place, TreesOfRecords
<1>3. /\ m \in Nat \ {0} /\ DOMAIN leaves = 0 .. m - 1
      /\ \A i \in 0 .. m - 1 : NoPair(leaves[i])
  <2>1. m \in Nat \ {0} /\ DOMAIN leaves = 0 .. m - 1
    BY TreeShape
  <2>. QED BY <2>1 DEF TreesOfRecords
<1>4. MerkleRoot(p.leaves) = MerkleRoot(leaves)
  BY <1>1
<1>5. /\ Height(leaves) = d
      /\ \A j \in 0 .. d : \A i \in 0 .. VecLen(Levels(p.leaves)[j]) - 1 :
           i < VecLen(Levels(leaves)[j]) => Levels(p.leaves)[j][i] = Levels(leaves)[j][i]
  <2>. DEFINE v == p.leaves
  <2>1. /\ n \in Nat \ {0} /\ DOMAIN v = 0 .. n - 1
        /\ \A i \in 0 .. n - 1 : NoPair(v[i])
        /\ MerkleRoot(v) = MerkleRoot(leaves)
    BY <1>2, <1>4
  <2>. HIDE DEF v, n, m
  <2>2. /\ Height(v) = Height(leaves)
        /\ \A j \in 0 .. Height(v) : \A i \in 0 .. VecLen(Levels(v)[j]) - 1 :
             i < VecLen(Levels(leaves)[j]) => Levels(v)[j][i] = Levels(leaves)[j][i]
    BY <1>3, <2>1, SameRootAgree, SMTT(40)
  <2>. QED BY <2>2 DEF v
<1>6. k \in 0 .. d
  BY <1>2, MaxLevelAssumption DEF IInv, Least
<1>7. assistance.predetermined_level = k /\ assistance.node_labels = Levels(leaves)[k]
  <2>1. assistance = [predetermined_level |-> k, node_labels |-> Levels(leaves)[k]]
    BY <1>5 DEF Assistance
  <2>. HIDE DEF assistance, k
  <2>. QED BY <2>1
<1>8. LevelReached(copy.proof, assistance) = k
  <2>1. PICK t : IsVec(t, d) /\ copy.proof.shards = ShardProof(t, predetermined_level)
    BY HeldShards
  <2>2. Least(k, VecLen(LowerSiblings(copy.proof))) = k
    BY <1>2, <2>1, HeldShards, LowerOfShards
  <2>. QED BY <1>7, <2>2 DEF LevelReached
<1>9. Height(assistance.node_labels) = d - k
  <2>. HIDE DEF k, m, d, assistance
  <2>. QED BY <1>3, <1>5, <1>6, <1>7, RootOfLevel
<1>. QED BY <1>5, <1>6, <1>7, <1>8, <1>9
\* The lower siblings of a copy are those it would be put together from.
LEMMA LowerHalf ==
  ASSUME IInv, NEW client \in DOMAIN held
  PROVE  LET copy == held[client]
             k == Least(predetermined_level, Height(copy.from.leaves))
         IN  \A j \in 0 .. k - 1 :
               LowerSiblings(copy.proof)[j] = Reassemble(copy.proof).siblings[j]
<1>. DEFINE copy == held[client]
            d == Height(copy.from.leaves)
            level == predetermined_level
<1>1. d \in Nat /\ level \in Nat
  BY HeldShards
<1>2. PICK t : IsVec(t, d) /\ copy.proof.shards = ShardProof(t, level)
  BY HeldShards
<1>. HIDE DEF copy, d, level
<1>3. \A j \in 0 .. Least(level, d) - 1 : LowerSiblings(copy.proof)[j] = t[j]
  BY <1>1, <1>2, LowerOfShards
<1>4. Reassemble(copy.proof).siblings = t
  BY <1>1, <1>2, ConcatenatedShards DEF Reassemble
<1>. QED BY <1>3, <1>4 DEF copy, d, level

\* What verify_with_assistance accepts of a copy is the leaf it was anchored
\* for, with the genuine siblings below labels that reach its position.
LEMMA AcceptedIsIntact ==
  ASSUME IInv, CollisionFree, TreesOfRecords,
         NEW client \in DOMAIN held, NEW leaf \in Leaf \cup {Junk},
         VerifyWithAssistance(leaf, held[client].proof) = "Ok"
  PROVE  /\ leaf = OwnLeaf(held[client])
         /\ LowerIntact(held[client])
         /\ WithinLabels(held[client])
<1>. DEFINE copy == held[client]
            p == copy.from
            root == copy.proof.expected_root
            assistance == assistance_by_root[root]
            labels == assistance.node_labels
            lower == LowerSiblings(copy.proof)
            d == Height(p.leaves)
            k == Least(predetermined_level, d)
            idx == Shifted(p.index)[k]
            whole == CompletedProof(copy.proof, assistance)
            first == [j \in 0 .. k - 1 |-> lower[j]]
            upper == SiblingsOf(labels, idx)
<1>1. /\ Place(p) /\ copy.proof.leaf_index = p.index
      /\ root = MerkleRoot(p.leaves) /\ predetermined_level \in Nat
  BY MaxLevelAssumption DEF IInv, HeldInv
<1>2. PICK leaves \in Tree \ {<<>>} :
        MerkleRoot(leaves) = root /\ assistance = Assistance(leaves, predetermined_level)
  BY DEF IInv, LabelsInv, LabelsPublished
<1>3. /\ k \in 0 .. d /\ LevelReached(copy.proof, assistance) = k
      /\ Height(labels) = d - k
  BY <1>2, LabelsMet
<1>4. /\ VecLen(p.leaves) \in Nat \ {0} /\ DOMAIN p.leaves = 0 .. VecLen(p.leaves) - 1
      /\ p.index \in 0 .. VecLen(p.leaves) - 1 /\ d \in Nat
  BY <1>1, PlaceShape
<1>5. PICK t : IsVec(t, d) /\ copy.proof.shards = ShardProof(t, predetermined_level)
  BY HeldShards
<1>6. \A j \in 0 .. k - 1 : lower[j] = t[j]
  BY <1>1, <1>4, <1>5, LowerOfShards
<1>7. Reassemble(copy.proof).siblings = t
  BY <1>1, <1>4, <1>5, ConcatenatedShards DEF Reassemble
<1>8. Verifies(whole, leaf, root)
  BY InvCompletes DEF AssistanceCompletes
<1>9. whole.leaf_index = p.index /\ whole.siblings = Extend(first, upper)
  BY <1>1, <1>3 DEF CompletedProof
<1>. HIDE DEF d, k, idx, labels, lower, whole, root
<1>10. /\ k \in Nat /\ d - k \in Nat /\ k + (d - k) = d
       /\ \A j \in 0 .. k - 1 : j \in 0 .. d - 1
  BY <1>3, <1>4
<1>11. VecLen(first) = k /\ VecLen(upper) = d - k
  <2>1. VecLen(first) = k
    BY <1>10, VecLenOfDomain
  <2>2. VecLen(upper) = d - k
    BY <1>3, <1>10, SiblingsShape
  <2>. QED BY <2>1, <2>2
<1>12. /\ VecLen(whole.siblings) = d
       /\ \A j \in 0 .. k - 1 : whole.siblings[j] = lower[j]
  <2>1. IsVec(Extend(first, upper), k + (d - k))
        /\ \A j \in 0 .. k - 1 : Extend(first, upper)[j] = first[j]
    <3>. HIDE DEF first, upper
    <3>. QED BY <1>10, <1>11, ExtendShape
  <2>2. VecLen(Extend(first, upper)) = d
    <3>. HIDE DEF first, upper
    <3>. QED BY <1>4, <1>10, <2>1, VecShape
  <2>3. \A j \in 0 .. k - 1 : first[j] = lower[j]
    OBVIOUS
  <2>. QED BY <1>9, <2>1, <2>2, <2>3
<1>13. ~ Collides(p.leaves, whole, leaf)
  BY NoCollision
<1>14. /\ leaf = p.leaves[p.index]
       /\ \A j \in 0 .. d - 1 : whole.siblings[j] = SiblingsOf(p.leaves, p.index)[j]
  <2>1. /\ whole.leaf_index \in 0 .. VecLen(p.leaves) - 1
        /\ VecLen(whole.siblings) = Height(p.leaves)
        /\ Verifies(whole, leaf, MerkleRoot(p.leaves))
    BY <1>1, <1>4, <1>8, <1>9, <1>12 DEF d
  <2>. HIDE DEF p
  <2>2. /\ leaf = p.leaves[whole.leaf_index]
        /\ \A j \in 0 .. Height(p.leaves) - 1 :
             whole.siblings[j] = SiblingsOf(p.leaves, whole.leaf_index)[j]
    BY <1>4, <1>13, <2>1, MerkleSoundness
  <2>. QED BY <1>9, <2>2 DEF d
<1>15. \A j \in 0 .. k - 1 : t[j] = SiblingsOf(p.leaves, p.index)[j]
  BY <1>6, <1>10, <1>12, <1>14
<1>16. LowerIntact(copy)
  BY <1>7, <1>15 DEF LowerIntact, GenuineSiblings, CutLevel, MerkleProof, k, d
<1>17. WithinLabels(copy)
  <2>1. LabelMatches(leaf, copy.proof, assistance)
    BY DEF VerifyWithAssistance, root
  <2>. QED BY <1>1, <1>3, <2>1 DEF LabelMatches, WithinLabels, CutLevel, k, d, root
<1>. QED BY <1>14, <1>16, <1>17 DEF OwnLeaf

\* A copy with the genuine siblings below labels that reach its position is
\* accepted for its leaf, whichever tree of its root the labels are of.
LEMMA IntactIsAccepted ==
  ASSUME IInv, CollisionFree, TreesOfRecords, NEW client \in DOMAIN held,
         LowerIntact(held[client]), WithinLabels(held[client])
  PROVE  VerifyWithAssistance(OwnLeaf(held[client]), held[client].proof) = "Ok"
<1>. DEFINE copy == held[client]
            p == copy.from
            root == copy.proof.expected_root
            assistance == assistance_by_root[root]
            labels == assistance.node_labels
            lower == LowerProof(copy.proof)
            genuine == MerkleProof(p.leaves, p.index)
            s == SiblingsOf(p.leaves, p.index)
            d == Height(p.leaves)
            k == Least(predetermined_level, d)
            idx == Shifted(p.index)[k]
            own == p.leaves[p.index]
<1>1. /\ Place(p) /\ copy.proof.leaf_index = p.index
      /\ root = MerkleRoot(p.leaves) /\ predetermined_level \in Nat
      /\ root \in DOMAIN assistance_by_root
  BY MaxLevelAssumption DEF IInv, HeldInv, LabelsPublished
<1>2. PICK leaves \in Tree \ {<<>>} :
        MerkleRoot(leaves) = root /\ assistance = Assistance(leaves, predetermined_level)
  BY <1>1 DEF IInv, LabelsInv
<1>3. /\ k \in 0 .. d /\ LevelReached(copy.proof, assistance) = k
      /\ labels = Levels(leaves)[k] /\ Height(leaves) = d
      /\ \A i \in 0 .. VecLen(Levels(p.leaves)[k]) - 1 :
           i < VecLen(Levels(leaves)[k]) => Levels(p.leaves)[k][i] = Levels(leaves)[k][i]
  BY <1>2, LabelsMet
<1>4. /\ VecLen(p.leaves) \in Nat \ {0} /\ DOMAIN p.leaves = 0 .. VecLen(p.leaves) - 1
      /\ p.index \in 0 .. VecLen(p.leaves) - 1 /\ d \in Nat
  BY <1>1, PlaceShape
<1>5. VecLen(leaves) \in Nat \ {0} /\ DOMAIN leaves = 0 .. VecLen(leaves) - 1
  BY TreeShape
<1>6. \A j \in 0 .. k - 1 : LowerSiblings(copy.proof)[j] = s[j]
  BY LowerHalf DEF LowerIntact, CutLevel, GenuineSiblings, MerkleProof
<1>7. MerkleRoot(labels) = root
  <2>. HIDE DEF k, d, labels
  <2>1. MerkleRoot(Levels(leaves)[k]) = MerkleRoot(leaves)
    BY <1>3, <1>5, RootOfLevel
  <2>. QED BY <1>2, <1>3, <2>1
<1>8. Walk(lower, own)[k] = Levels(p.leaves)[k][idx]
  <2>1. /\ lower.leaf_index = genuine.leaf_index
        /\ \A j \in 0 .. k - 1 : genuine.siblings[j] = lower.siblings[j]
    BY <1>1, <1>6 DEF MerkleProof, LowerProof
  <2>. HIDE DEF genuine, lower, k, d, own
  <2>2. Walk(genuine, own)[k] = Walk(lower, own)[k]
    BY <1>3, <2>1, WalkBelow
  <2>3. Walk(genuine, own)[k] = Levels(p.leaves)[k][idx]
    BY <1>3, <1>4, WalkInTree DEF genuine, own, d
  <2>. QED BY <2>2, <2>3
<1>9. idx < VecLen(labels)
  BY DEF WithinLabels, CutLevel
<1>10. idx \in 0 .. VecLen(Levels(p.leaves)[k]) - 1
  <2>1. k \in Nat
    <3>. HIDE DEF k, d
    <3>. QED BY <1>3
  <2>. HIDE DEF k
  <2>. QED BY <1>4, <2>1, ShiftedInLevel
<1>11. labels[idx] = Walk(lower, own)[k]
  <2>. HIDE DEF idx, labels, k, lower, own
  <2>. QED BY <1>3, <1>8, <1>9, <1>10
<1>12. LabelMatches(own, copy.proof, assistance)
  BY <1>1, <1>3, <1>9, <1>11 DEF LabelMatches
<1>13. VerifyWithAssistance(own, copy.proof) = "Ok"
  BY <1>1, <1>7, <1>12 DEF VerifyWithAssistance
<1>. QED BY <1>13 DEF OwnLeaf

\* A copy with the genuine siblings below the labels is answered as it would
\* be had nothing of it changed.
LEMMA IntactAnsweredAsGenuine ==
  ASSUME IInv, CollisionFree, TreesOfRecords, NEW client \in DOMAIN held, NEW leaf,
         LowerIntact(held[client])
  PROVE  VerifyWithAssistance(leaf, held[client].proof)
           = VerifyWithAssistance(leaf, Genuine(held[client]))
<1>. DEFINE copy == held[client]
            p == copy.from
            root == copy.proof.expected_root
            assistance == assistance_by_root[root]
            stored == Genuine(copy)
            s == SiblingsOf(p.leaves, p.index)
            d == Height(p.leaves)
            k == Least(predetermined_level, d)
<1>1. /\ Place(p) /\ root = MerkleRoot(p.leaves) /\ predetermined_level \in Nat
      /\ root \in DOMAIN assistance_by_root
      /\ DOMAIN copy.proof = {"key", "leaf_index", "shards", "expected_root"}
  BY MaxLevelAssumption DEF IInv, HeldInv, LabelsPublished, Fields
<1>2. PICK leaves \in Tree \ {<<>>} :
        MerkleRoot(leaves) = root /\ assistance = Assistance(leaves, predetermined_level)
  BY <1>1 DEF IInv, LabelsInv
<1>3. /\ k \in 0 .. d /\ assistance.predetermined_level = k
      /\ LevelReached(copy.proof, assistance) = k
  BY <1>2, LabelsMet
<1>4. d \in Nat /\ IsVec(s, d)
  BY <1>1, PlaceShape, SiblingsShape
<1>5. /\ stored.leaf_index = copy.proof.leaf_index /\ stored.expected_root = root
      /\ stored.shards = ShardProof(s, predetermined_level)
  <2>. DEFINE shards == ShardProof(GenuineSiblings(copy), predetermined_level)
  <2>1. GenuineSiblings(copy) = s
    BY DEF GenuineSiblings, MerkleProof
  <2>2. stored = [copy.proof EXCEPT !.shards = shards]
    BY DEF Genuine
  <2>. HIDE DEF copy, stored, shards
  <2>. QED BY <1>1, <2>1, <2>2 DEF shards
<1>. HIDE DEF stored
<1>6. /\ Least(k, VecLen(LowerSiblings(stored))) = k
      /\ \A j \in 0 .. k - 1 : LowerSiblings(stored)[j] = s[j]
  <2>1. predetermined_level \in Nat /\ stored.shards = ShardProof(s, predetermined_level)
    BY <1>1, <1>5
  <2>2. k = Least(predetermined_level, d)
    OBVIOUS
  <2>. HIDE DEF copy, p, s, d, k, root, assistance
  <2>. PICK dd, tt, level, ss :
         dd = d /\ tt = s /\ level = predetermined_level /\ ss = stored
    OBVIOUS
  <2>3. dd \in Nat /\ IsVec(tt, dd) /\ level \in Nat /\ ss.shards = ShardProof(tt, level)
    BY <1>4, <2>1
  <2>4. /\ Least(Least(level, dd), VecLen(LowerSiblings(ss))) = Least(level, dd)
        /\ \A j \in 0 .. Least(level, dd) - 1 : LowerSiblings(ss)[j] = tt[j]
    BY <2>3, LowerOfShards
  <2>5. k = Least(level, dd)
    BY <2>2
  <2>. QED BY <2>4, <2>5
<1>7. \A j \in 0 .. k - 1 : LowerSiblings(copy.proof)[j] = s[j]
  BY LowerHalf DEF LowerIntact, CutLevel, GenuineSiblings, MerkleProof
<1>8. LevelReached(stored, assistance) = k
  BY <1>3, <1>6 DEF LevelReached
<1>9. Walk(LowerProof(stored), leaf)[k] = Walk(LowerProof(copy.proof), leaf)[k]
  <2>. DEFINE x == LowerProof(stored)
              y == LowerProof(copy.proof)
  <2>1. /\ y.leaf_index = x.leaf_index
        /\ \A j \in 0 .. k - 1 : x.siblings[j] = y.siblings[j]
    BY <1>5, <1>6, <1>7 DEF LowerProof
  <2>2. k \in Nat
    <3>. HIDE DEF k, d
    <3>. QED BY <1>3, <1>4
  <2>. HIDE DEF x, y, k
  <2>3. Walk(x, leaf)[k] = Walk(y, leaf)[k]
    BY <2>1, <2>2, WalkBelow
  <2>. QED BY <2>3 DEF x, y
<1>10. LabelMatches(leaf, stored, assistance) <=> LabelMatches(leaf, copy.proof, assistance)
  <2>. HIDE DEF k, assistance
  <2>. QED BY <1>3, <1>5, <1>8, <1>9 DEF LabelMatches
<1>. QED BY <1>1, <1>5, <1>10 DEF VerifyWithAssistance, stored

(***************************************************************************)
(* What verify_with_assistance answers for a copy, however it was altered, *)
(* is decided by the leaf, the siblings below the labels and how far the   *)
(* labels reach, whichever tree of the root they are of: what the copy     *)
(* holds above that level makes no difference for any leaf.                *)
(***************************************************************************)
THEOREM UpperShardsNotTrusted ==
  ASSUME CollisionFree, TreesOfRecords
  PROVE  Spec => []UpperShardNotTrusted
<1>1. IInv => UpperShardNotTrusted
  BY AcceptedIsIntact, IntactIsAccepted, IntactAnsweredAsGenuine DEF UpperShardNotTrusted
<1>. QED BY <1>1, Invariance, PTL

(***************************************************************************)
(* A copy that was not altered is refused with the labels only after the   *)
(* labels of its root were replaced by those of a shorter vector.          *)
(***************************************************************************)
THEOREM RefusedOnceReplaced ==
  ASSUME CollisionFree, TreesOfRecords
  PROVE  Spec => []RefusedOnlyWhenReplaced
<1>1. IInv => RefusedOnlyWhenReplaced
  <2>. SUFFICES ASSUME IInv, NEW client \in DOMAIN held, ~ held[client].altered,
                       VerifyWithAssistance(OwnLeaf(held[client]), held[client].proof) # "Ok"
                PROVE  LET copy == held[client] IN
                       \E leaves \in Tree \ {<<>>} :
                         /\ MerkleRoot(leaves) = copy.proof.expected_root
                         /\ VecLen(leaves) < VecLen(copy.from.leaves)
                         /\ assistance_by_root[copy.proof.expected_root]
                              = Assistance(leaves, predetermined_level)
    BY DEF RefusedOnlyWhenReplaced
  <2>. DEFINE copy == held[client]
              p == copy.from
              root == copy.proof.expected_root
              assistance == assistance_by_root[root]
              labels == assistance.node_labels
              s == SiblingsOf(p.leaves, p.index)
              d == Height(p.leaves)
              k == Least(predetermined_level, d)
              idx == Shifted(p.index)[k]
  <2>1. Place(p) /\ root \in DOMAIN assistance_by_root
    BY DEF IInv, HeldInv, LabelsPublished
  <2>2. PICK leaves \in Tree \ {<<>>} :
          MerkleRoot(leaves) = root /\ assistance = Assistance(leaves, predetermined_level)
    BY <2>1 DEF IInv, LabelsInv
  <2>3. k \in 0 .. d /\ labels = Levels(leaves)[k]
    BY <2>2, LabelsMet
  <2>4. /\ VecLen(p.leaves) \in Nat \ {0} /\ DOMAIN p.leaves = 0 .. VecLen(p.leaves) - 1
        /\ p.index \in 0 .. VecLen(p.leaves) - 1 /\ d \in Nat
    BY <2>1, PlaceShape
  <2>5. VecLen(leaves) \in Nat \ {0} /\ DOMAIN leaves = 0 .. VecLen(leaves) - 1
    BY TreeShape
  <2>6. SUFFICES ASSUME VecLen(p.leaves) <= VecLen(leaves) PROVE FALSE
    BY <2>2, <2>4, <2>5
  <2>7. LowerIntact(copy)
    <3>1. /\ IsVec(s, d) /\ d \in Nat /\ predetermined_level \in Nat
          /\ copy.proof.shards = ShardProof(s, predetermined_level)
      BY HeldShards
    <3>. HIDE DEF s, d
    <3>2. Reassemble(copy.proof).siblings = s
      BY <3>1, ConcatenatedShards DEF Reassemble
    <3>. QED BY <3>2 DEF LowerIntact, GenuineSiblings, MerkleProof, s
  <2>8. WithinLabels(copy)
    <3>1. k \in Nat
      <4>. HIDE DEF k, d
      <4>. QED BY <2>3
    <3>2. idx < VecLen(labels)
      <4>. HIDE DEF k, labels
      <4>1. Shifted(p.index)[k] \in 0 .. VecLen(Levels(p.leaves)[k]) - 1
        BY <2>4, <3>1, ShiftedInLevel
      <4>2. VecLen(Levels(p.leaves)[k]) <= VecLen(Levels(leaves)[k])
        BY <2>4, <2>5, <2>6, <3>1, WidthsGrow
      <4>3. VecLen(Levels(p.leaves)[k]) \in Nat /\ VecLen(Levels(leaves)[k]) \in Nat
        BY <2>4, <2>5, <3>1, LevelWidths
      <4>. QED BY <2>3, <4>1, <4>2, <4>3
    <3>. QED BY <3>2 DEF WithinLabels, CutLevel
  <2>9. VerifyWithAssistance(OwnLeaf(copy), copy.proof) = "Ok"
    BY <2>7, <2>8, IntactIsAccepted
  <2>. QED BY <2>9
<1>. QED BY <1>1, Invariance, PTL

-------------------------------------------------------------------------------
(***************************************************************************)
(* The store under the audit verifier.                                     *)
(***************************************************************************)
\* Callers step the store by anchoring alone, so its invariant holds.
LEMMA StoreInvariance == ASpec => []IInv
<1>1. AInit => IInv
  BY InitEstablishes DEF AInit
<1>2. IInv /\ [ANext]_avars => IInv'
  <2>. SUFFICES ASSUME IInv, [ANext]_avars PROVE IInv'
    OBVIOUS
  <2>1. CASE \E key \in Key, leaves \in Tree : \E index \in DOMAIN leaves :
               CallerAnchors(key, leaves, index)
    <3>0. PICK key \in Key, leaves \in Tree :
            \E index \in DOMAIN leaves : CallerAnchors(key, leaves, index)
      BY <2>1
    <3>1. PICK index \in DOMAIN leaves : CallerAnchors(key, leaves, index)
      BY <3>0
    <3>2. Anchor(key, leaves, index)
      BY <3>1 DEF CallerAnchors
    <3>3. index \in 0 .. VecLen(leaves)
      <4>1. leaves \in Tree \ {<<>>}
        BY <3>2 DEF Anchor
      <4>. QED BY <4>1, TreeShape
    <3>. QED BY <3>2, <3>3, AnchorPreserves
  <2>2. CASE UNCHANGED vars
    BY <2>2, NextPreserves
  <2>3. CASE \E bundle \in Bundle : Audit(bundle)
    BY <2>2, <2>3 DEF Audit
  <2>4. CASE UNCHANGED avars
    BY <2>2, <2>4 DEF avars
  <2>. QED BY <2>1, <2>3, <2>4 DEF ANext
<1>. QED BY <1>1, <1>2, PTL DEF ASpec

\* The operators of the tree are the same in the two specifications.
LEMMA SameTree ==
  /\ \A leaves : Promise!MerkleRoot(leaves) = MerkleRoot(leaves)
  /\ \A leaves, index : Promise!MerkleProof(leaves, index) = MerkleProof(leaves, index)
  /\ \A leaves, proof, leaf :
       Promise!Collides(leaves, proof, leaf) <=> Collides(leaves, proof, leaf)
<1>1. \A S : Promise!Cardinality(S) = Cardinality(S)
  BY DEF Promise!Cardinality, Cardinality
<1>2. \A v : Promise!VecLen(v) = VecLen(v)
  BY <1>1 DEF Promise!VecLen, VecLen
<1>3. \A v : Promise!Pad(v) = Pad(v)
  BY <1>2 DEF Promise!Pad, Pad
<1>4. \A v : Promise!NextLevel(v) = NextLevel(v)
  BY <1>2, <1>3 DEF Promise!NextLevel, NextLevel
<1>5. \A v : Promise!Levels(v) = Levels(v)
  BY <1>4 DEF Promise!Levels, Levels
<1>6. \A v, d : Promise!IsHeight(v, d) <=> IsHeight(v, d)
  BY <1>2, <1>5 DEF Promise!IsHeight, IsHeight
<1>7. \A v : Promise!Height(v) = Height(v)
  BY <1>2, <1>6 DEF Promise!Height, Height
<1>8. \A v : Promise!MerkleRoot(v) = MerkleRoot(v)
  BY <1>5, <1>7 DEF Promise!MerkleRoot, MerkleRoot
<1>9. \A i : Promise!Shifted(i) = Shifted(i)
  BY DEF Promise!Shifted, Shifted
<1>10. \A v, i : Promise!MerkleProof(v, i) = MerkleProof(v, i)
  BY <1>3, <1>5, <1>7, <1>9 DEF Promise!MerkleProof, MerkleProof,
     Promise!SiblingsOf, SiblingsOf, Promise!SiblingIndex, SiblingIndex
<1>11. \A i, x, y : Promise!HashUp(i, x, y) = HashUp(i, x, y)
  BY DEF Promise!HashUp, HashUp
<1>12. \A proof, leaf : Promise!Walk(proof, leaf) = Walk(proof, leaf)
  BY <1>9, <1>11 DEF Promise!Walk, Walk
<1>13. \A i, x, y : Promise!PairHashed(i, x, y) = PairHashed(i, x, y)
  BY DEF Promise!PairHashed, PairHashed
<1>14. \A v, j, i : Promise!PairInTree(v, j, i) = PairInTree(v, j, i)
  BY <1>3, <1>5 DEF Promise!PairInTree, PairInTree
<1>15. \A v, proof, leaf, j :
         Promise!CollidesAt(v, proof, leaf, j) <=> CollidesAt(v, proof, leaf, j)
  BY <1>9, <1>12, <1>13, <1>14 DEF Promise!CollidesAt, CollidesAt
<1>16. \A v, proof, leaf : Promise!Collides(v, proof, leaf) <=> Collides(v, proof, leaf)
  BY <1>7, <1>15 DEF Promise!Collides, Collides
<1>. QED BY <1>8, <1>10, <1>16

-------------------------------------------------------------------------------
(***************************************************************************)
(* The simulation, step by step.                                           *)
(***************************************************************************)
\* A verified leaf is the leaf of the place, or the hash collides; a refused
\* one is not.
LEMMA VerifyJudgesPlace ==
  ASSUME NEW key, NEW p, Place(p), NEW level \in Nat, NEW leaf
  PROVE  LET answered == Verify(leaf, Stored(key, p, level)) IN
         /\ answered \in {"Ok", "RootMismatch"}
         /\ answered = "Ok" => \/ leaf = p.leaves[p.index]
                               \/ Collides(p.leaves, MerkleProof(p.leaves, p.index), leaf)
         /\ answered = "RootMismatch" => leaf # p.leaves[p.index]
<1>. DEFINE proof == MerkleProof(p.leaves, p.index)
            root == MerkleRoot(p.leaves)
            stored == Stored(key, p, level)
<1>1. /\ VecLen(p.leaves) \in Nat \ {0}
      /\ DOMAIN p.leaves = 0 .. VecLen(p.leaves) - 1
      /\ p.index \in 0 .. VecLen(p.leaves) - 1
      /\ Height(p.leaves) \in Nat
  BY PlaceShape
<1>2. Verify(leaf, stored) = IF Verifies(proof, leaf, root) THEN "Ok" ELSE "RootMismatch"
  <2>1. Reassemble(stored) = proof
    BY ReassembleStored
  <2>2. stored.expected_root = root
    BY DEF Stored
  <2>. HIDE DEF stored, proof, root
  <2>. QED BY <2>1, <2>2 DEF Verify
<1>3. Verifies(proof, p.leaves[p.index], root)
  BY <1>1, MerkleRoundTrip
<1>4. Verifies(proof, leaf, root) /\ ~ Collides(p.leaves, proof, leaf)
        => leaf = p.leaves[p.index]
  <2>. SUFFICES ASSUME Verifies(proof, leaf, root), ~ Collides(p.leaves, proof, leaf)
                PROVE  leaf = p.leaves[p.index]
    OBVIOUS
  <2>1. proof.leaf_index = p.index /\ VecLen(proof.siblings) = Height(p.leaves)
    BY <1>1, SiblingsShape DEF MerkleProof
  <2>. HIDE DEF proof
  <2>. QED BY <1>1, <2>1, MerkleSoundness
<1>. HIDE DEF proof, root, stored
<1>. QED BY <1>2, <1>3, <1>4 DEF proof, stored

\* A caller that anchors commits a key to a place.
LEMMA AnchorsCommit ==
  ASSUME NEW key, NEW leaves, NEW index, CallerAnchors(key, leaves, index)
  PROVE  Promise!Commit(key, leaves, index)
<1>1. origin' = Insert(origin, key, [leaves |-> leaves, index |-> index])
  BY DEF CallerAnchors, Anchor
<1>2. verdict' = verdict
  BY DEF CallerAnchors
<1>. QED BY <1>1, <1>2 DEF Promise!Commit, Insert

\* An audit grants evidence, or refuses it for one of the three reasons.
LEMMA AuditsAnswer ==
  ASSUME IInv, NEW bundle \in Bundle, Audit(bundle)
  PROVE  \/ Promise!Grant(bundle)
         \/ Promise!RefuseMalformed(bundle)
         \/ Promise!RefuseUnknown(bundle)
         \/ Promise!RefuseMisplaced(bundle)
<1>. DEFINE p == origin[bundle.key]
            proof == MerkleProof(p.leaves, p.index)
<1>1. /\ origin' = origin
      /\ verdict' = [bundle |-> {bundle}, outcome |-> Outcome(bundle),
                     evidence |-> IF Outcome(bundle) = "Ok"
                                    THEN {AuditEvidence(bundle)} ELSE {}]
  BY DEF Audit, vars
<1>2. DOMAIN origin = DOMAIN storage
  BY DEF IInv, StoredInv
<1>3. CASE ~ Promise!WellFormed(bundle)
  <2>1. Outcome(bundle) \in {"NonAdversarialMode", "RecordLeafMismatch"}
    BY <1>3 DEF Promise!WellFormed, Outcome
  <2>2. Promise!Answer(bundle, Outcome(bundle), {})
    BY <1>1, <2>1 DEF Promise!Answer
  <2>. QED BY <1>3, <2>1, <2>2 DEF Promise!RefuseMalformed
<1>4. CASE Promise!WellFormed(bundle) /\ bundle.key \notin DOMAIN origin
  <2>1. Outcome(bundle) = "KeyNotFound"
    BY <1>2, <1>4 DEF Promise!WellFormed, Outcome
  <2>2. Promise!Answer(bundle, "KeyNotFound", {})
    BY <1>1, <2>1 DEF Promise!Answer
  <2>. QED BY <1>4, <2>2 DEF Promise!RefuseUnknown
<1>5. CASE Promise!WellFormed(bundle) /\ bundle.key \in DOMAIN origin
  <2>1. /\ Place(p) /\ predetermined_level \in Nat
        /\ storage[bundle.key] = Stored(bundle.key, p, predetermined_level)
    BY <1>2, <1>5, MaxLevelAssumption DEF IInv, StoredInv
  <2>2. Outcome(bundle) = Verify(bundle.leaf, storage[bundle.key])
    BY <1>2, <1>5 DEF Promise!WellFormed, Outcome
  <2>. HIDE DEF p
  <2>3. /\ Outcome(bundle) \in {"Ok", "RootMismatch"}
        /\ Outcome(bundle) = "Ok" => \/ bundle.leaf = p.leaves[p.index]
                                     \/ Collides(p.leaves, proof, bundle.leaf)
        /\ Outcome(bundle) = "RootMismatch" => bundle.leaf # p.leaves[p.index]
    BY <2>1, <2>2, VerifyJudgesPlace
  <2>4. CASE Outcome(bundle) = "Ok"
    <3>1. AuditEvidence(bundle) = Promise!EvidenceOf(bundle)
      <4>1. /\ storage[bundle.key].expected_root = MerkleRoot(p.leaves)
            /\ storage[bundle.key].leaf_index = p.index
        BY <2>1 DEF Stored
      <4>. QED BY <4>1, SameTree DEF AuditEvidence, Promise!EvidenceOf, p
    <3>2. Promise!Answer(bundle, "Ok", {Promise!EvidenceOf(bundle)})
      BY <1>1, <2>4, <3>1 DEF Promise!Answer
    <3>3. \/ Promise!InPlace(bundle)
          \/ Promise!Collides(p.leaves, Promise!MerkleProof(p.leaves, p.index),
                              bundle.leaf)
      BY <2>3, <2>4, SameTree DEF Promise!InPlace, p
    <3>. QED BY <1>5, <3>2, <3>3 DEF Promise!Grant, p
  <2>5. CASE Outcome(bundle) = "RootMismatch"
    <3>1. Promise!Answer(bundle, "RootMismatch", {})
      BY <1>1, <2>5 DEF Promise!Answer
    <3>2. ~ Promise!InPlace(bundle)
      BY <2>3, <2>5 DEF Promise!InPlace, p
    <3>. QED BY <1>5, <3>1, <3>2 DEF Promise!RefuseMisplaced
  <2>. QED BY <2>3, <2>4, <2>5
<1>. QED BY <1>3, <1>4, <1>5

(***************************************************************************)
(* The audit verifier implements Evidence: sharding, the predetermined     *)
(* level, duplicated nodes and everything else anchored around a key never *)
(* change what an audit under the key answers.                             *)
(***************************************************************************)
THEOREM AuditImplementsEvidence == ASpec => ImplementsEvidence
<1>1. AInit => Promise!EInit
  BY DEF AInit, Init, Promise!EInit
<1>2. IInv /\ [ANext]_avars => [Promise!ENext]_(Promise!evars)
  <2>. SUFFICES ASSUME IInv, [ANext]_avars PROVE [Promise!ENext]_(Promise!evars)
    OBVIOUS
  <2>1. CASE \E key \in Key, leaves \in Tree : \E index \in DOMAIN leaves :
               CallerAnchors(key, leaves, index)
    BY <2>1, AnchorsCommit DEF Promise!ENext
  <2>2. CASE \E bundle \in Bundle : Audit(bundle)
    BY <2>2, AuditsAnswer DEF Promise!ENext
  <2>3. CASE UNCHANGED avars
    BY <2>3 DEF avars, vars, Promise!evars
  <2>. QED BY <2>1, <2>2, <2>3 DEF ANext
<1>. QED BY <1>1, <1>2, StoreInvariance, PTL DEF ASpec, ImplementsEvidence, Promise!ESpec

-------------------------------------------------------------------------------
(***************************************************************************)
(* Evidence once given: the place of a key is in a tree that was anchored, *)
(* and so was the tree behind any evidence, whatever became of its key.    *)
(***************************************************************************)
WitnessInv ==
  /\ \A key \in DOMAIN origin : origin[key].leaves \in anchored
  /\ EvidenceWitnessesRecord

\* Evidence is witnessed by the place of the bundle's key.
LEMMA GrantedIsWitnessed ==
  ASSUME IInv, NEW bundle \in Bundle, Outcome(bundle) = "Ok"
  PROVE  /\ bundle.key \in DOMAIN origin
         /\ Witnessed(AuditEvidence(bundle), origin[bundle.key].leaves)
<1>. DEFINE p == origin[bundle.key]
            e == AuditEvidence(bundle)
<1>1. /\ HashRecord(bundle.record) = bundle.leaf
      /\ bundle.key \in DOMAIN storage
      /\ Verify(bundle.leaf, storage[bundle.key]) = "Ok"
  BY DEF Outcome
<1>2. /\ Place(p) /\ predetermined_level \in Nat /\ bundle.key \in DOMAIN origin
      /\ storage[bundle.key] = Stored(bundle.key, p, predetermined_level)
  BY <1>1, MaxLevelAssumption DEF IInv, StoredInv
<1>3. /\ e.merkle_root = MerkleRoot(p.leaves) /\ e.leaf_index = p.index
      /\ e.disclosed_record = bundle.record
  BY <1>2 DEF AuditEvidence, Stored
<1>. HIDE DEF p, e
<1>4. \/ bundle.leaf = p.leaves[p.index]
      \/ Collides(p.leaves, MerkleProof(p.leaves, p.index), bundle.leaf)
  BY <1>1, <1>2, VerifyJudgesPlace
<1>5. Witnessed(e, p.leaves)
  BY <1>1, <1>2, <1>3, <1>4 DEF Witnessed, Place
<1>. QED BY <1>2, <1>5 DEF p, e

(***************************************************************************)
(* Whatever is anchored before and after an audit, the evidence it gave    *)
(* names a tree that was anchored and the place of the record in it.       *)
(***************************************************************************)
THEOREM EvidenceStaysWitnessed == ASpec => []EvidenceWitnessesRecord
<1>1. AInit => WitnessInv
  BY DEF AInit, Init, WitnessInv, EvidenceWitnessesRecord
<1>2. IInv /\ WitnessInv /\ [ANext]_avars => WitnessInv'
  <2>. SUFFICES ASSUME IInv, WitnessInv, [ANext]_avars PROVE WitnessInv'
    OBVIOUS
  <2>1. CASE \E key \in Key, leaves \in Tree : \E index \in DOMAIN leaves :
               CallerAnchors(key, leaves, index)
    <3>0. PICK key \in Key, leaves \in Tree :
            \E index \in DOMAIN leaves : CallerAnchors(key, leaves, index)
      BY <2>1
    <3>1. PICK index \in DOMAIN leaves : CallerAnchors(key, leaves, index)
      BY <3>0
    <3>. DEFINE p == [leaves |-> leaves, index |-> index]
    <3>2. /\ origin' = Insert(origin, key, p)
          /\ anchored' = anchored \cup {leaves} /\ verdict' = verdict
      BY <3>1 DEF CallerAnchors, Anchor
    <3>3. p.leaves = leaves
      OBVIOUS
    <3>. HIDE DEF p
    <3>4. /\ DOMAIN origin' = DOMAIN origin \cup {key} /\ origin'[key] = p
          /\ \A x \in DOMAIN origin : x # key => origin'[x] = origin[x]
      BY <3>2 DEF Insert
    <3>5. \A x \in DOMAIN origin' : origin'[x].leaves \in anchored'
      BY <3>2, <3>3, <3>4 DEF WitnessInv
    <3>6. EvidenceWitnessesRecord'
      BY <3>2 DEF WitnessInv, EvidenceWitnessesRecord, Witnessed
    <3>. QED BY <3>5, <3>6 DEF WitnessInv
  <2>2. CASE \E bundle \in Bundle : Audit(bundle)
    <3>1. PICK bundle \in Bundle : Audit(bundle)
      BY <2>2
    <3>2. /\ origin' = origin /\ anchored' = anchored
          /\ verdict'.evidence = IF Outcome(bundle) = "Ok"
                                   THEN {AuditEvidence(bundle)} ELSE {}
      BY <3>1 DEF Audit, vars
    <3>3. \A e \in verdict'.evidence : \E leaves \in anchored : Witnessed(e, leaves)
      BY <3>2, GrantedIsWitnessed DEF WitnessInv
    <3>. QED BY <3>2, <3>3 DEF WitnessInv, EvidenceWitnessesRecord, Witnessed
  <2>3. CASE UNCHANGED avars
    BY <2>3 DEF avars, vars, WitnessInv, EvidenceWitnessesRecord, Witnessed
  <2>. QED BY <2>1, <2>2, <2>3 DEF ANext
<1>3. WitnessInv => EvidenceWitnessesRecord
  BY DEF WitnessInv
<1>. QED BY <1>1, <1>2, <1>3, StoreInvariance, PTL DEF ASpec
===============================================================================
