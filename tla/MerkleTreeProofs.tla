--------------------------- MODULE MerkleTreeProofs ---------------------------
(***************************************************************************)
(* Theorems about the operators of MerkleTree and Shards, for every leaf   *)
(* vector, index, proof, level and hash of a pair.                         *)
(***************************************************************************)
EXTENDS Shards, FiniteSetTheorems, TLAPS

\* The bodies of the loops, as steps of Iteration.
LevelStep(p, j, level) == NextLevel(level)
ShiftStep(p, j, idx) == idx \div 2
WalkStep(proof, j, current) ==
  HashUp(Shifted(proof.leaf_index)[j], current, proof.siblings[j])
ExtendStep(shards, n, v) == Extend(v, shards[n + 1].siblings)

LevelLoop == INSTANCE Iteration WITH Step <- LevelStep
ShiftLoop == INSTANCE Iteration WITH Step <- ShiftStep
WalkLoop  == INSTANCE Iteration WITH Step <- WalkStep
ExtendLoop == INSTANCE Iteration WITH Step <- ExtendStep

\* A vector's length is the number of its indices.
LEMMA VecLenOfDomain ==
  ASSUME NEW n \in Nat, NEW v, DOMAIN v = 0 .. n - 1
  PROVE  VecLen(v) = n
BY FS_Interval DEF VecLen

-------------------------------------------------------------------------------
(***************************************************************************)
(* The loops, round by round.                                              *)
(***************************************************************************)
\* Levels starts with the leaves and makes each level from the one below.
LEMMA LevelsEquations ==
  ASSUME NEW leaves
  PROVE  /\ Levels(leaves)[0] = leaves
         /\ \A j \in Nat : Levels(leaves)[j + 1] = NextLevel(Levels(leaves)[j])
<1>. DEFINE L == LevelLoop!Iterates(leaves, leaves)
<1>1. Levels(leaves) = L
  BY DEF Levels, LevelLoop!Iterates, LevelStep
<1>2. L[0] = leaves /\ \A j \in Nat : L[j + 1] = LevelStep(leaves, j, L[j])
  BY LevelLoop!IterationEquations
<1>. HIDE DEF L
<1>. QED BY <1>1, <1>2 DEF LevelStep

\* Each round of the loop halves the index.
LEMMA ShiftedEquations ==
  ASSUME NEW index
  PROVE  /\ Shifted(index)[0] = index
         /\ \A j \in Nat : Shifted(index)[j + 1] = Shifted(index)[j] \div 2
<1>. DEFINE I == ShiftLoop!Iterates(index, index)
<1>1. Shifted(index) = I
  BY DEF Shifted, ShiftLoop!Iterates, ShiftStep
<1>2. I[0] = index /\ \A j \in Nat : I[j + 1] = ShiftStep(index, j, I[j])
  BY ShiftLoop!IterationEquations
<1>. HIDE DEF I
<1>. QED BY <1>1, <1>2 DEF ShiftStep

\* The walk of reconstruct_root starts at the leaf and consumes one sibling
\* in each round.
LEMMA WalkEquations ==
  ASSUME NEW proof, NEW leaf
  PROVE  /\ Walk(proof, leaf)[0] = leaf
         /\ \A j \in Nat : Walk(proof, leaf)[j + 1]
                           = HashUp(Shifted(proof.leaf_index)[j],
                                    Walk(proof, leaf)[j], proof.siblings[j])
<1>. DEFINE W == WalkLoop!Iterates(proof, leaf)
<1>1. Walk(proof, leaf) = W
  BY DEF Walk, WalkLoop!Iterates, WalkStep
<1>2. W[0] = leaf /\ \A j \in Nat : W[j + 1] = WalkStep(proof, j, W[j])
  BY WalkLoop!IterationEquations
<1>. HIDE DEF W
<1>. QED BY <1>1, <1>2 DEF WalkStep

-------------------------------------------------------------------------------
(***************************************************************************)
(* The shape of a level.                                                   *)
(***************************************************************************)
\* Padding makes the length even and keeps every node of the level.
LEMMA PadShape ==
  ASSUME NEW n \in Nat \ {0}, NEW level, DOMAIN level = 0 .. n - 1
  PROVE  /\ DOMAIN Pad(level) = 0 .. n + (n % 2) - 1
         /\ VecLen(Pad(level)) = n + (n % 2)
         /\ \A i \in 0 .. n - 1 : Pad(level)[i] = level[i]
<1>1. VecLen(level) = n
  BY VecLenOfDomain
<1>2. n + (n % 2) \in Nat /\ n % 2 \in {0, 1}
  OBVIOUS
<1>3. DOMAIN Pad(level) = 0 .. n + (n % 2) - 1
  BY <1>1 DEF Pad
<1>4. VecLen(Pad(level)) = n + (n % 2)
  BY <1>2, <1>3, VecLenOfDomain
<1>5. ASSUME NEW i \in 0 .. n - 1 PROVE Pad(level)[i] = level[i]
  BY <1>1, <1>2 DEF Pad
<1>. QED BY <1>3, <1>4, <1>5

\* The next level has half as many nodes, rounded up, each the hash of a pair
\* of the padded level.
LEMMA NextLevelShape ==
  ASSUME NEW n \in Nat \ {0}, NEW level, DOMAIN level = 0 .. n - 1
  PROVE  /\ DOMAIN NextLevel(level) = 0 .. ((n + 1) \div 2) - 1
         /\ \A i \in 0 .. ((n + 1) \div 2) - 1 :
              NextLevel(level)[i] = HashPair(Pad(level)[2 * i], Pad(level)[2 * i + 1])
<1>1. VecLen(Pad(level)) = n + (n % 2)
  BY PadShape
<1>2. (n + (n % 2)) \div 2 = (n + 1) \div 2
  OBVIOUS
<1>3. NextLevel(level) =
        [i \in 0 .. ((n + 1) \div 2) - 1 |->
           HashPair(Pad(level)[2 * i], Pad(level)[2 * i + 1])]
  BY <1>1, <1>2 DEF NextLevel
<1>. QED BY <1>3

-------------------------------------------------------------------------------
(***************************************************************************)
(* The shape of the tree.                                                  *)
(***************************************************************************)
\* Every level is a vector that is not empty, half as long as the one below,
\* and the level n over n leaves has one node at most.
LEMMA LevelShape ==
  ASSUME NEW n \in Nat \ {0}, NEW leaves, DOMAIN leaves = 0 .. n - 1
  PROVE  \A j \in Nat :
           LET w == VecLen(Levels(leaves)[j]) IN
           /\ w \in Nat \ {0}
           /\ DOMAIN Levels(leaves)[j] = 0 .. w - 1
           /\ w = 1 \/ w + j <= n
           /\ VecLen(Levels(leaves)[j + 1]) = (w + 1) \div 2
<1>. DEFINE L == Levels(leaves)
            IsLevel(j) == /\ VecLen(L[j]) \in Nat \ {0}
                          /\ DOMAIN L[j] = 0 .. VecLen(L[j]) - 1
                          /\ VecLen(L[j]) = 1 \/ VecLen(L[j]) + j <= n
            S == {j \in Nat : IsLevel(j)}
<1>1. L[0] = leaves /\ \A j \in Nat : L[j + 1] = NextLevel(L[j])
  BY LevelsEquations
<1>. HIDE DEF L
<1>2. 0 \in S
  <2>1. VecLen(leaves) = n
    BY VecLenOfDomain
  <2>2. VecLen(L[0]) = n /\ DOMAIN L[0] = 0 .. n - 1
    BY <1>1, <2>1
  <2>3. IsLevel(0)
    BY <2>2
  <2>. QED BY <2>3
<1>3. ASSUME NEW j \in Nat, IsLevel(j)
      PROVE  IsLevel(j + 1) /\ VecLen(L[j + 1]) = (VecLen(L[j]) + 1) \div 2
  <2>. DEFINE w == VecLen(L[j])
              half == (w + 1) \div 2
  <2>1. w \in Nat \ {0} /\ half \in Nat \ {0}
    BY <1>3
  <2>2. DOMAIN L[j + 1] = 0 .. half - 1
    BY <1>1, <1>3, NextLevelShape
  <2>3. VecLen(L[j + 1]) = half
    BY <2>1, <2>2, VecLenOfDomain
  <2>4. half = 1 \/ half + (j + 1) <= n
    BY <1>3, <2>1
  <2>. QED BY <2>1, <2>2, <2>3, <2>4
<1>4. \A j \in Nat : j \in S
  <2>1. \A j \in Nat : j \in S => j + 1 \in S
    BY <1>3
  <2>. HIDE DEF S
  <2>. QED BY <1>2, <2>1, LevelLoop!SetInduction
<1>. QED BY <1>3, <1>4 DEF L

\* The loop of merkle_root reaches a level of one node: Height is the number
\* of its rounds, at most the number of leaves.
LEMMA HeightShape ==
  ASSUME NEW n \in Nat \ {0}, NEW leaves, DOMAIN leaves = 0 .. n - 1
  PROVE  /\ Height(leaves) \in 0 .. n
         /\ IsHeight(leaves, Height(leaves))
<1>. DEFINE W == [j \in Nat |-> VecLen(Levels(leaves)[j])]
            First(d) == W[d] = 1 /\ \A j \in 0 .. d - 1 : W[j] > 1
            S == {j \in Nat : \/ \E d \in 0 .. j : First(d)
                              \/ \A i \in 0 .. j : W[i] > 1}
<1>1. \A j \in Nat : W[j] \in Nat \ {0} /\ (W[j] = 1 \/ W[j] + j <= n)
  BY LevelShape
<1>2. VecLen(leaves) = n
  BY VecLenOfDomain
<1>3. \A d \in Nat : First(d) <=> IsHeight(leaves, d)
  BY DEF IsHeight
<1>. HIDE DEF W
<1>4. n \in S
  <2>1. 0 \in S
    BY <1>1
  <2>2. \A j \in Nat : j \in S => j + 1 \in S
    <3>. SUFFICES ASSUME NEW j \in Nat, j \in S PROVE j + 1 \in S
      OBVIOUS
    <3>1. CASE \E d \in 0 .. j : First(d)
      BY <3>1
    <3>2. CASE \A i \in 0 .. j : W[i] > 1
      <4>1. CASE W[j + 1] = 1
        BY <3>2, <4>1
      <4>2. CASE W[j + 1] > 1
        <5>1. \A i \in 0 .. j + 1 : i \in 0 .. j \/ i = j + 1
          OBVIOUS
        <5>. QED BY <3>2, <4>2, <5>1
      <4>. QED BY <1>1, <4>1, <4>2
    <3>. QED BY <3>1, <3>2
  <2>3. \A j \in Nat : j \in S
    <3>. HIDE DEF S
    <3>. QED BY <2>1, <2>2, LevelLoop!SetInduction
  <2>. QED BY <2>3
<1>5. \E d \in 0 .. n : First(d)
  <2>1. W[n] = 1
    BY <1>1
  <2>. QED BY <1>4, <2>1
<1>6. \E d \in 0 .. n : IsHeight(leaves, d)
  BY <1>3, <1>5
<1>. QED BY <1>2, <1>6 DEF Height

\* The shifted index of a leaf stays inside every level.
LEMMA ShiftedInLevel ==
  ASSUME NEW n \in Nat \ {0}, NEW leaves, DOMAIN leaves = 0 .. n - 1,
         NEW index \in 0 .. n - 1
  PROVE  \A j \in Nat :
           Shifted(index)[j] \in 0 .. VecLen(Levels(leaves)[j]) - 1
<1>. DEFINE Width(j) == VecLen(Levels(leaves)[j])
            S == {j \in Nat : Shifted(index)[j] \in 0 .. Width(j) - 1}
<1>1. Levels(leaves)[0] = leaves
  BY LevelsEquations
<1>2. \A j \in Nat : Width(j) \in Nat \ {0} /\ Width(j + 1) = (Width(j) + 1) \div 2
  BY LevelShape
<1>3. 0 \in S
  BY <1>1, ShiftedEquations, VecLenOfDomain
<1>4. \A j \in Nat : j \in S => j + 1 \in S
  <2>. SUFFICES ASSUME NEW j \in Nat, j \in S PROVE j + 1 \in S
    OBVIOUS
  <2>. DEFINE w == Width(j)
              idx == Shifted(index)[j]
  <2>1. idx \in 0 .. w - 1 /\ w \in Nat \ {0}
    BY <1>2
  <2>2. idx \div 2 \in 0 .. ((w + 1) \div 2) - 1
    <3>. HIDE DEF idx, w
    <3>. QED BY <2>1
  <2>3. Shifted(index)[j + 1] = idx \div 2
    BY ShiftedEquations
  <2>4. Width(j + 1) = (w + 1) \div 2
    BY <1>2
  <2>5. Shifted(index)[j + 1] \in 0 .. Width(j + 1) - 1
    BY <2>2, <2>3, <2>4
  <2>. QED BY <2>5
<1>5. \A j \in Nat : j \in S
  <2>. HIDE DEF S
  <2>. QED BY <1>3, <1>4, LevelLoop!SetInduction
<1>. QED BY <1>5

-------------------------------------------------------------------------------
(***************************************************************************)
(* The prover and the verifier agree.                                      *)
(***************************************************************************)
\* Hashing a node of a padded level with its sibling, on the side its parity
\* says, gives the node above both.
LEMMA HashUpInTree ==
  ASSUME NEW n \in Nat \ {0}, NEW leaves, DOMAIN leaves = 0 .. n - 1,
         NEW j \in Nat,
         NEW idx \in 0 .. VecLen(Levels(leaves)[j]) - 1
  PROVE  LET padded == Pad(Levels(leaves)[j]) IN
         /\ padded[idx] = Levels(leaves)[j][idx]
         /\ HashUp(idx, padded[idx], padded[SiblingIndex(idx)])
              = Levels(leaves)[j + 1][idx \div 2]
         /\ HashPair(padded[2 * (idx \div 2)], padded[2 * (idx \div 2) + 1])
              = Levels(leaves)[j + 1][idx \div 2]
<1>. DEFINE level == Levels(leaves)[j]
            w == VecLen(level)
            padded == Pad(level)
            up == idx \div 2
<1>1. w \in Nat \ {0} /\ DOMAIN level = 0 .. w - 1
  BY LevelShape
<1>2. Levels(leaves)[j + 1] = NextLevel(level)
  BY LevelsEquations
<1>3. padded[idx] = level[idx]
  BY <1>1, PadShape
<1>. HIDE DEF level, w, padded
<1>4. up \in 0 .. ((w + 1) \div 2) - 1
  BY <1>1 DEF w, level
<1>5. NextLevel(level)[up] = HashPair(padded[2 * up], padded[2 * up + 1])
  <2>. HIDE DEF up
  <2>. QED BY <1>1, <1>4, NextLevelShape DEF padded
<1>6. HashUp(idx, padded[idx], padded[SiblingIndex(idx)])
        = HashPair(padded[2 * up], padded[2 * up + 1])
  <2>0. idx \in Nat
    BY <1>1 DEF w, level
  <2>1. CASE idx % 2 = 0
    <3>1. idx = 2 * up /\ SiblingIndex(idx) = 2 * up + 1
      BY <2>0, <2>1 DEF SiblingIndex
    <3>. HIDE DEF up
    <3>. QED BY <2>1, <3>1 DEF HashUp
  <2>2. CASE idx % 2 = 1
    <3>1. idx = 2 * up + 1 /\ SiblingIndex(idx) = 2 * up
      BY <2>0, <2>2 DEF SiblingIndex
    <3>. HIDE DEF up
    <3>. QED BY <2>2, <3>1 DEF HashUp
  <2>. QED BY <2>0, <2>1, <2>2
<1>. QED BY <1>2, <1>3, <1>5, <1>6 DEF padded, level

\* The root is the only node of the top level.
LEMMA TopLevel ==
  ASSUME NEW n \in Nat \ {0}, NEW leaves, DOMAIN leaves = 0 .. n - 1,
         NEW index \in 0 .. n - 1
  PROVE  /\ Height(leaves) \in Nat
         /\ Shifted(index)[Height(leaves)] = 0
         /\ Levels(leaves)[Height(leaves)][Shifted(index)[Height(leaves)]]
              = MerkleRoot(leaves)
<1>1. Height(leaves) \in Nat
  BY HeightShape
<1>2. VecLen(Levels(leaves)[Height(leaves)]) = 1
  BY HeightShape DEF IsHeight
<1>3. Shifted(index)[Height(leaves)] \in 0 .. 0
  BY <1>1, <1>2, ShiftedInLevel
<1>. QED BY <1>1, <1>3 DEF MerkleRoot

\* After j siblings the verifier stands on the node of level j above the leaf.
LEMMA WalkInTree ==
  ASSUME NEW n \in Nat \ {0}, NEW leaves, DOMAIN leaves = 0 .. n - 1,
         NEW index \in 0 .. n - 1
  PROVE  \A j \in 0 .. Height(leaves) :
           Walk(MerkleProof(leaves, index), leaves[index])[j]
             = Levels(leaves)[j][Shifted(index)[j]]
<1>. DEFINE proof == MerkleProof(leaves, index)
            W == Walk(proof, leaves[index])
            L == Levels(leaves)
            I == Shifted(index)
            H == Height(leaves)
            S == {j \in Nat : j <= H => W[j] = L[j][I[j]]}
<1>1. proof.leaf_index = index /\ proof.siblings = SiblingsOf(leaves, index)
  BY DEF MerkleProof
<1>2. H \in Nat
  BY HeightShape
<1>3. L[0] = leaves /\ I[0] = index /\ W[0] = leaves[index]
  BY LevelsEquations, ShiftedEquations, WalkEquations
<1>4. \A j \in Nat : W[j + 1] = HashUp(I[j], W[j], proof.siblings[j])
  <2>1. Shifted(proof.leaf_index) = I
    BY <1>1
  <2>. HIDE DEF proof, I
  <2>2. \A j \in Nat : W[j + 1] = HashUp(Shifted(proof.leaf_index)[j], W[j],
                                       proof.siblings[j])
    BY WalkEquations, ZenonT(40)
  <2>. QED BY <2>1, <2>2
<1>5. \A j \in 0 .. H - 1 : proof.siblings[j] = Pad(L[j])[SiblingIndex(I[j])]
  BY <1>1 DEF SiblingsOf
<1>6. \A j \in Nat : /\ I[j] \in 0 .. VecLen(L[j]) - 1
                     /\ I[j + 1] = I[j] \div 2
  BY ShiftedInLevel, ShiftedEquations
<1>. HIDE DEF proof, W, L, I, H
<1>7. 0 \in S
  BY <1>2, <1>3
<1>8. \A j \in Nat : j \in S => j + 1 \in S
  <2>. SUFFICES ASSUME NEW j \in Nat, W[j] = L[j][I[j]], j + 1 <= H
                PROVE  W[j + 1] = L[j + 1][I[j + 1]]
    BY <1>2
  <2>1. W[j + 1] = HashUp(I[j], L[j][I[j]], Pad(L[j])[SiblingIndex(I[j])])
    BY <1>2, <1>4, <1>5
  <2>2. /\ Pad(L[j])[I[j]] = L[j][I[j]]
        /\ HashUp(I[j], Pad(L[j])[I[j]], Pad(L[j])[SiblingIndex(I[j])])
             = L[j + 1][I[j] \div 2]
    <3>1. I[j] \in 0 .. VecLen(Levels(leaves)[j]) - 1
      BY <1>6 DEF L
    <3>. QED BY <3>1, HashUpInTree DEF L
  <2>. QED BY <1>6, <2>1, <2>2
<1>9. \A j \in Nat : j \in S
  <2>. HIDE DEF S
  <2>. QED BY <1>7, <1>8, LevelLoop!SetInduction
<1>. QED BY <1>2, <1>9 DEF proof, W, L, I, H

(***************************************************************************)
(* merkle_proof(leaves, i).verify(leaves[i], merkle_root(leaves)) is always*)
(* Ok: for every vector of leaves, of any length, every index in it, and   *)
(* every hash of a pair.                                                   *)
(***************************************************************************)
THEOREM MerkleRoundTrip ==
  ASSUME NEW n \in Nat \ {0}, NEW leaves, DOMAIN leaves = 0 .. n - 1,
         NEW index \in 0 .. n - 1
  PROVE  Verifies(MerkleProof(leaves, index), leaves[index], MerkleRoot(leaves))
<1>. DEFINE proof == MerkleProof(leaves, index)
<1>1. Height(leaves) \in Nat
  BY HeightShape
<1>2. VecLen(proof.siblings) = Height(leaves)
  <2>1. DOMAIN proof.siblings = 0 .. Height(leaves) - 1
    BY DEF MerkleProof, SiblingsOf
  <2>. HIDE DEF proof
  <2>. QED BY <1>1, <2>1, VecLenOfDomain
<1>3. Walk(proof, leaves[index])[Height(leaves)] = MerkleRoot(leaves)
  BY <1>1, WalkInTree, TopLevel
<1>. HIDE DEF proof
<1>4. Verifies(proof, leaves[index], MerkleRoot(leaves))
  BY <1>2, <1>3 DEF Verifies, ReconstructRoot
<1>. QED BY <1>4 DEF proof

(***************************************************************************)
(* When a verifier accepts a proof of the tree's height for a position of  *)
(* the tree, the leaf is the leaf at that position and the siblings are    *)
(* the tree's, or the walk exhibits two pairs with one hash.               *)
(***************************************************************************)
THEOREM MerkleSoundness ==
  ASSUME NEW n \in Nat \ {0}, NEW leaves, DOMAIN leaves = 0 .. n - 1,
         NEW proof, NEW leaf,
         proof.leaf_index \in 0 .. n - 1,
         VecLen(proof.siblings) = Height(leaves),
         Verifies(proof, leaf, MerkleRoot(leaves)),
         ~ Collides(leaves, proof, leaf)
  PROVE  /\ leaf = leaves[proof.leaf_index]
         /\ \A j \in 0 .. Height(leaves) - 1 :
              proof.siblings[j] = SiblingsOf(leaves, proof.leaf_index)[j]
<1>. DEFINE index == proof.leaf_index
            W == Walk(proof, leaf)
            L == Levels(leaves)
            I == Shifted(index)
            H == Height(leaves)
            OnTree(j) == W[j] = L[j][I[j]]
            S == {j \in Nat : j <= H => OnTree(H - j)}
<1>1. H \in Nat
  BY HeightShape
<1>2. L[0] = leaves /\ I[0] = index /\ W[0] = leaf
  BY LevelsEquations, ShiftedEquations, WalkEquations
<1>3. \A j \in Nat : W[j + 1] = HashUp(I[j], W[j], proof.siblings[j])
  BY WalkEquations
<1>4. \A j \in Nat : /\ I[j] \in 0 .. VecLen(L[j]) - 1
                     /\ I[j + 1] = I[j] \div 2
  BY ShiftedInLevel, ShiftedEquations
<1>5. OnTree(H)
  BY TopLevel DEF Verifies, ReconstructRoot
<1>6. ASSUME NEW j \in 0 .. H - 1, OnTree(j + 1)
      PROVE  OnTree(j) /\ proof.siblings[j] = Pad(L[j])[SiblingIndex(I[j])]
  <2>. DEFINE padded == Pad(L[j])
              a == PairHashed(I[j], W[j], proof.siblings[j])
              b == PairInTree(leaves, j, I[j])
  <2>0. j \in Nat /\ I[j] \in Nat
    BY <1>1, <1>4
  <2>1. /\ padded[I[j]] = L[j][I[j]]
        /\ HashPair(padded[2 * (I[j] \div 2)], padded[2 * (I[j] \div 2) + 1])
             = L[j + 1][I[j] \div 2]
    <3>1. I[j] \in 0 .. VecLen(Levels(leaves)[j]) - 1
      BY <1>4, <2>0
    <3>. QED BY <2>0, <3>1, HashUpInTree
  <2>2. b = <<padded[2 * (I[j] \div 2)], padded[2 * (I[j] \div 2) + 1]>>
    BY DEF PairInTree
  <2>3. HashPair(a[1], a[2]) = W[j + 1]
    <3>1. W[j + 1] = HashUp(I[j], W[j], proof.siblings[j])
      BY <1>3, <2>0
    <3>. HIDE DEF W, I
    <3>. QED BY <3>1 DEF HashUp, PairHashed
  <2>4. HashPair(b[1], b[2]) = W[j + 1]
    <3>1. W[j + 1] = L[j + 1][I[j] \div 2]
      BY <1>4, <1>6, <2>0
    <3>. HIDE DEF W, I, L, padded, b
    <3>. QED BY <2>1, <2>2, <3>1
  <2>5. a = b
    <3>1. ~ CollidesAt(leaves, proof, leaf, j)
      BY DEF Collides
    <3>2. ~ (a # b /\ HashPair(a[1], a[2]) = HashPair(b[1], b[2]))
      BY <3>1 DEF CollidesAt
    <3>. HIDE DEF a, b
    <3>. QED BY <2>3, <2>4, <3>2
  <2>. HIDE DEF W, I, L, padded
  <2>6. CASE I[j] % 2 = 0
    <3>1. 2 * (I[j] \div 2) = I[j] /\ SiblingIndex(I[j]) = 2 * (I[j] \div 2) + 1
      BY <2>0, <2>6 DEF SiblingIndex
    <3>2. a = <<W[j], proof.siblings[j]>>
      BY <2>6 DEF PairHashed
    <3>3. W[j] = padded[I[j]] /\ proof.siblings[j] = padded[SiblingIndex(I[j])]
      <4>. HIDE DEF a, b
      <4>. QED BY <2>2, <2>5, <3>1, <3>2
    <3>. QED BY <2>1, <3>3 DEF padded
  <2>7. CASE I[j] % 2 = 1
    <3>1. 2 * (I[j] \div 2) + 1 = I[j] /\ SiblingIndex(I[j]) = 2 * (I[j] \div 2)
      BY <2>0, <2>7 DEF SiblingIndex
    <3>2. a = <<proof.siblings[j], W[j]>>
      BY <2>7 DEF PairHashed
    <3>3. W[j] = padded[I[j]] /\ proof.siblings[j] = padded[SiblingIndex(I[j])]
      <4>. HIDE DEF a, b
      <4>. QED BY <2>2, <2>5, <3>1, <3>2
    <3>. QED BY <2>1, <3>3 DEF padded
  <2>8. I[j] % 2 \in {0, 1}
    BY <2>0
  <2>. QED BY <2>6, <2>7, <2>8
<1>. HIDE DEF OnTree
<1>7. \A j \in Nat : j \in S
  <2>1. 0 \in S
    BY <1>1, <1>5
  <2>2. \A j \in Nat : j \in S => j + 1 \in S
    <3>. SUFFICES ASSUME NEW j \in Nat, OnTree(H - j), j + 1 <= H
                  PROVE  OnTree(H - (j + 1))
      BY <1>1
    <3>1. H - (j + 1) \in 0 .. H - 1 /\ (H - (j + 1)) + 1 = H - j
      BY <1>1
    <3>. HIDE DEF H
    <3>. QED BY <1>6, <3>1
  <2>. HIDE DEF S
  <2>. QED BY <2>1, <2>2, LevelLoop!SetInduction
<1>8. \A j \in 0 .. H : OnTree(j)
  <2>. SUFFICES ASSUME NEW j \in 0 .. H PROVE OnTree(j)
    OBVIOUS
  <2>1. H - j \in Nat /\ H - j <= H /\ H - (H - j) = j
    BY <1>1
  <2>2. H - j \in S
    BY <1>7, <2>1
  <2>. QED BY <2>1, <2>2
<1>9. leaf = leaves[index]
  BY <1>1, <1>2, <1>8 DEF OnTree
<1>10. \A j \in 0 .. H - 1 :
         proof.siblings[j] = SiblingsOf(leaves, index)[j]
  <2>. SUFFICES ASSUME NEW j \in 0 .. H - 1
                PROVE  proof.siblings[j] = SiblingsOf(leaves, index)[j]
    OBVIOUS
  <2>1. OnTree(j + 1)
    BY <1>1, <1>8
  <2>2. proof.siblings[j] = Pad(L[j])[SiblingIndex(I[j])]
    BY <1>6, <2>1
  <2>. QED BY <2>2 DEF SiblingsOf
<1>. QED BY <1>9, <1>10

-------------------------------------------------------------------------------
(***************************************************************************)
(* Stopping at a level and going on from there.                            *)
(***************************************************************************)
\* Shifting by k and then by j is shifting by k + j.
LEMMA ShiftedCompose ==
  ASSUME NEW index, NEW k \in Nat
  PROVE  \A j \in Nat : Shifted(Shifted(index)[k])[j] = Shifted(index)[k + j]
<1>. DEFINE I == Shifted(index)
            U == Shifted(I[k])
            S == {j \in Nat : U[j] = I[k + j]}
<1>1. U[0] = I[k] /\ \A j \in Nat : U[j + 1] = U[j] \div 2
  BY ShiftedEquations
<1>2. \A j \in Nat : I[j + 1] = I[j] \div 2
  BY ShiftedEquations
<1>. HIDE DEF I, U
<1>3. 0 \in S
  BY <1>1
<1>4. \A j \in Nat : j \in S => j + 1 \in S
  <2>. SUFFICES ASSUME NEW j \in Nat, U[j] = I[k + j]
                PROVE  U[j + 1] = I[k + (j + 1)]
    OBVIOUS
  <2>1. k + j \in Nat /\ (k + j) + 1 = k + (j + 1)
    OBVIOUS
  <2>2. I[(k + j) + 1] = I[k + j] \div 2
    BY <1>2, <2>1
  <2>. QED BY <1>1, <2>1, <2>2
<1>5. \A j \in Nat : j \in S
  <2>. HIDE DEF S
  <2>. QED BY <1>3, <1>4, ShiftLoop!SetInduction
<1>. QED BY <1>5 DEF I, U

\* The levels over a level of a tree are the levels of the tree above it.
LEMMA LevelsCompose ==
  ASSUME NEW leaves, NEW k \in Nat
  PROVE  \A j \in Nat : Levels(Levels(leaves)[k])[j] = Levels(leaves)[k + j]
<1>. DEFINE L == Levels(leaves)
            U == Levels(L[k])
            S == {j \in Nat : U[j] = L[k + j]}
<1>1. U[0] = L[k] /\ \A j \in Nat : U[j + 1] = NextLevel(U[j])
  BY LevelsEquations
<1>2. \A j \in Nat : L[j + 1] = NextLevel(L[j])
  BY LevelsEquations
<1>. HIDE DEF L, U
<1>3. 0 \in S
  BY <1>1
<1>4. \A j \in Nat : j \in S => j + 1 \in S
  <2>. SUFFICES ASSUME NEW j \in Nat, U[j] = L[k + j]
                PROVE  U[j + 1] = L[k + (j + 1)]
    OBVIOUS
  <2>1. k + j \in Nat /\ (k + j) + 1 = k + (j + 1)
    OBVIOUS
  <2>2. L[(k + j) + 1] = NextLevel(L[k + j])
    BY <1>2, <2>1
  <2>. QED BY <1>1, <2>1, <2>2
<1>5. \A j \in Nat : j \in S
  <2>. HIDE DEF S
  <2>. QED BY <1>3, <1>4, LevelLoop!SetInduction
<1>. QED BY <1>5 DEF L, U

(***************************************************************************)
(* Any level of a tree, taken as a vector of leaves, has the root of the   *)
(* tree: the published labels hash up to the anchored root.                *)
(***************************************************************************)
THEOREM RootOfLevel ==
  ASSUME NEW n \in Nat \ {0}, NEW leaves, DOMAIN leaves = 0 .. n - 1,
         NEW k \in 0 .. Height(leaves)
  PROVE  /\ Height(Levels(leaves)[k]) = Height(leaves) - k
         /\ MerkleRoot(Levels(leaves)[k]) = MerkleRoot(leaves)
<1>. DEFINE H == Height(leaves)
            labels == Levels(leaves)[k]
            m == VecLen(labels)
            W == [j \in Nat |-> VecLen(Levels(leaves)[j])]
            d == Height(labels)
<1>1. H \in Nat /\ k \in Nat /\ H - k \in Nat /\ k + (H - k) = H
  BY HeightShape
<1>2. m \in Nat \ {0} /\ DOMAIN labels = 0 .. m - 1
  BY <1>1, LevelShape
<1>3. W[H] = 1 /\ \A j \in 0 .. H - 1 : W[j] > 1
  BY <1>1, HeightShape DEF IsHeight
<1>4. d \in Nat /\ IsHeight(labels, d)
  <2>. HIDE DEF labels
  <2>. QED BY <1>2, HeightShape
<1>5. W[k + d] = 1 /\ \A j \in 0 .. d - 1 : W[k + j] > 1
  <2>1. \A j \in Nat : k + j \in Nat /\ Levels(labels)[j] = Levels(leaves)[k + j]
    BY <1>1, LevelsCompose
  <2>2. \A j \in Nat : W[k + j] = VecLen(Levels(labels)[j])
    BY <2>1
  <2>3. /\ VecLen(Levels(labels)[d]) = 1
        /\ \A j \in 0 .. d - 1 : VecLen(Levels(labels)[j]) > 1
    BY <1>4 DEF IsHeight
  <2>4. W[k + d] = 1
    BY <1>4, <2>2, <2>3
  <2>5. ASSUME NEW j \in 0 .. d - 1 PROVE W[k + j] > 1
    <3>1. j \in Nat
      BY <1>4
    <3>2. W[k + j] = VecLen(Levels(labels)[j])
      BY <2>2, <3>1
    <3>. HIDE DEF W, d, labels
    <3>. QED BY <2>3, <3>2
  <2>. QED BY <2>4, <2>5
<1>6. d = H - k
  <2>. HIDE DEF W, d, H
  <2>1. ~ (k + d < H)
    BY <1>1, <1>3, <1>4, <1>5
  <2>2. ~ (H - k < d)
    <3>. SUFFICES ASSUME H - k < d PROVE FALSE
      OBVIOUS
    <3>1. H - k \in 0 .. d - 1
      BY <1>1, <1>4
    <3>2. W[k + (H - k)] > 1
      BY <1>5, <3>1
    <3>. QED BY <1>1, <1>3, <3>2
  <2>. QED BY <1>1, <1>4, <2>1, <2>2
<1>7. Levels(labels)[H - k] = Levels(leaves)[H]
  <2>1. Levels(labels)[H - k] = Levels(leaves)[k + (H - k)]
    <3>. HIDE DEF H
    <3>. QED BY <1>1, LevelsCompose, ZenonT(40)
  <2>2. k + (H - k) = H
    BY <1>1
  <2>. QED BY <2>1, <2>2
<1>. QED BY <1>6, <1>7 DEF MerkleRoot

\* The siblings of a proof are those of a lower one up to level k and then
\* the h of an upper one, which is about the node of level k.
Joins(proof, lower, upper, k, h) ==
  /\ lower.leaf_index = proof.leaf_index
  /\ upper.leaf_index = Shifted(proof.leaf_index)[k]
  /\ \A j \in 0 .. k - 1 : proof.siblings[j] = lower.siblings[j]
  /\ \A j \in 0 .. h - 1 : proof.siblings[k + j] = upper.siblings[j]

(***************************************************************************)
(* A walk over the siblings below level k and then over those above is the *)
(* walk of a verifier that starts again at level k.                        *)
(***************************************************************************)
LEMMA WalkCompose ==
  ASSUME NEW k \in Nat, NEW h \in Nat, NEW leaf,
         NEW proof, NEW lower, NEW upper, Joins(proof, lower, upper, k, h)
  PROVE  Walk(proof, leaf)[k + h] = Walk(upper, Walk(lower, leaf)[k])[h]
<1>. DEFINE W == Walk(proof, leaf)
            lo == Walk(lower, leaf)
            up == Walk(upper, lo[k])
            I == Shifted(proof.leaf_index)
            J == Shifted(upper.leaf_index)
            S == {j \in Nat : j <= k => W[j] = lo[j]}
            T == {j \in Nat : j <= h => W[k + j] = up[j]}
<1>0. /\ lower.leaf_index = proof.leaf_index
      /\ upper.leaf_index = Shifted(proof.leaf_index)[k]
      /\ \A j \in 0 .. k - 1 : proof.siblings[j] = lower.siblings[j]
      /\ \A j \in 0 .. h - 1 : proof.siblings[k + j] = upper.siblings[j]
  BY DEF Joins
<1>1. W[0] = leaf /\ \A j \in Nat : W[j + 1] = HashUp(I[j], W[j], proof.siblings[j])
  BY WalkEquations
<1>2. lo[0] = leaf /\ \A j \in Nat : lo[j + 1] = HashUp(I[j], lo[j], lower.siblings[j])
  BY <1>0, WalkEquations
<1>3. up[0] = lo[k] /\ \A j \in Nat : up[j + 1] = HashUp(J[j], up[j], upper.siblings[j])
  BY WalkEquations
<1>4. \A j \in Nat : J[j] = I[k + j]
  <2>1. J = Shifted(I[k])
    BY <1>0
  <2>2. \A j \in Nat : Shifted(I[k])[j] = I[k + j]
    BY ShiftedCompose
  <2>. HIDE DEF I, J
  <2>. QED BY <2>1, <2>2
<1>. HIDE DEF W, lo, up, I, J
<1>5. \A j \in Nat : j \in S
  <2>1. 0 \in S
    BY <1>1, <1>2
  <2>2. \A j \in Nat : j \in S => j + 1 \in S
    <3>. SUFFICES ASSUME NEW j \in Nat, W[j] = lo[j], j + 1 <= k
                  PROVE  W[j + 1] = lo[j + 1]
      OBVIOUS
    <3>1. proof.siblings[j] = lower.siblings[j]
      <4>1. j \in 0 .. k - 1
        OBVIOUS
      <4>. QED BY <1>0, <4>1
    <3>. QED BY <1>1, <1>2, <3>1
  <2>. HIDE DEF S
  <2>. QED BY <2>1, <2>2, WalkLoop!SetInduction
<1>6. \A j \in Nat : j \in T
  <2>1. 0 \in T
    <3>1. W[k] = lo[k] /\ k + 0 = k
      BY <1>5
    <3>. QED BY <1>3, <3>1
  <2>2. \A j \in Nat : j \in T => j + 1 \in T
    <3>. SUFFICES ASSUME NEW j \in Nat, W[k + j] = up[j], j + 1 <= h
                  PROVE  W[k + (j + 1)] = up[j + 1]
      OBVIOUS
    <3>1. j \in 0 .. h - 1 /\ k + j \in Nat /\ (k + j) + 1 = k + (j + 1)
      OBVIOUS
    <3>2. proof.siblings[k + j] = upper.siblings[j]
      BY <1>0, <3>1
    <3>3. W[(k + j) + 1] = HashUp(I[k + j], W[k + j], proof.siblings[k + j])
      BY <1>1, <3>1
    <3>4. up[j + 1] = HashUp(I[k + j], up[j], upper.siblings[j])
      BY <1>3, <1>4
    <3>. QED BY <3>1, <3>2, <3>3, <3>4
  <2>. HIDE DEF T
  <2>. QED BY <2>1, <2>2, WalkLoop!SetInduction
<1>. QED BY <1>6 DEF W, lo, up
-------------------------------------------------------------------------------
(***************************************************************************)
(* With a hash that never collides.                                        *)
(***************************************************************************)
CollisionFree ==
  \A a, b, c, d : HashPair(a, b) = HashPair(c, d) => a = c /\ b = d

\* A hash that is not the hash of a pair.
NoPair(h) == \A a, b : h # HashPair(a, b)

\* No walk exhibits a collision when there is none.
LEMMA NoCollision ==
  ASSUME CollisionFree, NEW leaves, NEW proof, NEW leaf
  PROVE  ~ Collides(leaves, proof, leaf)
<1>. SUFFICES ASSUME NEW j, CollidesAt(leaves, proof, leaf, j) PROVE FALSE
  BY DEF Collides
<1>. DEFINE idx == Shifted(proof.leaf_index)[j]
            padded == Pad(Levels(leaves)[j])
            a == PairHashed(idx, Walk(proof, leaf)[j], proof.siblings[j])
            b == PairInTree(leaves, j, idx)
<1>1. a # b /\ HashPair(a[1], a[2]) = HashPair(b[1], b[2])
  BY DEF CollidesAt
<1>2. a[1] = b[1] /\ a[2] = b[2]
  <2>. HIDE DEF a, b
  <2>. QED BY <1>1 DEF CollisionFree
<1>3. a = <<a[1], a[2]>>
  <2>. HIDE DEF idx
  <2>. QED BY DEF PairHashed
<1>4. b = <<b[1], b[2]>>
  BY DEF PairInTree
<1>. HIDE DEF a, b
<1>. QED BY <1>1, <1>2, <1>3, <1>4

\* A node above the leaves is the hash of two nodes of the level below it.
LEMMA NodeOfPair ==
  ASSUME NEW n \in Nat \ {0}, NEW leaves, DOMAIN leaves = 0 .. n - 1,
         NEW j \in Nat, NEW i \in 0 .. VecLen(Levels(leaves)[j + 1]) - 1
  PROVE  LET padded == Pad(Levels(leaves)[j])
             w == VecLen(Levels(leaves)[j])
         IN  /\ Levels(leaves)[j + 1][i] = HashPair(padded[2 * i], padded[2 * i + 1])
             /\ 2 * i \in 0 .. w - 1
             /\ padded[2 * i] = Levels(leaves)[j][2 * i]
             /\ \E r \in 0 .. w - 1 : padded[2 * i + 1] = Levels(leaves)[j][r]
<1>. DEFINE level == Levels(leaves)[j]
            padded == Pad(level)
            w == VecLen(level)
<1>1. w \in Nat \ {0} /\ DOMAIN level = 0 .. w - 1
      /\ VecLen(Levels(leaves)[j + 1]) = (w + 1) \div 2
  BY LevelShape, ZenonT(40)
<1>2. Levels(leaves)[j + 1] = NextLevel(level)
  BY LevelsEquations
<1>. HIDE DEF level, w
<1>3. i \in 0 .. ((w + 1) \div 2) - 1
  BY <1>1 DEF level
<1>4. /\ i \in Nat /\ 2 * i \in 0 .. w - 1 /\ 2 * i + 1 \in 0 .. w
      /\ 2 * i + 1 \in 0 .. w + (w % 2) - 1
  BY <1>1, <1>3
<1>5. NextLevel(level)[i] = HashPair(padded[2 * i], padded[2 * i + 1])
  BY <1>1, <1>3, NextLevelShape
<1>6. \A x \in 0 .. w - 1 : padded[x] = level[x]
  BY <1>1, PadShape
<1>7. \E r \in 0 .. w - 1 : padded[2 * i + 1] = level[r]
  <2>1. CASE 2 * i + 1 < w
    BY <1>1, <1>4, <1>6, <2>1
  <2>2. CASE ~ 2 * i + 1 < w
    <3>1. padded[2 * i + 1] = level[w - 1]
      <4>. DEFINE x == 2 * i + 1
      <4>1. x \in 0 .. w + (w % 2) - 1 /\ ~ x < w
        BY <1>4, <2>2
      <4>2. VecLen(level) = w
        BY DEF w
      <4>. HIDE DEF x
      <4>. QED BY <4>1, <4>2 DEF Pad, padded, x
    <3>2. w - 1 \in 0 .. w - 1
      BY <1>1
    <3>. QED BY <3>1, <3>2
  <2>. QED BY <2>1, <2>2
<1>. QED BY <1>2, <1>4, <1>5, <1>6, <1>7 DEF level, w

\* An accepted walk goes through the tree from the root down, for as long as
\* there are levels and siblings, wherever it claims to stand.
LEMMA WalkMeetsTree ==
  ASSUME CollisionFree,
         NEW n \in Nat \ {0}, NEW leaves, DOMAIN leaves = 0 .. n - 1,
         NEW proof, NEW leaf, NEW d \in Nat, VecLen(proof.siblings) = d,
         Verifies(proof, leaf, MerkleRoot(leaves))
  PROVE  \A j \in Nat : j <= d /\ j <= Height(leaves) =>
           \E i \in 0 .. VecLen(Levels(leaves)[Height(leaves) - j]) - 1 :
             Walk(proof, leaf)[d - j] = Levels(leaves)[Height(leaves) - j][i]
<1>. DEFINE H == Height(leaves)
            L == Levels(leaves)
            W == Walk(proof, leaf)
            Meets(x, y) == \E i \in 0 .. VecLen(L[y]) - 1 : W[x] = L[y][i]
            S == {j \in Nat : j <= d /\ j <= H => Meets(d - j, H - j)}
<1>1. H \in Nat /\ VecLen(L[H]) = 1
  BY HeightShape DEF IsHeight
<1>2. \A j \in Nat : W[j + 1] = HashUp(Shifted(proof.leaf_index)[j], W[j], proof.siblings[j])
  BY WalkEquations
<1>3. Meets(d, H)
  <2>1. W[d] = L[H][0]
    BY DEF Verifies, ReconstructRoot, MerkleRoot
  <2>2. 0 \in 0 .. VecLen(L[H]) - 1
    <3>. HIDE DEF L, H
    <3>. QED BY <1>1
  <2>. QED BY <2>1, <2>2
<1>4. ASSUME NEW x \in Nat, NEW y \in Nat, Meets(x + 1, y + 1)
      PROVE  Meets(x, y)
  <2>1. PICK i \in 0 .. VecLen(L[y + 1]) - 1 : W[x + 1] = L[y + 1][i]
    BY <1>4
  <2>. DEFINE padded == Pad(L[y])
              w == VecLen(L[y])
  <2>2. /\ W[x + 1] = HashPair(padded[2 * i], padded[2 * i + 1])
        /\ 2 * i \in 0 .. w - 1 /\ padded[2 * i] = L[y][2 * i]
        /\ \E r \in 0 .. w - 1 : padded[2 * i + 1] = L[y][r]
    BY <2>1, NodeOfPair
  <2>3. \/ W[x + 1] = HashPair(W[x], proof.siblings[x])
        \/ W[x + 1] = HashPair(proof.siblings[x], W[x])
    BY <1>2 DEF HashUp
  <2>. HIDE DEF W, L, padded, w
  <2>4. W[x] = padded[2 * i] \/ W[x] = padded[2 * i + 1]
    BY <2>2, <2>3 DEF CollisionFree
  <2>. QED BY <2>2, <2>4 DEF w
<1>5. 0 \in S
  <2>1. d - 0 = d /\ H - 0 = H
    BY <1>1
  <2>. HIDE DEF Meets, H
  <2>. QED BY <1>3, <2>1
<1>. HIDE DEF Meets, H
<1>6. \A j \in Nat : j \in S => j + 1 \in S
  <2>. SUFFICES ASSUME NEW j \in Nat, j + 1 <= d, j + 1 <= H, Meets(d - j, H - j)
                PROVE  Meets(d - (j + 1), H - (j + 1))
    BY <1>1
  <2>. DEFINE x == d - (j + 1)
              y == H - (j + 1)
  <2>1. x \in Nat /\ y \in Nat /\ x + 1 = d - j /\ y + 1 = H - j
    BY <1>1
  <2>. HIDE DEF x, y
  <2>2. Meets(x + 1, y + 1)
    BY <2>1
  <2>. QED BY <1>4, <2>1, <2>2 DEF x, y
<1>7. \A j \in Nat : j \in S
  <2>. HIDE DEF S
  <2>. QED BY <1>5, <1>6, LevelLoop!SetInduction
<1>. QED BY <1>7 DEF Meets, H

(***************************************************************************)
(* With a hash that never collides, and leaves that are no hashes of       *)
(* pairs, what a verifier accepts has the height of the tree: truncated    *)
(* and extended proofs are refused.                                        *)
(***************************************************************************)
THEOREM AcceptedHeight ==
  ASSUME CollisionFree,
         NEW n \in Nat \ {0}, NEW leaves, DOMAIN leaves = 0 .. n - 1,
         \A i \in 0 .. n - 1 : NoPair(leaves[i]),
         NEW proof, NEW leaf, NoPair(leaf),
         VecLen(proof.siblings) \in Nat,
         Verifies(proof, leaf, MerkleRoot(leaves))
  PROVE  VecLen(proof.siblings) = Height(leaves)
<1>. DEFINE d == VecLen(proof.siblings)
            H == Height(leaves)
            L == Levels(leaves)
            W == Walk(proof, leaf)
<1>1. /\ H \in Nat /\ L[0] = leaves /\ VecLen(leaves) = n /\ W[0] = leaf
      /\ d \in Nat
  BY HeightShape, LevelsEquations, WalkEquations, VecLenOfDomain
<1>2. \A j \in Nat : j <= d /\ j <= H =>
        \E i \in 0 .. VecLen(L[H - j]) - 1 : W[d - j] = L[H - j][i]
  <2>1. d \in Nat /\ VecLen(proof.siblings) = d
    BY <1>1
  <2>. HIDE DEF d
  <2>. QED BY <2>1, WalkMeetsTree
<1>3. ASSUME d < H PROVE FALSE
  <2>. DEFINE y == H - d - 1
  <2>1. y \in Nat /\ y + 1 = H - d /\ d - d = 0
    <3>. HIDE DEF H, d
    <3>. QED BY <1>1, <1>3
  <2>2. PICK i \in 0 .. VecLen(L[y + 1]) - 1 : W[0] = L[y + 1][i]
    <3>. HIDE DEF H, d, L, W, y
    <3>. QED BY <1>1, <1>2, <1>3, <2>1
  <2>3. W[0] = HashPair(Pad(L[y])[2 * i], Pad(L[y])[2 * i + 1])
    <3>. HIDE DEF y
    <3>. QED BY <2>1, <2>2, NodeOfPair
  <2>. HIDE DEF W
  <2>. QED BY <1>1, <2>3 DEF NoPair
<1>4. ASSUME H < d PROVE FALSE
  <2>. DEFINE x == d - H - 1
  <2>1. x \in Nat /\ x + 1 = d - H /\ H - H = 0
    <3>. HIDE DEF H, d
    <3>. QED BY <1>1, <1>4
  <2>2. PICK i \in 0 .. n - 1 : W[x + 1] = leaves[i]
    <3>. HIDE DEF H, d, L, W, x
    <3>1. H \in Nat /\ H <= d /\ H <= H
      BY <1>1, <1>4
    <3>2. \E i \in 0 .. VecLen(L[H - H]) - 1 : W[d - H] = L[H - H][i]
      BY <1>2, <3>1
    <3>3. L[H - H] = leaves /\ VecLen(L[H - H]) = n /\ W[d - H] = W[x + 1]
      BY <1>1, <2>1
    <3>. QED BY <3>2, <3>3
  <2>3. W[x + 1] = HashUp(Shifted(proof.leaf_index)[x], W[x], proof.siblings[x])
    <3>. HIDE DEF x
    <3>. QED BY <2>1, WalkEquations
  <2>. HIDE DEF W
  <2>. QED BY <2>2, <2>3 DEF NoPair, HashUp
<1>. QED
  <2>. HIDE DEF H
  <2>. QED BY <1>1, <1>3, <1>4 DEF H

\* The widths of the levels.
LEMMA LevelWidths ==
  ASSUME NEW n \in Nat \ {0}, NEW leaves, DOMAIN leaves = 0 .. n - 1
  PROVE  \A j \in Nat :
           /\ VecLen(Levels(leaves)[j]) \in Nat \ {0}
           /\ VecLen(Levels(leaves)[j + 1]) = (VecLen(Levels(leaves)[j]) + 1) \div 2
BY LevelShape

(***************************************************************************)
(* With such a hash two trees of one root have one height, and every node  *)
(* the two have a place in common for.                                     *)
(***************************************************************************)
THEOREM SameRootAgree ==
  ASSUME CollisionFree,
         NEW n \in Nat \ {0}, NEW v, DOMAIN v = 0 .. n - 1,
         \A i \in 0 .. n - 1 : NoPair(v[i]),
         NEW m \in Nat \ {0}, NEW u, DOMAIN u = 0 .. m - 1,
         \A i \in 0 .. m - 1 : NoPair(u[i]),
         MerkleRoot(v) = MerkleRoot(u)
  PROVE  /\ Height(v) = Height(u)
         /\ \A j \in 0 .. Height(v) :
              \A i \in 0 .. VecLen(Levels(v)[j]) - 1 :
                i < VecLen(Levels(u)[j]) => Levels(v)[j][i] = Levels(u)[j][i]
<1>. DEFINE H == Height(v)
            V == Levels(v)
            U == Levels(u)
            Agree(j) == \A i \in 0 .. VecLen(V[j]) - 1 :
                          i < VecLen(U[j]) => V[j][i] = U[j][i]
            S == {j \in Nat : j <= H => Agree(H - j)}
<1>1. Height(v) = Height(u)
  <2>. DEFINE proof == MerkleProof(u, 0)
  <2>1. 0 \in 0 .. m - 1 /\ Height(u) \in Nat
    BY HeightShape
  <2>2. Verifies(proof, u[0], MerkleRoot(v))
    BY <2>1, MerkleRoundTrip
  <2>3. VecLen(proof.siblings) = Height(u)
    <3>1. DOMAIN proof.siblings = 0 .. Height(u) - 1
      BY DEF MerkleProof, SiblingsOf
    <3>. HIDE DEF proof
    <3>. QED BY <2>1, <3>1, VecLenOfDomain
  <2>. HIDE DEF proof
  <2>. QED BY <2>1, <2>2, <2>3, AcceptedHeight
<1>2. H \in Nat /\ VecLen(V[H]) = 1 /\ V[H][0] = U[H][0]
  BY <1>1, HeightShape DEF IsHeight, MerkleRoot
<1>3. Agree(H)
  <2>. HIDE DEF H, V, U
  <2>. QED BY <1>2
<1>4. ASSUME NEW j \in Nat, Agree(j + 1) PROVE Agree(j)
  <2>. SUFFICES ASSUME NEW i \in 0 .. VecLen(V[j]) - 1, i < VecLen(U[j])
                PROVE  V[j][i] = U[j][i]
    OBVIOUS
  <2>. DEFINE a == VecLen(V[j])
              b == VecLen(U[j])
              up == i \div 2
              pv == Pad(V[j])
              pu == Pad(U[j])
  <2>1. /\ a \in Nat \ {0} /\ VecLen(V[j + 1]) = (a + 1) \div 2
        /\ b \in Nat \ {0} /\ VecLen(U[j + 1]) = (b + 1) \div 2
    <3>1. \A k \in Nat : /\ VecLen(V[k]) \in Nat \ {0}
                          /\ VecLen(V[k + 1]) = (VecLen(V[k]) + 1) \div 2
      BY LevelWidths
    <3>2. \A k \in Nat : /\ VecLen(U[k]) \in Nat \ {0}
                          /\ VecLen(U[k + 1]) = (VecLen(U[k]) + 1) \div 2
      BY LevelWidths
    <3>. QED BY <3>1, <3>2
  <2>2. i \in 0 .. a - 1 /\ i \in 0 .. b - 1
    <3>. HIDE DEF V, U
    <3>. QED BY <2>1
  <2>3. up \in 0 .. ((a + 1) \div 2) - 1 /\ up < (b + 1) \div 2
    <3>. HIDE DEF a, b
    <3>. QED BY <2>1, <2>2
  <2>4. V[j + 1][up] = U[j + 1][up]
    <3>. HIDE DEF a, b, up, V, U
    <3>. QED BY <1>4, <2>1, <2>3
  <2>5. /\ pv[i] = V[j][i] /\ V[j + 1][up] = HashPair(pv[2 * up], pv[2 * up + 1])
        /\ pu[i] = U[j][i] /\ U[j + 1][up] = HashPair(pu[2 * up], pu[2 * up + 1])
    BY <2>2, HashUpInTree
  <2>6. pv[2 * up] = pu[2 * up] /\ pv[2 * up + 1] = pu[2 * up + 1]
    <3>. HIDE DEF pv, pu, V, U, up
    <3>1. HashPair(pv[2 * up], pv[2 * up + 1]) = HashPair(pu[2 * up], pu[2 * up + 1])
      BY <2>4, <2>5
    <3>. QED BY <3>1 DEF CollisionFree
  <2>7. i = 2 * up \/ i = 2 * up + 1
    <3>1. i \in Nat
      <4>. HIDE DEF a
      <4>. QED BY <2>2
    <3>. QED BY <3>1
  <2>. HIDE DEF pv, pu, V, U, up
  <2>. QED BY <2>5, <2>6, <2>7
<1>. HIDE DEF Agree, H
<1>5. 0 \in S
  <2>1. H - 0 = H
    BY <1>2
  <2>. QED BY <1>3, <2>1
<1>6. \A j \in Nat : j \in S => j + 1 \in S
  <2>. SUFFICES ASSUME NEW j \in Nat, j + 1 <= H, Agree(H - j)
                PROVE  Agree(H - (j + 1))
    BY <1>2
  <2>. DEFINE y == H - (j + 1)
  <2>1. y \in Nat /\ y + 1 = H - j
    BY <1>2
  <2>. HIDE DEF y
  <2>2. Agree(y + 1)
    BY <2>1
  <2>. QED BY <1>4, <2>1, <2>2 DEF y
<1>7. \A j \in Nat : j \in S
  <2>. HIDE DEF S
  <2>. QED BY <1>5, <1>6, LevelLoop!SetInduction
<1>8. \A j \in 0 .. H : Agree(j)
  <2>. SUFFICES ASSUME NEW j \in 0 .. H PROVE Agree(j)
    OBVIOUS
  <2>1. H - j \in Nat /\ H - j <= H /\ H - (H - j) = j
    BY <1>2
  <2>2. H - j \in S
    BY <1>7, <2>1
  <2>. QED BY <2>1, <2>2
<1>. QED BY <1>1, <1>8 DEF Agree, H
\* A longer vector of leaves has no narrower level.
LEMMA WidthsGrow ==
  ASSUME NEW n \in Nat \ {0}, NEW v, DOMAIN v = 0 .. n - 1,
         NEW m \in Nat \ {0}, NEW u, DOMAIN u = 0 .. m - 1,
         n <= m
  PROVE  \A j \in Nat : VecLen(Levels(v)[j]) <= VecLen(Levels(u)[j])
<1>. DEFINE A(j) == VecLen(Levels(v)[j])
            B(j) == VecLen(Levels(u)[j])
            S == {j \in Nat : A(j) <= B(j)}
<1>1. \A j \in Nat : A(j) \in Nat /\ A(j + 1) = (A(j) + 1) \div 2
  BY LevelWidths
<1>2. \A j \in Nat : B(j) \in Nat /\ B(j + 1) = (B(j) + 1) \div 2
  BY LevelWidths
<1>3. A(0) = n /\ B(0) = m
  <2>1. Levels(v)[0] = v /\ Levels(u)[0] = u
    BY LevelsEquations
  <2>2. VecLen(v) = n /\ VecLen(u) = m
    BY VecLenOfDomain
  <2>. QED BY <2>1, <2>2
<1>. HIDE DEF A, B
<1>4. 0 \in S
  BY <1>3
<1>5. \A j \in Nat : j \in S => j + 1 \in S
  <2>1. \A x, y \in Nat : x <= y => (x + 1) \div 2 <= (y + 1) \div 2
    OBVIOUS
  <2>. SUFFICES ASSUME NEW j \in Nat, A(j) <= B(j) PROVE A(j + 1) <= B(j + 1)
    OBVIOUS
  <2>2. (A(j) + 1) \div 2 <= (B(j) + 1) \div 2
    BY <1>1, <1>2, <2>1
  <2>. QED BY <1>1, <1>2, <2>2
<1>6. \A j \in Nat : j \in S
  <2>. HIDE DEF S
  <2>. QED BY <1>4, <1>5, LevelLoop!SetInduction
<1>. QED BY <1>6 DEF A, B

-------------------------------------------------------------------------------
(***************************************************************************)
(* Shards.                                                                 *)
(***************************************************************************)
\* Vectors are equal when their elements are.
LEMMA VecExtensional ==
  ASSUME NEW n \in Nat, NEW v, NEW w, IsVec(v, n), IsVec(w, n),
         \A j \in 0 .. n - 1 : v[j] = w[j]
  PROVE  v = w
BY DEF IsVec

\* A vector's domain and length.
LEMMA VecShape ==
  ASSUME NEW n \in Nat, NEW v, IsVec(v, n)
  PROVE  DOMAIN v = 0 .. n - 1 /\ VecLen(v) = n
<1>1. DOMAIN v = 0 .. n - 1
  BY DEF IsVec
<1>. QED BY <1>1, VecLenOfDomain

\* extend_from_slice appends the second vector to the first.
LEMMA ExtendShape ==
  ASSUME NEW n \in Nat, NEW m \in Nat,
         NEW v, NEW w, VecLen(v) = n, VecLen(w) = m
  PROVE  /\ IsVec(Extend(v, w), n + m)
         /\ \A j \in 0 .. n - 1 : Extend(v, w)[j] = v[j]
         /\ \A j \in 0 .. m - 1 : Extend(v, w)[n + j] = w[j]
<1>. DEFINE e == [j \in 0 .. n + m - 1 |-> IF j < n THEN v[j] ELSE w[j - n]]
<1>1. Extend(v, w) = e
  BY DEF Extend
<1>2. IsVec(e, n + m)
  BY DEF IsVec
<1>3. \A j \in 0 .. n - 1 : e[j] = v[j]
  OBVIOUS
<1>4. ASSUME NEW j \in 0 .. m - 1 PROVE e[n + j] = w[j]
  <2>1. n + j \in 0 .. n + m - 1 /\ ~ (n + j < n) /\ (n + j) - n = j
    OBVIOUS
  <2>. QED BY <2>1
<1>. HIDE DEF e
<1>. QED BY <1>1, <1>2, <1>3, <1>4

\* Appending to nothing.
LEMMA ExtendEmpty ==
  ASSUME NEW m \in Nat, NEW w, IsVec(w, m)
  PROVE  Extend(<<>>, w) = w
<1>1. VecLen(w) = m
  BY VecShape
<1>2. VecLen(<<>>) = 0
  BY VecLenOfDomain
<1>3. /\ IsVec(Extend(<<>>, w), 0 + m)
      /\ \A j \in 0 .. m - 1 : Extend(<<>>, w)[0 + j] = w[j]
  BY <1>1, <1>2, ExtendShape
<1>4. /\ IsVec(Extend(<<>>, w), m)
      /\ \A j \in 0 .. m - 1 : Extend(<<>>, w)[j] = w[j]
  <2>1. 0 + m = m /\ \A j \in 0 .. m - 1 : 0 + j = j
    OBVIOUS
  <2>. QED BY <1>3, <2>1
<1>. QED BY <1>4, VecExtensional

\* The loop of reassemble, shard by shard.
LEMMA ConcatenationsEquations ==
  ASSUME NEW shards
  PROVE  /\ Concatenations(shards)[0] = <<>>
         /\ \A n \in Nat : Concatenations(shards)[n + 1]
                             = Extend(Concatenations(shards)[n], shards[n + 1].siblings)
<1>. DEFINE C == ExtendLoop!Iterates(shards, <<>>)
<1>1. Concatenations(shards) = C
  BY DEF Concatenations, ExtendLoop!Iterates, ExtendStep
<1>2. C[0] = <<>> /\ \A n \in Nat : C[n + 1] = ExtendStep(shards, n, C[n])
  BY ExtendLoop!IterationEquations
<1>. HIDE DEF C
<1>. QED BY <1>1, <1>2 DEF ExtendStep

\* Pushing onto an empty vector of shards, and onto one of a single shard.
LEMMA ConcatenatedPair ==
  \A x, y : /\ <<x>> \o <<>> = <<x>>
            /\ <<>> \o <<x>> = <<x>>
            /\ <<x>> \o <<y>> = <<x, y>>
<1>. SUFFICES ASSUME NEW x, NEW y
              PROVE  <<x>> \o <<>> = <<x>> /\ <<>> \o <<x>> = <<x>>
                     /\ <<x>> \o <<y>> = <<x, y>>
  OBVIOUS
<1>. DEFINE c == <<x>> \o <<y>>
<1>1. /\ <<>> \in Seq({x, y}) /\ <<x>> \in Seq({x, y}) /\ <<y>> \in Seq({x, y})
      /\ <<x, y>> \in Seq({x, y})
  OBVIOUS
<1>2. c \in Seq({x, y}) /\ Len(c) = 2 /\ c[1] = x /\ c[2] = y
  BY <1>1
<1>3. c = <<x, y>>
  <2>. HIDE DEF c
  <2>. QED BY <1>1, <1>2
<1>4. <<x>> \o <<>> = <<x>>
  OBVIOUS
<1>5. <<>> \o <<x>> = <<x>>
  OBVIOUS
<1>. QED BY <1>3, <1>4, <1>5

\* A proof becomes no shard, one, or two that meet at the predetermined level.
LEMMA ShardCases ==
  ASSUME NEW d \in Nat, NEW s, DOMAIN s = 0 .. d - 1, NEW level \in Nat
  PROVE  LET k == Least(level, d)
             shards == ShardProof(s, level)
         IN  /\ k \in 0 .. d
             /\ d = 0 => shards = <<>>
             /\ d > 0 /\ k \in {0, d} => shards = <<Shard(s, 0, d)>>
             /\ 0 < k /\ k < d => shards = <<Shard(s, 0, k), Shard(s, k, d)>>
<1>. DEFINE k == Least(level, d)
            lower == IF k > 0 THEN <<Shard(s, 0, k)>> ELSE <<>>
            upper == IF k < d THEN <<Shard(s, k, d)>> ELSE <<>>
<1>1. VecLen(s) = d
  BY VecLenOfDomain
<1>2. k \in 0 .. d
  BY DEF Least
<1>3. ShardProof(s, level) = lower \o upper
  BY <1>1 DEF ShardProof
<1>. HIDE DEF k
<1>4. d = 0 => ShardProof(s, level) = <<>>
  BY <1>2, <1>3
<1>5. d > 0 /\ k = 0 => ShardProof(s, level) = <<Shard(s, 0, d)>>
  BY <1>3, ConcatenatedPair
<1>6. d > 0 /\ k = d => ShardProof(s, level) = <<Shard(s, 0, d)>>
  <2>. SUFFICES ASSUME d > 0, k = d PROVE ShardProof(s, level) = <<Shard(s, 0, d)>>
    OBVIOUS
  <2>1. lower = <<Shard(s, 0, d)>> /\ upper = <<>>
    OBVIOUS
  <2>. QED BY <1>3, <2>1, ConcatenatedPair
<1>7. 0 < k /\ k < d => ShardProof(s, level) = <<Shard(s, 0, k), Shard(s, k, d)>>
  <2>. SUFFICES ASSUME 0 < k, k < d
                PROVE  ShardProof(s, level) = <<Shard(s, 0, k), Shard(s, k, d)>>
    OBVIOUS
  <2>1. lower = <<Shard(s, 0, k)>> /\ upper = <<Shard(s, k, d)>>
    OBVIOUS
  <2>. QED BY <1>3, <2>1, ConcatenatedPair
<1>. QED BY <1>2, <1>4, <1>5, <1>6, <1>7 DEF k

\* A shard is a record of its levels and its siblings.
LEMMA ShardFields ==
  ASSUME NEW s, NEW from, NEW to
  PROVE  /\ DOMAIN Shard(s, from, to) = {"from_level", "to_level", "siblings"}
         /\ Shard(s, from, to).from_level = from
         /\ Shard(s, from, to).to_level = to
BY DEF Shard

\* The siblings of a shard are the stretch of the proof between its levels.
LEMMA ShardShape ==
  ASSUME NEW s, NEW from \in Nat, NEW to \in Nat, from <= to
  PROVE  /\ IsVec(Shard(s, from, to).siblings, to - from)
         /\ VecLen(Shard(s, from, to).siblings) = to - from
         /\ \A j \in 0 .. to - from - 1 :
              Shard(s, from, to).siblings[j] = s[from + j]
<1>. DEFINE v == [j \in 0 .. to - from - 1 |-> s[from + j]]
<1>1. Shard(s, from, to).siblings = v
  BY DEF Shard
<1>2. IsVec(v, to - from) /\ \A j \in 0 .. to - from - 1 : v[j] = s[from + j]
  BY DEF IsVec
<1>3. to - from \in Nat
  OBVIOUS
<1>. HIDE DEF v
<1>4. VecLen(v) = to - from
  BY <1>2, <1>3, VecShape
<1>. QED BY <1>1, <1>2, <1>4

\* Concatenating the shards of a proof gives its siblings back.
LEMMA ConcatenatedShards ==
  ASSUME NEW d \in Nat, NEW s, IsVec(s, d), NEW level \in Nat
  PROVE  Concatenated(ShardProof(s, level)) = s
<1>. DEFINE k == Least(level, d)
            shards == ShardProof(s, level)
            C == Concatenations(shards)
<1>1. DOMAIN s = 0 .. d - 1
  BY VecShape
<1>2. C[0] = <<>> /\ Concatenated(shards) = C[Len(shards)]
  BY ConcatenationsEquations DEF Concatenated
<1>3. /\ C[1] = Extend(<<>>, shards[1].siblings)
      /\ C[2] = Extend(C[1], shards[2].siblings)
  <2>1. C[0 + 1] = Extend(C[0], shards[0 + 1].siblings)
    BY ConcatenationsEquations
  <2>2. C[1 + 1] = Extend(C[1], shards[1 + 1].siblings)
    BY ConcatenationsEquations
  <2>. HIDE DEF shards, C
  <2>. QED BY <1>2, <2>1, <2>2
<1>. HIDE DEF C
<1>4. CASE d = 0
  <2>1. shards = <<>>
    BY <1>1, <1>4, ShardCases
  <2>2. IsVec(<<>>, 0)
    BY DEF IsVec
  <2>3. s = <<>>
    BY <1>4, <2>2, VecExtensional
  <2>. HIDE DEF shards
  <2>. QED BY <1>2, <2>1, <2>3 DEF shards
<1>5. CASE d > 0 /\ k \in {0, d}
  <2>1. shards = <<Shard(s, 0, d)>>
    BY <1>1, <1>5, ShardCases
  <2>2. Shard(s, 0, d).siblings = s
    <3>. DEFINE v == Shard(s, 0, d).siblings
    <3>1. IsVec(v, d - 0) /\ \A j \in 0 .. d - 0 - 1 : v[j] = s[0 + j]
      <4>1. 0 \in Nat /\ 0 <= d
        OBVIOUS
      <4>. HIDE DEF k, shards
      <4>. QED BY <4>1, ShardShape
    <3>. HIDE DEF v
    <3>2. IsVec(v, d) /\ \A j \in 0 .. d - 1 : v[j] = s[j]
      <4>1. d - 0 = d /\ \A j \in 0 .. d - 1 : 0 + j = j
        OBVIOUS
      <4>. QED BY <3>1, <4>1
    <3>. QED BY <3>2, VecExtensional DEF v
  <2>3. Extend(<<>>, s) = s
    BY ExtendEmpty
  <2>. HIDE DEF shards
  <2>. QED BY <1>2, <1>3, <2>1, <2>2, <2>3 DEF shards
<1>6. CASE 0 < k /\ k < d
  <2>0. k \in Nat /\ d - k \in Nat
    <3>1. k \in 0 .. d
      BY <1>1, ShardCases
    <3>. HIDE DEF k
    <3>. QED BY <3>1
  <2>1. shards = <<Shard(s, 0, k), Shard(s, k, d)>>
    BY <1>1, <1>6, ShardCases
  <2>. HIDE DEF k, shards
  <2>. DEFINE lo == Shard(s, 0, k).siblings
              hi == Shard(s, k, d).siblings
  <2>2. IsVec(lo, k) /\ VecLen(lo) = k /\ \A j \in 0 .. k - 1 : lo[j] = s[j]
    <3>1. IsVec(lo, k - 0) /\ VecLen(lo) = k - 0
          /\ \A j \in 0 .. k - 0 - 1 : lo[j] = s[0 + j]
      <4>1. 0 \in Nat /\ 0 <= k
        BY <2>0
      <4>. QED BY <2>0, <4>1, ShardShape
    <3>2. k - 0 = k /\ \A j \in 0 .. k - 1 : 0 + j = j
      BY <2>0
    <3>. HIDE DEF lo
    <3>. QED BY <3>1, <3>2
  <2>3. VecLen(hi) = d - k /\ \A j \in 0 .. d - k - 1 : hi[j] = s[k + j]
    <3>1. k <= d
      BY <1>6, <2>0
    <3>. QED BY <2>0, <3>1, ShardShape
  <2>. HIDE DEF lo, hi
  <2>4. Extend(<<>>, lo) = lo
    BY <2>0, <2>2, ExtendEmpty
  <2>5. Extend(lo, hi) = s
    <3>1. /\ IsVec(Extend(lo, hi), k + (d - k))
          /\ \A j \in 0 .. k - 1 : Extend(lo, hi)[j] = lo[j]
          /\ \A j \in 0 .. d - k - 1 : Extend(lo, hi)[k + j] = hi[j]
      BY <2>0, <2>2, <2>3, ExtendShape
    <3>2. k + (d - k) = d
      BY <2>0
    <3>3. ASSUME NEW j \in 0 .. d - 1 PROVE Extend(lo, hi)[j] = s[j]
      <4>1. CASE j < k
        BY <2>0, <2>2, <3>1, <4>1
      <4>2. CASE ~ (j < k)
        <5>1. j - k \in 0 .. d - k - 1 /\ k + (j - k) = j
          BY <2>0, <4>2
        <5>. QED BY <2>3, <3>1, <5>1
      <4>. QED BY <4>1, <4>2
    <3>. QED BY <3>1, <3>2, <3>3, VecExtensional
  <2>6. shards[1].siblings = lo /\ shards[2].siblings = hi /\ Len(shards) = 2
    BY <2>1 DEF lo, hi
  <2>. QED BY <1>2, <1>3, <2>4, <2>5, <2>6 DEF shards
<1>. QED
  <2>1. k \in 0 .. d
    BY <1>1, ShardCases
  <2>. HIDE DEF k
  <2>. QED BY <1>4, <1>5, <1>6, <2>1 DEF k

\* The siblings of a proof are a vector as long as the tree is high.
LEMMA SiblingsShape ==
  ASSUME NEW leaves, NEW index, Height(leaves) \in Nat
  PROVE  /\ IsVec(SiblingsOf(leaves, index), Height(leaves))
         /\ VecLen(SiblingsOf(leaves, index)) = Height(leaves)
<1>1. IsVec(SiblingsOf(leaves, index), Height(leaves))
  BY DEF IsVec, SiblingsOf
<1>. QED BY <1>1, VecShape

\* The walk of verify_with_assistance takes the siblings below the smaller of
\* the two levels, also when the one shard there is goes on above it.
LEMMA LowerOfShards ==
  ASSUME NEW d \in Nat, NEW t, IsVec(t, d), NEW level \in Nat,
         NEW stored, stored.shards = ShardProof(t, level)
  PROVE  LET k == Least(level, d) IN
         /\ Least(k, VecLen(LowerSiblings(stored))) = k
         /\ \A j \in 0 .. k - 1 : LowerSiblings(stored)[j] = t[j]
<1>. DEFINE k == Least(level, d)
            shards == stored.shards
            lower == LowerSiblings(stored)
<1>1. DOMAIN t = 0 .. d - 1
  BY VecShape
<1>2. /\ k \in 0 .. d
      /\ d = 0 => shards = <<>>
      /\ d > 0 /\ k \in {0, d} => shards = <<Shard(t, 0, d)>>
      /\ 0 < k /\ k < d => shards = <<Shard(t, 0, k), Shard(t, k, d)>>
  BY <1>1, ShardCases
<1>. HIDE DEF k, shards, lower
<1>3. CASE d = 0
  <2>1. lower = <<>>
    BY <1>2, <1>3 DEF lower, LowerSiblings, shards
  <2>2. VecLen(lower) = 0 /\ k = 0
    BY <1>2, <1>3, <2>1, VecLenOfDomain
  <2>. QED BY <2>2 DEF Least, k, lower
<1>4. CASE d > 0
  <2>1. PICK e \in k .. d : /\ 1 \in DOMAIN shards
                            /\ DOMAIN shards \subseteq Nat \ {0}
                            /\ shards[1] = Shard(t, 0, e)
    <3>1. CASE k \in {0, d}
      BY <1>2, <1>4, <3>1
    <3>2. CASE 0 < k /\ k < d
      BY <1>2, <1>4, <3>2
    <3>. QED BY <1>2, <3>1, <3>2
  <2>2. lower = Shard(t, 0, e).siblings
    <3>. DEFINE Starts(n) == shards[n].from_level = 0
                First(n) == Starts(n) /\ \A m \in 1 .. n - 1 : ~ Starts(m)
                first == CHOOSE n \in DOMAIN shards : First(n)
    <3>1. Starts(1)
      BY <2>1, ShardFields
    <3>2. First(1)
      <4>1. 1 .. 1 - 1 = {}
        OBVIOUS
      <4>. HIDE DEF Starts
      <4>. QED BY <3>1, <4>1
    <3>3. \A n \in DOMAIN shards : First(n) => n = 1
      <4>. SUFFICES ASSUME NEW n \in DOMAIN shards, First(n), n # 1 PROVE FALSE
        OBVIOUS
      <4>1. 1 \in 1 .. n - 1
        BY <2>1
      <4>. HIDE DEF Starts
      <4>. QED BY <3>1, <4>1
    <3>4. first = 1
      <4>. HIDE DEF First
      <4>. QED BY <2>1, <3>2, <3>3
    <3>5. lower = shards[first].siblings
      BY <2>1, <3>1 DEF lower, LowerSiblings, shards
    <3>. HIDE DEF first
    <3>. QED BY <2>1, <3>4, <3>5
  <2>3. VecLen(lower) = e /\ \A j \in 0 .. e - 1 : lower[j] = t[j]
    <3>1. e \in Nat /\ 0 <= e /\ e - 0 = e /\ \A j \in 0 .. e - 1 : 0 + j = j
      BY <1>2
    <3>2. /\ VecLen(Shard(t, 0, e).siblings) = e - 0
          /\ \A j \in 0 .. e - 0 - 1 : Shard(t, 0, e).siblings[j] = t[0 + j]
      <4>1. 0 \in Nat /\ e \in Nat /\ 0 <= e
        BY <3>1
      <4>. QED BY <4>1, ShardShape
    <3>. QED BY <2>2, <3>1, <3>2
  <2>4. Least(k, e) = k /\ \A j \in 0 .. k - 1 : lower[j] = t[j]
    BY <1>2, <2>3 DEF Least
  <2>. QED BY <2>3, <2>4 DEF k, lower
<1>. QED BY <1>3, <1>4

\* What is stored for a leaf reassembles to the proof of that leaf.
LEMMA StoredReassembles ==
  ASSUME NEW n \in Nat \ {0}, NEW leaves, DOMAIN leaves = 0 .. n - 1,
         NEW index, NEW level \in Nat, NEW stored, stored.leaf_index = index,
         stored.shards = ShardProof(SiblingsOf(leaves, index), level)
  PROVE  Reassemble(stored) = MerkleProof(leaves, index)
<1>. DEFINE s == SiblingsOf(leaves, index)
<1>1. Concatenated(ShardProof(s, level)) = s
  BY HeightShape, SiblingsShape, ConcatenatedShards
<1>. HIDE DEF s
<1>2. Reassemble(stored) = [leaf_index |-> index, siblings |-> s]
  BY <1>1 DEF Reassemble, s
<1>. QED BY <1>2 DEF MerkleProof, s

\* A walk does not look at the siblings above the level it has reached.
LEMMA WalkBelow ==
  ASSUME NEW k \in Nat, NEW leaf, NEW proof, NEW lower,
         lower.leaf_index = proof.leaf_index,
         \A j \in 0 .. k - 1 : proof.siblings[j] = lower.siblings[j]
  PROVE  Walk(proof, leaf)[k] = Walk(lower, leaf)[k]
<1>. DEFINE upper == [leaf_index |-> Shifted(proof.leaf_index)[k], siblings |-> <<>>]
            x == Walk(lower, leaf)[k]
<1>1. Joins(proof, lower, upper, k, 0)
  BY DEF Joins
<1>. HIDE DEF upper
<1>2. Walk(proof, leaf)[k + 0] = Walk(upper, x)[0]
  BY <1>1, WalkCompose
<1>3. Walk(upper, x)[0] = x
  BY WalkEquations
<1>4. k + 0 = k
  OBVIOUS
<1>. QED BY <1>2, <1>3, <1>4

(***************************************************************************)
(* The labels of a tree and lower siblings that are those of a proof of it *)
(* up to their level meet there, and the labels hash up to the root.       *)
(***************************************************************************)
LEMMA LabelsMeet ==
  ASSUME NEW n \in Nat \ {0}, NEW leaves, DOMAIN leaves = 0 .. n - 1,
         NEW index \in 0 .. n - 1, NEW level \in Nat, NEW stored,
         LET k == Least(level, Height(leaves)) IN
         /\ Least(k, VecLen(LowerSiblings(stored))) = k
         /\ \A j \in 0 .. k - 1 :
              LowerSiblings(stored)[j] = SiblingsOf(leaves, index)[j]
  PROVE  LET labels == Assistance(leaves, level).node_labels
             k == Least(Assistance(leaves, level).predetermined_level,
                        VecLen(LowerSiblings(stored)))
             lower == [leaf_index |-> index, siblings |-> LowerSiblings(stored)]
         IN  /\ Shifted(index)[k] < VecLen(labels)
             /\ labels[Shifted(index)[k]] = Walk(lower, leaves[index])[k]
             /\ MerkleRoot(labels) = MerkleRoot(leaves)
<1>. DEFINE H == Height(leaves)
            s == SiblingsOf(leaves, index)
            k == Least(level, H)
            proof == MerkleProof(leaves, index)
            lower == [leaf_index |-> index, siblings |-> LowerSiblings(stored)]
<1>0. Height(leaves) \in 0 .. n
  BY HeightShape, ZenonT(40)
<1>1. H \in Nat /\ IsVec(s, H)
  BY <1>0, SiblingsShape
<1>2. k \in 0 .. H /\ k \in Nat
  BY <1>1 DEF Least
<1>3. /\ Assistance(leaves, level).predetermined_level = k
      /\ Assistance(leaves, level).node_labels = Levels(leaves)[k]
  BY DEF Assistance
<1>4. /\ Least(k, VecLen(LowerSiblings(stored))) = k
      /\ \A j \in 0 .. k - 1 : LowerSiblings(stored)[j] = s[j]
  OBVIOUS
<1>. HIDE DEF k
<1>5. Shifted(index)[k] \in 0 .. VecLen(Levels(leaves)[k]) - 1
  BY <1>2, ShiftedInLevel
<1>6. Walk(proof, leaves[index])[k] = Levels(leaves)[k][Shifted(index)[k]]
  BY <1>2, WalkInTree
<1>7. Walk(proof, leaves[index])[k] = Walk(lower, leaves[index])[k]
  <2>1. /\ lower.leaf_index = proof.leaf_index
        /\ \A j \in 0 .. k - 1 : proof.siblings[j] = lower.siblings[j]
    BY <1>4 DEF MerkleProof
  <2>. HIDE DEF proof, lower
  <2>. QED BY <1>2, <2>1, WalkBelow
<1>8. VecLen(Levels(leaves)[k]) \in Nat /\ MerkleRoot(Levels(leaves)[k]) = MerkleRoot(leaves)
  <2>1. VecLen(Levels(leaves)[k]) \in Nat
    BY <1>2, LevelShape
  <2>. QED BY <1>2, <2>1, RootOfLevel
<1>. HIDE DEF H, proof, lower
<1>9. Shifted(index)[k] < VecLen(Levels(leaves)[k])
  BY <1>5, <1>8
<1>. QED BY <1>3, <1>4, <1>6, <1>7, <1>8, <1>9 DEF lower

\* The lower siblings of what is stored are those of the proof.
LEMMA LabelsComplete ==
  ASSUME NEW n \in Nat \ {0}, NEW leaves, DOMAIN leaves = 0 .. n - 1,
         NEW index \in 0 .. n - 1, NEW level \in Nat, NEW stored,
         stored.shards = ShardProof(SiblingsOf(leaves, index), level)
  PROVE  LET labels == Assistance(leaves, level).node_labels
             k == Least(Assistance(leaves, level).predetermined_level,
                        VecLen(LowerSiblings(stored)))
             lower == [leaf_index |-> index, siblings |-> LowerSiblings(stored)]
         IN  /\ Shifted(index)[k] < VecLen(labels)
             /\ labels[Shifted(index)[k]] = Walk(lower, leaves[index])[k]
             /\ MerkleRoot(labels) = MerkleRoot(leaves)
<1>. DEFINE d == Height(leaves)
            s == SiblingsOf(leaves, index)
            k == Least(level, d)
            Low == /\ Least(k, VecLen(LowerSiblings(stored))) = k
                   /\ \A j \in 0 .. k - 1 : LowerSiblings(stored)[j] = s[j]
<1>0. Height(leaves) \in 0 .. n
  BY HeightShape, ZenonT(40)
<1>1. d \in Nat /\ IsVec(s, d)
  BY <1>0, SiblingsShape
<1>2. Low
  <2>. HIDE DEF s, d
  <2>. QED BY <1>1, LowerOfShards DEF s
<1>. QED BY <1>2, LabelsMeet

-------------------------------------------------------------------------------
(***************************************************************************)
(* Two claims of one path.                                                 *)
(***************************************************************************)
\* A shifted index is a natural number.
LEMMA ShiftedNat ==
  ASSUME NEW index \in Nat
  PROVE  \A j \in Nat : Shifted(index)[j] \in Nat
<1>. DEFINE I == Shifted(index)
            S == {j \in Nat : I[j] \in Nat}
<1>1. I[0] = index /\ \A j \in Nat : I[j + 1] = I[j] \div 2
  BY ShiftedEquations
<1>. HIDE DEF I
<1>2. 0 \in S
  BY <1>1
<1>3. \A j \in Nat : j \in S => j + 1 \in S
  <2>1. \A x \in Nat : x \div 2 \in Nat
    OBVIOUS
  <2>. QED BY <1>1, <2>1
<1>4. \A j \in Nat : j \in S
  <2>. HIDE DEF S
  <2>. QED BY <1>2, <1>3, LevelLoop!SetInduction
<1>. QED BY <1>4 DEF I

(***************************************************************************)
(* With a hash that never collides, two claims with the same leaf and      *)
(* siblings that end on the same root turn to the same side on every       *)
(* level, but where a node is its own sibling.                             *)
(***************************************************************************)
LEMMA WalksAgree ==
  ASSUME CollisionFree,
         NEW p, NEW q, p.siblings = q.siblings,
         p.leaf_index \in Nat, q.leaf_index \in Nat,
         NEW leaf, NEW d \in Nat, Walk(p, leaf)[d] = Walk(q, leaf)[d]
  PROVE  \A j \in 0 .. d - 1 :
           \/ Shifted(q.leaf_index)[j] % 2 = Shifted(p.leaf_index)[j] % 2
           \/ Walk(p, leaf)[j] = p.siblings[j]
<1>. DEFINE P == Walk(p, leaf)
            Q == Walk(q, leaf)
            I == Shifted(p.leaf_index)
            K == Shifted(q.leaf_index)
            s == p.siblings
            Turns(j) == K[j] % 2 = I[j] % 2 \/ P[j] = s[j]
            S == {j \in Nat : j <= d => P[d - j] = Q[d - j]}
<1>1. /\ \A j \in Nat : P[j + 1] = HashUp(I[j], P[j], s[j])
      /\ \A j \in Nat : Q[j + 1] = HashUp(K[j], Q[j], q.siblings[j])
  BY WalkEquations
<1>2. \A j \in Nat : I[j] \in Nat /\ K[j] \in Nat
  BY ShiftedNat
<1>3. q.siblings = s /\ P[d] = Q[d]
  OBVIOUS
<1>. HIDE DEF P, Q, I, K, s
<1>4. ASSUME NEW j \in Nat, P[j + 1] = Q[j + 1]
      PROVE  P[j] = Q[j] /\ Turns(j)
  <2>1. HashUp(I[j], P[j], s[j]) = HashUp(K[j], Q[j], s[j])
    BY <1>1, <1>3, <1>4
  <2>2. I[j] % 2 \in {0, 1} /\ K[j] % 2 \in {0, 1}
    <3>1. \A x \in Nat : x % 2 \in {0, 1}
      OBVIOUS
    <3>. QED BY <1>2, <3>1
  <2>3. CASE I[j] % 2 = 0 /\ K[j] % 2 = 0
    BY <2>1, <2>3 DEF HashUp, CollisionFree
  <2>4. CASE I[j] % 2 = 0 /\ K[j] % 2 # 0
    BY <2>1, <2>4 DEF HashUp, CollisionFree
  <2>5. CASE I[j] % 2 # 0 /\ K[j] % 2 = 0
    BY <2>1, <2>5 DEF HashUp, CollisionFree
  <2>6. CASE I[j] % 2 # 0 /\ K[j] % 2 # 0
    BY <2>1, <2>2, <2>6 DEF HashUp, CollisionFree
  <2>. QED BY <2>3, <2>4, <2>5, <2>6
<1>5. 0 \in S
  <2>1. d - 0 = d
    OBVIOUS
  <2>. QED BY <1>3, <2>1
<1>6. \A j \in Nat : j \in S => j + 1 \in S
  <2>. SUFFICES ASSUME NEW j \in Nat, j + 1 <= d, P[d - j] = Q[d - j]
                PROVE  P[d - (j + 1)] = Q[d - (j + 1)]
    OBVIOUS
  <2>. DEFINE x == d - (j + 1)
  <2>1. x \in Nat /\ x + 1 = d - j
    OBVIOUS
  <2>. HIDE DEF x
  <2>2. P[x + 1] = Q[x + 1]
    BY <2>1
  <2>. QED BY <1>4, <2>1, <2>2 DEF x
<1>7. \A j \in Nat : j \in S
  <2>. HIDE DEF S
  <2>. QED BY <1>5, <1>6, LevelLoop!SetInduction
<1>8. ASSUME NEW j \in 0 .. d - 1 PROVE Turns(j)
  <2>1. /\ j \in Nat /\ d - (j + 1) \in Nat /\ d - (j + 1) <= d
        /\ d - (d - (j + 1)) = j + 1
    OBVIOUS
  <2>2. P[j + 1] = Q[j + 1]
    BY <1>7, <2>1
  <2>. QED BY <1>4, <2>1, <2>2
<1>. QED BY <1>8 DEF P, I, K, s

-------------------------------------------------------------------------------
(***************************************************************************)
(* What a root binds: the leaves at the ends of all paths.                 *)
(***************************************************************************)
WidthStep(p, j, width) == (width + 1) \div 2

DescentStep(of, j, at) ==
  Clipped(2 * at + of.path[Height(of.v) - 1 - j],
          LevelWidth(VecLen(of.v))[Height(of.v) - 1 - j])

WidthLoop == INSTANCE Iteration WITH Step <- WidthStep
DescentLoop == INSTANCE Iteration WITH Step <- DescentStep

\* Halving the number of leaves and rounding up gives the widths of the levels.
LEMMA LevelWidthIsWidth ==
  ASSUME NEW n \in Nat \ {0}, NEW leaves, DOMAIN leaves = 0 .. n - 1
  PROVE  \A j \in Nat : LevelWidth(n)[j] = VecLen(Levels(leaves)[j])
<1>. DEFINE W == WidthLoop!Iterates(n, n)
            L == Levels(leaves)
            S == {j \in Nat : W[j] = VecLen(L[j])}
<1>1. LevelWidth(n) = W
  BY DEF LevelWidth, WidthLoop!Iterates, WidthStep
<1>2. W[0] = n /\ \A j \in Nat : W[j + 1] = WidthStep(n, j, W[j])
  BY WidthLoop!IterationEquations
<1>3. L[0] = leaves /\ VecLen(leaves) = n
  BY LevelsEquations, VecLenOfDomain
<1>4. \A j \in Nat : VecLen(L[j + 1]) = (VecLen(L[j]) + 1) \div 2
  BY LevelWidths
<1>. HIDE DEF W, L
<1>5. 0 \in S
  BY <1>2, <1>3
<1>6. \A j \in Nat : j \in S => j + 1 \in S
  <2>. SUFFICES ASSUME NEW j \in Nat, W[j] = VecLen(L[j])
                PROVE  W[j + 1] = VecLen(L[j + 1])
    OBVIOUS
  <2>1. W[j + 1] = (VecLen(L[j]) + 1) \div 2
    BY <1>2 DEF WidthStep
  <2>. QED BY <1>4, <2>1
<1>7. \A j \in Nat : j \in S
  <2>. HIDE DEF S
  <2>. QED BY <1>5, <1>6, LevelLoop!SetInduction
<1>. QED BY <1>1, <1>7 DEF L

\* Each step of a descent.
LEMMA DescentEquations ==
  ASSUME NEW v, NEW path
  PROVE  /\ Descent(v, path)[0] = 0
         /\ \A j \in Nat :
              Descent(v, path)[j + 1]
                = Clipped(2 * Descent(v, path)[j] + path[Height(v) - 1 - j],
                          LevelWidth(VecLen(v))[Height(v) - 1 - j])
<1>. DEFINE of == [v |-> v, path |-> path]
            D == DescentLoop!Iterates(of, 0)
<1>1. Descent(v, path) = D
  BY DEF Descent, DescentLoop!Iterates, DescentStep
<1>2. D[0] = 0 /\ \A j \in Nat : D[j + 1] = DescentStep(of, j, D[j])
  BY DescentLoop!IterationEquations
<1>. HIDE DEF D
<1>. QED BY <1>1, <1>2 DEF DescentStep

\* One step down, from a node to one of the two it is the hash of.
LEMMA StepDown ==
  ASSUME NEW n \in Nat \ {0}, NEW leaves, DOMAIN leaves = 0 .. n - 1,
         NEW j \in Nat, NEW i \in 0 .. VecLen(Levels(leaves)[j + 1]) - 1,
         NEW side \in {0, 1}
  PROVE  LET w == VecLen(Levels(leaves)[j])
             down == Clipped(2 * i + side, w)
         IN  /\ down \in 0 .. w - 1
             /\ Levels(leaves)[j][down] = Pad(Levels(leaves)[j])[2 * i + side]
<1>. DEFINE level == Levels(leaves)[j]
            w == VecLen(level)
            x == 2 * i + side
<1>1. /\ w \in Nat \ {0} /\ DOMAIN level = 0 .. w - 1
      /\ VecLen(Levels(leaves)[j + 1]) = (w + 1) \div 2
  BY LevelShape, ZenonT(40)
<1>. HIDE DEF level, w
<1>2. i \in 0 .. ((w + 1) \div 2) - 1
  BY <1>1 DEF level
<1>3. x \in 0 .. w /\ x \in 0 .. w + (w % 2) - 1
  BY <1>1, <1>2
<1>. HIDE DEF x
<1>4. /\ VecLen(level) = w
      /\ \A y \in 0 .. w - 1 : Pad(level)[y] = level[y]
  BY <1>1, PadShape, VecLenOfDomain
<1>5. CASE x < w
  BY <1>1, <1>3, <1>4, <1>5 DEF Clipped, level, w, x
<1>6. CASE x = w
  <2>1. Clipped(x, w) = w - 1 /\ w - 1 \in 0 .. w - 1
    BY <1>1, <1>6 DEF Clipped
  <2>2. Pad(level)[x] = level[w - 1]
    <3>1. Pad(level) = [y \in 0 .. w + (w % 2) - 1 |-> IF y < w THEN level[y] ELSE level[w - 1]]
      BY <1>4 DEF Pad
    <3>2. ~ (x < w)
      BY <1>1, <1>6
    <3>. HIDE DEF level, w
    <3>. QED BY <1>3, <3>1, <3>2
  <2>. QED BY <2>1, <2>2 DEF level, w, x
<1>. QED BY <1>1, <1>3, <1>5, <1>6

\* A descent stays in the tree, and each node on it is the hash of a pair with
\* the next one on its side.
LEMMA DescentInTree ==
  ASSUME NEW n \in Nat \ {0}, NEW leaves, DOMAIN leaves = 0 .. n - 1,
         NEW path \in Paths(Height(leaves))
  PROVE  LET H == Height(leaves)
             L == Levels(leaves)
             D == Descent(leaves, path)
         IN  \A k \in 0 .. H :
               /\ D[H - k] \in 0 .. VecLen(L[k]) - 1
               /\ k < H =>
                    LET i == D[H - (k + 1)]
                        padded == Pad(L[k])
                    IN  /\ L[k + 1][i] = HashPair(padded[2 * i], padded[2 * i + 1])
                        /\ path[k] \in {0, 1}
                        /\ L[k][D[H - k]] = padded[2 * i + path[k]]
<1>. DEFINE H == Height(leaves)
            L == Levels(leaves)
            D == Descent(leaves, path)
            Inside(k) == D[H - k] \in 0 .. VecLen(L[k]) - 1
            Hashed(k) ==
              /\ L[k + 1][D[H - (k + 1)]]
                   = HashPair(Pad(L[k])[2 * D[H - (k + 1)]], Pad(L[k])[2 * D[H - (k + 1)] + 1])
              /\ path[k] \in {0, 1}
              /\ L[k][D[H - k]] = Pad(L[k])[2 * D[H - (k + 1)] + path[k]]
            S == {j \in Nat : j <= H => Inside(H - j)}
<1>1. H \in Nat /\ VecLen(L[H]) = 1
  BY HeightShape DEF IsHeight
<1>2. D[0] = 0 /\ \A j \in Nat : D[j + 1] = Clipped(2 * D[j] + path[H - 1 - j],
                                                    LevelWidth(VecLen(leaves))[H - 1 - j])
  BY DescentEquations
<1>3. \A j \in Nat : LevelWidth(VecLen(leaves))[j] = VecLen(L[j])
  <2>1. VecLen(leaves) = n
    BY VecLenOfDomain
  <2>. QED BY <2>1, LevelWidthIsWidth
<1>4. \A k \in 0 .. H - 1 : path[k] \in {0, 1}
  BY DEF Paths
<1>5. ASSUME NEW k \in 0 .. H - 1, Inside(k + 1)
      PROVE  Inside(k) /\ Hashed(k)
  <2>. DEFINE i == D[H - (k + 1)]
              w == VecLen(L[k])
  <2>1. /\ k \in Nat /\ H - (k + 1) \in Nat /\ (H - (k + 1)) + 1 = H - k
        /\ H - 1 - (H - (k + 1)) = k
    <3>. HIDE DEF H
    <3>. QED BY <1>1
  <2>2. D[H - k] = Clipped(2 * i + path[k], w)
    <3>1. D[(H - (k + 1)) + 1] = Clipped(2 * D[H - (k + 1)] + path[H - 1 - (H - (k + 1))],
                                     LevelWidth(VecLen(leaves))[H - 1 - (H - (k + 1))])
      <4>. HIDE DEF H, D
      <4>. QED BY <1>2, <2>1
    <3>2. LevelWidth(VecLen(leaves))[k] = w
      BY <1>3, <2>1
    <3>. HIDE DEF H, D, w
    <3>. QED BY <2>1, <3>1, <3>2
  <2>3. i \in 0 .. VecLen(L[k + 1]) - 1
    BY <1>5
  <2>4. path[k] \in {0, 1}
    BY <1>4
  <2>. HIDE DEF H, D, i
  <2>5. /\ Clipped(2 * i + path[k], w) \in 0 .. w - 1
        /\ L[k][Clipped(2 * i + path[k], w)] = Pad(L[k])[2 * i + path[k]]
    BY <2>1, <2>3, <2>4, StepDown
  <2>6. L[k + 1][i] = HashPair(Pad(L[k])[2 * i], Pad(L[k])[2 * i + 1])
    BY <2>1, <2>3, NodeOfPair
  <2>. HIDE DEF L, w
  <2>. QED BY <2>2, <2>4, <2>5, <2>6 DEF i, w
<1>. HIDE DEF H, L, D
<1>6. 0 \in S
  <2>1. H - 0 = H /\ H - H = 0
    BY <1>1
  <2>2. Inside(H)
    BY <1>1, <1>2, <2>1
  <2>. HIDE DEF Inside
  <2>. QED BY <2>1, <2>2
<1>7. \A j \in Nat : j \in S => j + 1 \in S
  <2>. SUFFICES ASSUME NEW j \in Nat, j + 1 <= H, Inside(H - j)
                PROVE  Inside(H - (j + 1))
    <3>. HIDE DEF Inside
    <3>. QED BY <1>1
  <2>. DEFINE k == H - (j + 1)
  <2>1. k \in 0 .. H - 1 /\ k + 1 = H - j
    BY <1>1
  <2>. HIDE DEF k
  <2>2. Inside(k + 1)
    <3>. HIDE DEF Inside
    <3>. QED BY <2>1
  <2>3. Inside(k)
    BY <1>5, <2>1, <2>2
  <2>. QED BY <2>3 DEF k
<1>8. \A j \in Nat : j \in S
  <2>. HIDE DEF S
  <2>. QED BY <1>6, <1>7, LevelLoop!SetInduction
<1>9. ASSUME NEW k \in 0 .. H PROVE Inside(k)
  <2>1. H - k \in Nat /\ H - k <= H /\ H - (H - k) = k
    BY <1>1
  <2>2. Inside(H - (H - k))
    <3>. HIDE DEF Inside
    <3>. QED BY <1>8, <2>1
  <2>. QED BY <2>1, <2>2
<1>10. ASSUME NEW k \in 0 .. H, k < H PROVE Hashed(k)
  <2>1. k \in 0 .. H - 1 /\ k + 1 \in 0 .. H
    BY <1>1, <1>10
  <2>. QED BY <1>5, <1>9, <2>1
<1>. QED BY <1>9, <1>10 DEF H, L, D

\* A descent depends on the sides it has taken, and no others.
LEMMA DescentPrefix ==
  ASSUME NEW leaves, Height(leaves) \in Nat, NEW k \in 0 .. Height(leaves) - 1,
         NEW path, NEW other,
         \A i \in k + 1 .. Height(leaves) - 1 : path[i] = other[i]
  PROVE  Descent(leaves, path)[Height(leaves) - (k + 1)]
           = Descent(leaves, other)[Height(leaves) - (k + 1)]
<1>. DEFINE H == Height(leaves)
            D == Descent(leaves, path)
            E == Descent(leaves, other)
            W == LevelWidth(VecLen(leaves))
            S == {j \in Nat : j <= H - (k + 1) => D[j] = E[j]}
<1>1. /\ D[0] = 0
      /\ \A j \in Nat : D[j + 1] = Clipped(2 * D[j] + path[H - 1 - j], W[H - 1 - j])
      /\ E[0] = 0
      /\ \A j \in Nat : E[j + 1] = Clipped(2 * E[j] + other[H - 1 - j], W[H - 1 - j])
  BY DescentEquations
<1>2. H \in Nat /\ k \in 0 .. H - 1 /\ \A i \in k + 1 .. H - 1 : path[i] = other[i]
  OBVIOUS
<1>. HIDE DEF H, D, E, W
<1>3. 0 \in S
  BY <1>1
<1>4. \A j \in Nat : j \in S => j + 1 \in S
  <2>. SUFFICES ASSUME NEW j \in Nat, j + 1 <= H - (k + 1), D[j] = E[j]
                PROVE  D[j + 1] = E[j + 1]
    BY <1>2
  <2>1. H - 1 - j \in k + 1 .. H - 1
    BY <1>2
  <2>2. path[H - 1 - j] = other[H - 1 - j]
    BY <1>2, <2>1
  <2>. QED BY <1>1, <2>2
<1>5. \A j \in Nat : j \in S
  <2>. HIDE DEF S
  <2>. QED BY <1>3, <1>4, LevelLoop!SetInduction
<1>6. H - (k + 1) \in Nat /\ H - (k + 1) <= H - (k + 1)
  BY <1>2
<1>. QED BY <1>5, <1>6 DEF H, D, E

\* Trees of one root have one leaf at the end of every path.
LEMMA SameRootSameUnfolded ==
  ASSUME CollisionFree,
         NEW n \in Nat \ {0}, NEW v, DOMAIN v = 0 .. n - 1,
         NEW m \in Nat \ {0}, NEW u, DOMAIN u = 0 .. m - 1,
         Height(v) = Height(u), MerkleRoot(v) = MerkleRoot(u)
  PROVE  Unfolded(v) = Unfolded(u)
<1>. DEFINE H == Height(v)
            V == Levels(v)
            U == Levels(u)
<1>. SUFFICES ASSUME NEW path \in Paths(H)
              PROVE  v[Descent(v, path)[H]] = u[Descent(u, path)[H]]
  BY DEF Unfolded
<1>. DEFINE D == Descent(v, path)
            E == Descent(u, path)
            Meet(k) == V[k][D[H - k]] = U[k][E[H - k]]
            S == {j \in Nat : j <= H => Meet(H - j)}
<1>1. H \in Nat /\ V[0] = v /\ U[0] = u /\ D[0] = 0 /\ E[0] = 0 /\ V[H][0] = U[H][0]
  <2>1. H \in Nat /\ V[0] = v /\ U[0] = u
    BY HeightShape, LevelsEquations
  <2>2. D[0] = 0 /\ E[0] = 0
    BY DescentEquations
  <2>. QED BY <2>1, <2>2 DEF MerkleRoot
<1>2. ASSUME NEW k \in 0 .. H - 1, Meet(k + 1) PROVE Meet(k)
  <2>. DEFINE i == D[H - (k + 1)]
              e == E[H - (k + 1)]
              pv == Pad(V[k])
              pu == Pad(U[k])
  <2>1. k \in 0 .. H /\ k < H
    <3>. HIDE DEF H
    <3>. QED BY <1>1
  <2>2. /\ V[k + 1][i] = HashPair(pv[2 * i], pv[2 * i + 1])
        /\ path[k] \in {0, 1}
        /\ V[k][D[H - k]] = pv[2 * i + path[k]]
        /\ i \in Nat
    <3>1. k + 1 \in 0 .. H
      <4>. HIDE DEF H
      <4>. QED BY <1>1
    <3>2. i \in 0 .. VecLen(V[k + 1]) - 1
      BY <3>1, DescentInTree
    <3>3. /\ V[k + 1][i] = HashPair(pv[2 * i], pv[2 * i + 1])
          /\ path[k] \in {0, 1}
          /\ V[k][D[H - k]] = pv[2 * i + path[k]]
      BY <2>1, DescentInTree
    <3>4. i \in Nat
      <4>. HIDE DEF i
      <4>. QED BY <3>2
    <3>. QED BY <3>3, <3>4
  <2>3. /\ U[k + 1][e] = HashPair(pu[2 * e], pu[2 * e + 1])
        /\ U[k][E[H - k]] = pu[2 * e + path[k]]
        /\ e \in Nat
    <3>0. path \in Paths(Height(u)) /\ H = Height(u)
      OBVIOUS
    <3>1. k + 1 \in 0 .. H
      <4>. HIDE DEF H
      <4>. QED BY <1>1
    <3>2. e \in 0 .. VecLen(U[k + 1]) - 1
      BY <3>0, <3>1, DescentInTree
    <3>3. /\ U[k + 1][e] = HashPair(pu[2 * e], pu[2 * e + 1])
          /\ U[k][E[H - k]] = pu[2 * e + path[k]]
      BY <2>1, <3>0, DescentInTree
    <3>4. e \in Nat
      <4>. HIDE DEF e
      <4>. QED BY <3>2
    <3>. QED BY <3>3, <3>4
  <2>4. HashPair(pv[2 * i], pv[2 * i + 1]) = HashPair(pu[2 * e], pu[2 * e + 1])
    BY <1>2, <2>2, <2>3
  <2>. HIDE DEF pv, pu, i, e
  <2>5. pv[2 * i] = pu[2 * e] /\ pv[2 * i + 1] = pu[2 * e + 1]
    BY <2>4 DEF CollisionFree
  <2>. HIDE DEF V, U, D, E, H
  <2>6. CASE path[k] = 0
    <3>1. 2 * i + 0 = 2 * i /\ 2 * e + 0 = 2 * e
      BY <2>2, <2>3
    <3>. QED BY <2>2, <2>3, <2>5, <2>6, <3>1
  <2>7. CASE path[k] = 1
    BY <2>2, <2>3, <2>5, <2>7
  <2>. QED BY <2>2, <2>6, <2>7
<1>. HIDE DEF H, V, U, D, E
<1>3. 0 \in S
  <2>1. H - 0 = H /\ H - H = 0
    BY <1>1
  <2>. QED BY <1>1, <2>1
<1>. HIDE DEF Meet
<1>4. \A j \in Nat : j \in S => j + 1 \in S
  <2>. SUFFICES ASSUME NEW j \in Nat, j + 1 <= H, Meet(H - j)
                PROVE  Meet(H - (j + 1))
    BY <1>1
  <2>. DEFINE k == H - (j + 1)
  <2>1. k \in 0 .. H - 1 /\ k + 1 = H - j
    BY <1>1
  <2>. HIDE DEF k
  <2>2. Meet(k + 1)
    BY <2>1
  <2>. QED BY <1>2, <2>1, <2>2 DEF k
<1>5. \A j \in Nat : j \in S
  <2>. HIDE DEF S
  <2>. QED BY <1>3, <1>4, LevelLoop!SetInduction
<1>6. Meet(0)
  <2>1. H - H = 0 /\ H <= H
    BY <1>1
  <2>2. Meet(H - H)
    BY <1>1, <1>5, <2>1
  <2>. QED BY <2>1, <2>2
<1>7. v[D[H]] = u[E[H]]
  <2>1. H - 0 = H
    BY <1>1
  <2>. QED BY <1>1, <1>6, <2>1 DEF Meet
<1>. QED BY <1>7 DEF H, D, E

\* Trees with one leaf at the end of every path have one root.
LEMMA SameUnfoldedSameRoot ==
  ASSUME NEW n \in Nat \ {0}, NEW v, DOMAIN v = 0 .. n - 1,
         NEW m \in Nat \ {0}, NEW u, DOMAIN u = 0 .. m - 1,
         Unfolded(v) = Unfolded(u)
  PROVE  Height(v) = Height(u) /\ MerkleRoot(v) = MerkleRoot(u)
<1>. DEFINE H == Height(v)
            V == Levels(v)
            U == Levels(u)
            Meet(path, k) == V[k][Descent(v, path)[H - k]] = U[k][Descent(u, path)[H - k]]
            S == {k \in Nat : k <= H => \A path \in Paths(H) : Meet(path, k)}
<1>1. H \in Nat /\ Height(u) \in Nat /\ V[0] = v /\ U[0] = u
  BY HeightShape, LevelsEquations
<1>2. Height(u) = H
  <2>1. Paths(H) = Paths(Height(u))
    BY DEF Unfolded
  <2>. DEFINE path == [j \in 0 .. H - 1 |-> 0]
  <2>2. path \in Paths(H) /\ DOMAIN path = 0 .. H - 1
    BY DEF Paths
  <2>. HIDE DEF path, H
  <2>3. DOMAIN path = 0 .. Height(u) - 1
    BY <2>1, <2>2 DEF Paths
  <2>4. VecLen(path) = H /\ VecLen(path) = Height(u)
    BY <1>1, <2>2, <2>3, VecLenOfDomain
  <2>. QED BY <2>4
<1>3. 0 \in S
  <2>. SUFFICES ASSUME NEW path \in Paths(H) PROVE Meet(path, 0)
    OBVIOUS
  <2>1. Unfolded(v)[path] = v[Descent(v, path)[H]]
    BY DEF Unfolded
  <2>2. Unfolded(u)[path] = u[Descent(u, path)[H]]
    BY <1>2 DEF Unfolded
  <2>3. H - 0 = H
    BY <1>1
  <2>. QED BY <1>1, <2>1, <2>2, <2>3
<1>4. ASSUME NEW k \in Nat, k + 1 <= H, \A path \in Paths(H) : Meet(path, k),
             NEW path \in Paths(H)
      PROVE  Meet(path, k + 1)
  <2>. DEFINE left == [path EXCEPT ![k] = 0]
              right == [path EXCEPT ![k] = 1]
              i == Descent(v, path)[H - (k + 1)]
              e == Descent(u, path)[H - (k + 1)]
              pv == Pad(V[k])
              pu == Pad(U[k])
  <2>1. k \in 0 .. H - 1 /\ k \in 0 .. H /\ k < H /\ k + 1 \in 0 .. H
    <3>. HIDE DEF H
    <3>. QED BY <1>1, <1>4
  <2>2. /\ left \in Paths(H) /\ left[k] = 0
        /\ right \in Paths(H) /\ right[k] = 1
        /\ \A j \in k + 1 .. H - 1 : left[j] = path[j] /\ right[j] = path[j]
    <3>. HIDE DEF H
    <3>. QED BY <1>1, <2>1 DEF Paths
  <2>3. /\ Descent(v, left)[H - (k + 1)] = i /\ Descent(v, right)[H - (k + 1)] = i
        /\ Descent(u, left)[H - (k + 1)] = e /\ Descent(u, right)[H - (k + 1)] = e
    <3>. HIDE DEF left, right
    <3>1. /\ Descent(v, left)[H - (k + 1)] = Descent(v, path)[H - (k + 1)]
          /\ Descent(v, right)[H - (k + 1)] = Descent(v, path)[H - (k + 1)]
      <4>1. /\ Height(v) \in Nat /\ k \in 0 .. Height(v) - 1
            /\ \A j \in k + 1 .. Height(v) - 1 : left[j] = path[j] /\ right[j] = path[j]
        BY <1>1, <2>1, <2>2
      <4>2. Descent(v, left)[Height(v) - (k + 1)] = Descent(v, path)[Height(v) - (k + 1)]
        <5>. HIDE DEF H
        <5>. QED BY <4>1, DescentPrefix
      <4>3. Descent(v, right)[Height(v) - (k + 1)] = Descent(v, path)[Height(v) - (k + 1)]
        <5>. HIDE DEF H
        <5>. QED BY <4>1, DescentPrefix
      <4>. QED BY <4>2, <4>3
    <3>2. /\ Descent(u, left)[H - (k + 1)] = Descent(u, path)[H - (k + 1)]
          /\ Descent(u, right)[H - (k + 1)] = Descent(u, path)[H - (k + 1)]
      <4>1. k \in 0 .. Height(u) - 1 /\ \A j \in k + 1 .. Height(u) - 1 :
              left[j] = path[j] /\ right[j] = path[j]
        BY <1>2, <2>1, <2>2
      <4>. HIDE DEF H
      <4>2. /\ Descent(u, left)[Height(u) - (k + 1)] = Descent(u, path)[Height(u) - (k + 1)]
            /\ Descent(u, right)[Height(u) - (k + 1)] = Descent(u, path)[Height(u) - (k + 1)]
        BY <1>1, <4>1, DescentPrefix
      <4>. QED BY <1>2, <4>2
    <3>. QED BY <3>1, <3>2
  <2>4. /\ V[k + 1][i] = HashPair(pv[2 * i], pv[2 * i + 1])
        /\ i \in Nat
        /\ V[k][Descent(v, left)[H - k]] = pv[2 * i + 0]
        /\ V[k][Descent(v, right)[H - k]] = pv[2 * i + 1]
    <3>1. i \in 0 .. VecLen(V[k + 1]) - 1
      BY <2>1, DescentInTree
    <3>2. V[k + 1][i] = HashPair(pv[2 * i], pv[2 * i + 1])
      BY <2>1, DescentInTree
    <3>3. i \in Nat
      <4>. HIDE DEF i
      <4>. QED BY <3>1
    <3>. HIDE DEF left, right
    <3>4. V[k][Descent(v, left)[H - k]] = pv[2 * Descent(v, left)[H - (k + 1)] + left[k]]
      BY <2>1, <2>2, DescentInTree
    <3>5. V[k][Descent(v, right)[H - k]] = pv[2 * Descent(v, right)[H - (k + 1)] + right[k]]
      BY <2>1, <2>2, DescentInTree
    <3>. QED BY <2>2, <2>3, <3>2, <3>3, <3>4, <3>5
  <2>5. /\ U[k + 1][e] = HashPair(pu[2 * e], pu[2 * e + 1])
        /\ e \in Nat
        /\ U[k][Descent(u, left)[H - k]] = pu[2 * e + 0]
        /\ U[k][Descent(u, right)[H - k]] = pu[2 * e + 1]
    <3>0. \A p \in Paths(H) : p \in Paths(Height(u)) /\ Height(u) = H
      BY <1>2
    <3>1. e \in 0 .. VecLen(U[k + 1]) - 1
      BY <2>1, <3>0, DescentInTree
    <3>2. U[k + 1][e] = HashPair(pu[2 * e], pu[2 * e + 1])
      BY <2>1, <3>0, DescentInTree
    <3>3. e \in Nat
      <4>. HIDE DEF e
      <4>. QED BY <3>1
    <3>. HIDE DEF left, right
    <3>4. U[k][Descent(u, left)[H - k]] = pu[2 * Descent(u, left)[H - (k + 1)] + left[k]]
      BY <2>1, <2>2, <3>0, DescentInTree
    <3>5. U[k][Descent(u, right)[H - k]] = pu[2 * Descent(u, right)[H - (k + 1)] + right[k]]
      BY <2>1, <2>2, <3>0, DescentInTree
    <3>. QED BY <2>2, <2>3, <3>2, <3>3, <3>4, <3>5
  <2>6. Meet(left, k) /\ Meet(right, k)
    BY <1>4, <2>2
  <2>7. pv[2 * i + 0] = pu[2 * e + 0] /\ pv[2 * i + 1] = pu[2 * e + 1]
    <3>. HIDE DEF left, right, pv, pu, i, e, H, V, U
    <3>. QED BY <2>4, <2>5, <2>6
  <2>8. V[k + 1][i] = U[k + 1][e]
    <3>. HIDE DEF pv, pu, i, e, H, V, U
    <3>1. 2 * i + 0 = 2 * i /\ 2 * e + 0 = 2 * e
      BY <2>4, <2>5
    <3>. QED BY <2>4, <2>5, <2>7, <3>1
  <2>. QED BY <2>8
<1>. HIDE DEF Meet, H
<1>5. \A k \in Nat : k \in S => k + 1 \in S
  <2>. SUFFICES ASSUME NEW k \in Nat, k + 1 <= H, k \in S
                PROVE  \A path \in Paths(H) : Meet(path, k + 1)
    OBVIOUS
  <2>1. \A path \in Paths(H) : Meet(path, k)
    BY <1>1
  <2>. QED BY <1>4, <2>1
<1>6. \A k \in Nat : k \in S
  <2>. HIDE DEF S
  <2>. QED BY <1>3, <1>5, LevelLoop!SetInduction
<1>7. V[H][0] = U[H][0]
  <2>. DEFINE path == [j \in 0 .. H - 1 |-> 0]
  <2>1. path \in Paths(H)
    BY DEF Paths
  <2>. HIDE DEF path
  <2>2. Meet(path, H)
    BY <1>1, <1>6, <2>1
  <2>3. H - H = 0 /\ Descent(v, path)[0] = 0 /\ Descent(u, path)[0] = 0
    BY <1>1, DescentEquations
  <2>. QED BY <2>2, <2>3 DEF Meet
<1>. QED BY <1>2, <1>7 DEF MerkleRoot, H

(***************************************************************************)
(* A root binds the leaves: with a hash that never collides and leaves     *)
(* that are no hashes of pairs, two vectors have one root exactly when     *)
(* they unfold to one full tree.                                           *)
(***************************************************************************)
THEOREM RootIsOfUnfolded ==
  ASSUME CollisionFree,
         NEW n \in Nat \ {0}, NEW v, DOMAIN v = 0 .. n - 1,
         \A i \in 0 .. n - 1 : NoPair(v[i]),
         NEW m \in Nat \ {0}, NEW u, DOMAIN u = 0 .. m - 1,
         \A i \in 0 .. m - 1 : NoPair(u[i])
  PROVE  MerkleRoot(v) = MerkleRoot(u) <=> Unfolded(v) = Unfolded(u)
<1>1. ASSUME MerkleRoot(v) = MerkleRoot(u) PROVE Unfolded(v) = Unfolded(u)
  <2>1. Height(v) = Height(u)
    BY <1>1, SameRootAgree
  <2>. QED BY <1>1, <2>1, SameRootSameUnfolded
<1>2. ASSUME Unfolded(v) = Unfolded(u) PROVE MerkleRoot(v) = MerkleRoot(u)
  BY <1>2, SameUnfoldedSameRoot
<1>. QED BY <1>1, <1>2

(***************************************************************************)
(* Two lists of leaves of one root: every leaf of either is one of the     *)
(* other, and at its own place when the other has that place.              *)
(***************************************************************************)
SameLeaves(v, n, u, m) ==
  /\ \A i \in 0 .. n - 1 : i < m => v[i] = u[i]
  /\ \A k \in 0 .. m - 1 : \E i \in 0 .. n - 1 : u[k] = v[i]

LEMMA SameRootSameLeaves ==
  ASSUME CollisionFree,
         NEW n \in Nat \ {0}, NEW v, DOMAIN v = 0 .. n - 1,
         \A i \in 0 .. n - 1 : NoPair(v[i]),
         NEW m \in Nat \ {0}, NEW u, DOMAIN u = 0 .. m - 1,
         \A i \in 0 .. m - 1 : NoPair(u[i]),
         MerkleRoot(v) = MerkleRoot(u)
  PROVE  SameLeaves(v, n, u, m)
<1>1. /\ Height(v) = Height(u) /\ Height(v) \in Nat
      /\ \A i \in 0 .. VecLen(Levels(v)[0]) - 1 :
           i < VecLen(Levels(u)[0]) => Levels(v)[0][i] = Levels(u)[0][i]
  <2>1. Height(v) \in Nat
    BY HeightShape
  <2>2. /\ Height(v) = Height(u)
        /\ \A j \in 0 .. Height(v) :
             \A i \in 0 .. VecLen(Levels(v)[j]) - 1 :
               i < VecLen(Levels(u)[j]) => Levels(v)[j][i] = Levels(u)[j][i]
    BY SameRootAgree
  <2>3. 0 \in 0 .. Height(v)
    BY <2>1
  <2>. QED BY <2>1, <2>2, <2>3
<1>2. Levels(v)[0] = v /\ Levels(u)[0] = u /\ VecLen(v) = n /\ VecLen(u) = m
  BY LevelsEquations, VecLenOfDomain
<1>3. \A i \in 0 .. n - 1 : i < m => v[i] = u[i]
  BY <1>1, <1>2
<1>4. ASSUME NEW k \in 0 .. m - 1
      PROVE  \E i \in 0 .. n - 1 : u[k] = v[i]
  <2>. DEFINE proof == MerkleProof(u, k)
              d == Height(u)
              W == Walk(proof, u[k])
              L == Levels(v)
  <2>1. Verifies(proof, u[k], MerkleRoot(v))
    BY MerkleRoundTrip
  <2>2. d \in Nat /\ VecLen(proof.siblings) = d
    <3>1. d \in Nat
      BY <1>1
    <3>. QED BY <3>1, SiblingsShape DEF MerkleProof
  <2>3. \A j \in Nat : j <= d /\ j <= Height(v) =>
          \E i \in 0 .. VecLen(L[Height(v) - j]) - 1 :
            W[d - j] = L[Height(v) - j][i]
    <3>. HIDE DEF d, proof
    <3>. QED BY <2>1, <2>2, WalkMeetsTree
  <2>4. d - d = 0 /\ Height(v) = d /\ d <= d
    BY <1>1, <2>2
  <2>5. \E i \in 0 .. VecLen(L[0]) - 1 : W[0] = L[0][i]
    <3>. HIDE DEF d, W, L
    <3>. QED BY <2>2, <2>3, <2>4
  <2>6. W[0] = u[k]
    BY WalkEquations
  <2>. QED BY <1>2, <2>5, <2>6
<1>. QED BY <1>3, <1>4 DEF SameLeaves
===============================================================================
