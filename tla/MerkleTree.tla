------------------------------ MODULE MerkleTree ------------------------------
(***************************************************************************)
(* The Merkle tree of crates/merkle/src/lib.rs: the root of a vector of    *)
(* leaves, the inclusion proof of one leaf, and the reconstruction a       *)
(* verifier runs on a proof.                                               *)
(*                                                                         *)
(* A Vec<Hash> is a function on 0 .. n-1, so indices are the code's own.   *)
(* The hash of a pair is a constant operator of which nothing is assumed:  *)
(* a model gives it a value (pairing, which never collides, or a small     *)
(* modular hash, which does), the proofs hold for every one.               *)
(***************************************************************************)
EXTENDS Integers, FiniteSets

CONSTANT HashPair(_, _)   \* double_sha256(left || right)

VecLen(v) == Cardinality(DOMAIN v)

IsVec(v, n) == v = [i \in 0 .. n - 1 |-> v[i]]

\* Mutants: an odd level repeats its first node; it loses its last one.
PadWithFirst(level) ==
  LET n == VecLen(level) IN
  [i \in 0 .. n + (n % 2) - 1 |-> IF i < n THEN level[i] ELSE level[0]]

PadByDropping(level) ==
  LET n == VecLen(level) IN [i \in 0 .. n - (n % 2) - 1 |-> level[i]]

\* A level of odd length repeats its last node.
Pad(level) ==
  LET n == VecLen(level) IN
  [i \in 0 .. n + (n % 2) - 1 |-> IF i < n THEN level[i] ELSE level[n - 1]]

NextLevel(level) ==
  LET padded == Pad(level) IN
  [i \in 0 .. (VecLen(padded) \div 2) - 1 |->
     HashPair(padded[2 * i], padded[2 * i + 1])]

-------------------------------------------------------------------------------
(***************************************************************************)
(* Levels(leaves)[j] is the vector `level' after j rounds of the loop that *)
(* merkle_root, merkle_proof and compute_proof_assistance share; the loop  *)
(* of the first two stops at the first level of one node.                  *)
(***************************************************************************)
Levels(leaves) ==
  LET level[j \in Nat] == IF j = 0 THEN leaves ELSE NextLevel(level[j - 1])
  IN  level

IsHeight(leaves, d) ==
  /\ VecLen(Levels(leaves)[d]) = 1
  /\ \A j \in 0 .. d - 1 : VecLen(Levels(leaves)[j]) > 1

Height(leaves) == CHOOSE d \in 0 .. VecLen(leaves) : IsHeight(leaves, d)

\* merkle_root on a vector that is not empty; the error of an empty one is
\* the caller's guard.
MerkleRoot(leaves) == Levels(leaves)[Height(leaves)][0]

\* idx >>= 1, j times.
Shifted(index) ==
  LET idx[j \in Nat] == IF j = 0 THEN index ELSE idx[j - 1] \div 2
  IN  idx

\* idx ^ 1
SiblingIndex(idx) == IF idx % 2 = 0 THEN idx + 1 ELSE idx - 1

SiblingsOf(leaves, index) ==
  [j \in 0 .. Height(leaves) - 1 |->
     Pad(Levels(leaves)[j])[SiblingIndex(Shifted(index)[j])]]

\* Mutant: off by one.
InRangeInclusive(leaves, index) == index <= VecLen(leaves)

\* merkle_proof; IndexOutOfRange is the caller's guard InRange.
InRange(leaves, index) == index < VecLen(leaves)

MerkleProof(leaves, index) ==
  [leaf_index |-> index, siblings |-> SiblingsOf(leaves, index)]

-------------------------------------------------------------------------------
(***************************************************************************)
(* reconstruct_root: Walk(proof, leaf)[j] is `current' after the first j   *)
(* siblings.  The parity of the shifted index says on which side `current' *)
(* stands.                                                                 *)
(***************************************************************************)
\* Mutants: the sides are swapped; the sibling of a right node is forgotten.
HashUpSwapped(idx, current, sibling) ==
  IF idx % 2 = 1 THEN HashPair(current, sibling) ELSE HashPair(sibling, current)

HashUpForgetful(idx, current, sibling) ==
  IF idx % 2 = 0 THEN HashPair(current, sibling) ELSE HashPair(current, current)

HashUp(idx, current, sibling) ==
  IF idx % 2 = 0 THEN HashPair(current, sibling) ELSE HashPair(sibling, current)

Walk(proof, leaf) ==
  LET current[j \in Nat] ==
        IF j = 0 THEN leaf
        ELSE HashUp(Shifted(proof.leaf_index)[j - 1], current[j - 1],
                    proof.siblings[j - 1])
  IN  current

ReconstructRoot(proof, leaf) == Walk(proof, leaf)[VecLen(proof.siblings)]

\* Mutant: the walk stops as soon as it meets the root.
VerifiesEarly(proof, leaf, expected_root) ==
  \E j \in 0 .. VecLen(proof.siblings) : Walk(proof, leaf)[j] = expected_root

\* MerkleProof::verify
Verifies(proof, leaf, expected_root) ==
  ReconstructRoot(proof, leaf) = expected_root

-------------------------------------------------------------------------------
(***************************************************************************)
(* What a proof can be said to show when HashPair is a hash: the walk of a *)
(* proof collides with the tree at level j when the pair it hashes there   *)
(* is not the pair the tree hashes above the same position, and the hashes *)
(* are equal.                                                              *)
(***************************************************************************)
PairHashed(idx, current, sibling) ==
  IF idx % 2 = 0 THEN <<current, sibling>> ELSE <<sibling, current>>

PairInTree(leaves, j, idx) ==
  LET padded == Pad(Levels(leaves)[j]) IN
  <<padded[2 * (idx \div 2)], padded[2 * (idx \div 2) + 1]>>

CollidesAt(leaves, proof, leaf, j) ==
  LET idx == Shifted(proof.leaf_index)[j]
      a == PairHashed(idx, Walk(proof, leaf)[j], proof.siblings[j])
      b == PairInTree(leaves, j, idx)
  IN  a # b /\ HashPair(a[1], a[2]) = HashPair(b[1], b[2])

Collides(leaves, proof, leaf) ==
  \E j \in 0 .. Height(leaves) - 1 : CollidesAt(leaves, proof, leaf, j)

-------------------------------------------------------------------------------
(***************************************************************************)
(* The leaf below the root along a path of sides, 0 for left and 1 for     *)
(* right, when every index past the end of a level stands for the last     *)
(* node of that level.  path[j] is the side on level j, the leaves being   *)
(* level 0.                                                                *)
(***************************************************************************)
LevelWidth(n) ==
  LET width[j \in Nat] == IF j = 0 THEN n ELSE (width[j - 1] + 1) \div 2
  IN  width

Clipped(i, w) == IF i < w THEN i ELSE w - 1

\* The position after j steps from the root.
Descent(v, path) ==
  LET below(j) == Height(v) - 1 - j
      at[j \in Nat] ==
        IF j = 0 THEN 0
        ELSE Clipped(2 * at[j - 1] + path[below(j - 1)],
                     LevelWidth(VecLen(v))[below(j - 1)])
  IN  at

Paths(height) == [0 .. height - 1 -> {0, 1}]

Unfolded(v) == [path \in Paths(Height(v)) |-> v[Descent(v, path)[Height(v)]]]
===============================================================================
