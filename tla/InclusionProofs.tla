---------------------------- MODULE InclusionProofs ----------------------------
(***************************************************************************)
(* What the verifier accepts, for every hash, every vector of leaves and   *)
(* every number of faults on the way of the proof.                         *)
(***************************************************************************)
EXTENDS InclusionProof, MerkleTreeProofs

(***************************************************************************)
(* The inductive invariant.  The parts on the proof say what the actions   *)
(* leave of its shape, whatever faults it suffered; the last ones tie the  *)
(* answer to the proof that was delivered, and a proof without faults to   *)
(* the prover.                                                             *)
(***************************************************************************)
ShapeInv ==
  /\ leaves \in Vectors
  /\ faults \in Nat
  /\ proof = [leaf_index |-> proof.leaf_index, siblings |-> proof.siblings]
  /\ proof.leaf_index \in Nat
  /\ \E d \in Nat : DOMAIN proof.siblings = 0 .. d - 1
                    /\ IsVec(proof.siblings, d)

Delivered ==
  leaves # <<>> /\
  (faults = 0 => \E index \in Nat : /\ InRange(leaves, index)
                                    /\ proof = MerkleProof(leaves, index)
                                    /\ leaf = leaves[index])

AnswerInv ==
  /\ answer = "none" => proof = NoProof
  /\ answer \in {"proved", "Ok", "RootMismatch"} => Delivered
  /\ answer = "Ok" => Verifies(proof, leaf, MerkleRoot(leaves))
  /\ answer = "RootMismatch" => ~ Verifies(proof, leaf, MerkleRoot(leaves))

IInv == ShapeInv /\ AnswerInv

\* A vector that is not empty has a positive number of leaves.
LEMMA VectorShape ==
  ASSUME NEW v \in Vectors
  PROVE  /\ VecLen(v) \in Nat
         /\ DOMAIN v = 0 .. VecLen(v) - 1
         /\ v # <<>> => VecLen(v) > 0
<1>1. PICK n \in 0 .. MaxLeaves : v \in [0 .. n - 1 -> Leaf]
  BY DEF Vectors
<1>2. n \in Nat /\ DOMAIN v = 0 .. n - 1
  BY <1>1, BoundsAssumption
<1>3. VecLen(v) = n
  BY <1>2, VecLenOfDomain
<1>4. n = 0 => v = <<>>
  <2>. SUFFICES ASSUME n = 0 PROVE v = <<>>
    OBVIOUS
  <2>1. v = [i \in {} |-> v[i]]
    BY <1>1, 0 .. 0 - 1 = {}
  <2>. QED BY <2>1
<1>. QED BY <1>2, <1>3, <1>4

\* Prover and verifier agree on a proof that nothing happened to.
LEMMA DeliveredVerifies ==
  ASSUME leaves \in Vectors, Delivered, faults = 0
  PROVE  Verifies(proof, leaf, MerkleRoot(leaves))
<1>1. PICK index \in Nat : /\ InRange(leaves, index)
                           /\ proof = MerkleProof(leaves, index)
                           /\ leaf = leaves[index]
  BY DEF Delivered
<1>2. /\ VecLen(leaves) \in Nat \ {0} /\ DOMAIN leaves = 0 .. VecLen(leaves) - 1
      /\ index \in 0 .. VecLen(leaves) - 1
  BY <1>1, VectorShape DEF Delivered, InRange
<1>. QED BY <1>1, <1>2, MerkleRoundTrip

-------------------------------------------------------------------------------
(***************************************************************************)
(* The actions.                                                            *)
(***************************************************************************)
\* The siblings a prover collects are a vector.
LEMMA ProveKeeps ==
  ASSUME IInv, NEW index \in 0 .. MaxIndex, Prove(index)
  PROVE  IInv'
<1>1. /\ VecLen(leaves) \in Nat \ {0} /\ DOMAIN leaves = 0 .. VecLen(leaves) - 1
      /\ index \in Nat /\ leaves' = leaves /\ faults' = faults
  BY VectorShape, BoundsAssumption DEF IInv, ShapeInv, Prove
<1>2. Height(leaves) \in Nat
  BY <1>1, HeightShape
<1>3. /\ proof' = [leaf_index |-> index, siblings |-> SiblingsOf(leaves, index)]
      /\ DOMAIN SiblingsOf(leaves, index) = 0 .. Height(leaves) - 1
      /\ IsVec(SiblingsOf(leaves, index), Height(leaves))
  BY DEF Prove, MerkleProof, SiblingsOf, IsVec
<1>4. ShapeInv'
  BY <1>1, <1>2, <1>3 DEF IInv, ShapeInv, Vectors
<1>5. Delivered' /\ answer' = "proved"
  BY <1>1 DEF Prove, Delivered
<1>. QED BY <1>4, <1>5 DEF IInv, AnswerInv

\* A fault changes the leaf, the index or the siblings, and the siblings stay a
\* vector.
LEMMA FaultKeeps ==
  ASSUME IInv,
         WrongLeaf \/ WrongIndex \/ TamperedSibling \/ TruncatedProof \/ ExtraSibling
  PROVE  IInv'
<1>. PICK d \in Nat : DOMAIN proof.siblings = 0 .. d - 1 /\ IsVec(proof.siblings, d)
  BY DEF IInv, ShapeInv
<1>. DEFINE s == proof.siblings
<1>1. VecLen(s) = d
  BY VecLenOfDomain
<1>2. /\ Fault
      /\ faults' \in Nat /\ faults' # 0 /\ leaves' = leaves
      /\ answer = "proved" /\ answer' = "proved"
  BY DEF IInv, ShapeInv, WrongLeaf, WrongIndex, TamperedSibling, TruncatedProof,
         ExtraSibling, Fault
<1>3. /\ proof' = [leaf_index |-> proof'.leaf_index, siblings |-> proof'.siblings]
      /\ proof'.leaf_index \in Nat
      /\ \E e \in Nat : DOMAIN proof'.siblings = 0 .. e - 1 /\ IsVec(proof'.siblings, e)
  <2>0. /\ proof = [leaf_index |-> proof.leaf_index, siblings |-> s]
        /\ proof.leaf_index \in Nat
    BY DEF IInv, ShapeInv
  <2>1. CASE WrongLeaf
    BY <2>0, <2>1 DEF WrongLeaf
  <2>2. CASE WrongIndex
    <3>1. PICK i \in 0 .. MaxIndex : proof' = [leaf_index |-> i, siblings |-> s]
      BY <2>0, <2>2 DEF WrongIndex
    <3>. QED BY <3>1, BoundsAssumption
  <2>3. CASE TamperedSibling
    <3>1. PICK j \in DOMAIN s, h \in InSight : proof' = [proof EXCEPT !.siblings[j] = h]
      BY <2>3 DEF TamperedSibling
    <3>2. proof' = [leaf_index |-> proof.leaf_index, siblings |-> [s EXCEPT ![j] = h]]
      BY <2>0, <3>1
    <3>3. /\ DOMAIN [s EXCEPT ![j] = h] = 0 .. d - 1
          /\ IsVec([s EXCEPT ![j] = h], d)
      BY DEF IsVec
    <3>. QED BY <2>0, <3>2, <3>3
  <2>4. CASE TruncatedProof
    <3>1. d > 0
      BY <1>1, <2>4 DEF TruncatedProof
    <3>2. proof' = [leaf_index |-> proof.leaf_index,
                    siblings |-> [j \in 0 .. (d - 1) - 1 |-> s[j]]]
      <4>1. proof' = [proof EXCEPT !.siblings = [j \in 0 .. d - 2 |-> s[j]]]
        BY <1>1, <2>4 DEF TruncatedProof
      <4>2. (d - 1) - 1 = d - 2
        OBVIOUS
      <4>. QED BY <2>0, <4>1, <4>2
    <3>3. d - 1 \in Nat
      BY <3>1
    <3>. QED BY <2>0, <3>2, <3>3 DEF IsVec
  <2>5. CASE ExtraSibling
    <3>1. PICK h \in InSight :
            proof' = [proof EXCEPT !.siblings =
                        [j \in 0 .. d |-> IF j < d THEN s[j] ELSE h]]
      BY <1>1, <2>5 DEF ExtraSibling
    <3>2. proof' = [leaf_index |-> proof.leaf_index,
                    siblings |-> [j \in 0 .. (d + 1) - 1 |-> IF j < d THEN s[j] ELSE h]]
      <4>1. (d + 1) - 1 = d
        OBVIOUS
      <4>. QED BY <2>0, <3>1, <4>1
    <3>3. d + 1 \in Nat
      OBVIOUS
    <3>. QED BY <2>0, <3>2, <3>3 DEF IsVec
  <2>. QED BY <2>1, <2>2, <2>3, <2>4, <2>5
<1>4. ShapeInv'
  BY <1>2, <1>3 DEF IInv, ShapeInv, Vectors
<1>5. Delivered'
  BY <1>2 DEF IInv, AnswerInv, Delivered
<1>. QED BY <1>2, <1>4, <1>5 DEF IInv, AnswerInv

\* The invariant holds in every state of the specification.
LEMMA DeliveryInvariance == Spec => []IInv
<1>1. Init => IInv
  <2>. SUFFICES ASSUME Init PROVE IInv
    OBVIOUS
  <2>1. proof = NoProof /\ DOMAIN proof.siblings = 0 .. 0 - 1
        /\ IsVec(proof.siblings, 0)
    BY DEF Init, NoProof, IsVec
  <2>. QED BY <2>1 DEF Init, IInv, ShapeInv, AnswerInv, NoProof
<1>2. IInv /\ [Next]_vars => IInv'
  <2>. SUFFICES ASSUME IInv, [Next]_vars PROVE IInv'
    OBVIOUS
  <2>1. CASE ProveEmpty
    BY <2>1 DEF ProveEmpty, IInv, ShapeInv, AnswerInv, Vectors
  <2>2. CASE \E index \in 0 .. MaxIndex : ProveOutOfRange(index)
    BY <2>2 DEF ProveOutOfRange, IInv, ShapeInv, AnswerInv, Vectors
  <2>3. CASE \E index \in 0 .. MaxIndex : Prove(index)
    BY <2>3, ProveKeeps
  <2>4. CASE WrongLeaf \/ WrongIndex \/ TamperedSibling \/ TruncatedProof
             \/ ExtraSibling
    BY <2>4, FaultKeeps
  <2>5. CASE Verify
    BY <2>5 DEF Verify, IInv, ShapeInv, AnswerInv, Delivered, Vectors
  <2>6. CASE UNCHANGED vars
    BY <2>6 DEF vars, IInv, ShapeInv, AnswerInv, Delivered, Vectors
  <2>. QED BY <2>1, <2>2, <2>3, <2>4, <2>5, <2>6 DEF Next
<1>. QED BY <1>1, <1>2, PTL DEF Spec

-------------------------------------------------------------------------------
(***************************************************************************)
(* For every hash and every vector of leaves: a proof that arrives as      *)
(* merkle_proof made it is accepted.                                       *)
(***************************************************************************)
THEOREM HonestProofsAccepted == Spec => []HonestProofAccepted
<1>1. IInv => HonestProofAccepted
  <2>. SUFFICES ASSUME IInv, answer = "RootMismatch" PROVE faults > 0
    BY DEF HonestProofAccepted
  <2>1. /\ leaves \in Vectors /\ Delivered /\ faults \in Nat
        /\ ~ Verifies(proof, leaf, MerkleRoot(leaves))
    BY DEF IInv, ShapeInv, AnswerInv
  <2>2. faults # 0
    BY <2>1, DeliveredVerifies
  <2>. QED BY <2>1, <2>2
<1>. QED BY <1>1, DeliveryInvariance, PTL

(***************************************************************************)
(* For every hash, every vector of leaves and every sequence of faults: an *)
(* accepted proof of the height of the tree, at a position of the tree, is *)
(* the one merkle_proof makes for the leaf there, or its walk exhibits a   *)
(* collision.                                                              *)
(***************************************************************************)
THEOREM AcceptedProofsGenuine == Spec => []AcceptedProofIsGenuine
<1>1. IInv => AcceptedProofIsGenuine
  <2>. DEFINE index == proof.leaf_index
  <2>. SUFFICES ASSUME IInv, answer = "Ok", InRange(leaves, index),
                       VecLen(proof.siblings) = Height(leaves),
                       ~ Collides(leaves, proof, leaf)
                PROVE  leaf = leaves[index] /\ proof = MerkleProof(leaves, index)
    BY DEF AcceptedProofIsGenuine, Accepted
  <2>1. /\ Verifies(proof, leaf, MerkleRoot(leaves)) /\ leaves # <<>>
        /\ leaves \in Vectors /\ index \in Nat
        /\ proof = [leaf_index |-> index, siblings |-> proof.siblings]
    BY DEF IInv, ShapeInv, AnswerInv, Delivered
  <2>2. /\ VecLen(leaves) \in Nat \ {0} /\ DOMAIN leaves = 0 .. VecLen(leaves) - 1
        /\ index \in 0 .. VecLen(leaves) - 1
    BY <2>1, VectorShape DEF InRange
  <2>3. /\ leaf = leaves[index]
        /\ \A j \in 0 .. Height(leaves) - 1 :
             proof.siblings[j] = SiblingsOf(leaves, index)[j]
    BY <2>1, <2>2, MerkleSoundness
  <2>4. proof.siblings = SiblingsOf(leaves, index)
    <3>1. PICK d \in Nat : /\ DOMAIN proof.siblings = 0 .. d - 1
                           /\ IsVec(proof.siblings, d)
      BY DEF IInv, ShapeInv
    <3>2. d = Height(leaves)
      BY <3>1, VecLenOfDomain
    <3>3. proof.siblings = [j \in 0 .. d - 1 |-> SiblingsOf(leaves, index)[j]]
      BY <2>3, <3>1, <3>2 DEF IsVec
    <3>. QED BY <3>2, <3>3 DEF SiblingsOf
  <2>. QED BY <2>1, <2>3, <2>4 DEF MerkleProof
<1>. QED BY <1>1, DeliveryInvariance, PTL
(***************************************************************************)
(* With a hash that never collides, and leaves that are no hashes of       *)
(* pairs: an accepted proof about a leaf has the height of the tree,       *)
(* whatever faults it suffered.                                            *)
(***************************************************************************)
THEOREM AcceptedProofsHaveHeight ==
  ASSUME CollisionFree, \A h \in Leaf : NoPair(h)
  PROVE  Spec => []AcceptedProofHasHeight
<1>1. IInv => AcceptedProofHasHeight
  <2>. SUFFICES ASSUME IInv, answer = "Ok", leaf \in Leaf
                PROVE  VecLen(proof.siblings) = Height(leaves)
    BY DEF AcceptedProofHasHeight, Accepted
  <2>1. /\ Verifies(proof, leaf, MerkleRoot(leaves)) /\ leaves # <<>>
        /\ leaves \in Vectors
    BY DEF IInv, ShapeInv, AnswerInv, Delivered
  <2>2. VecLen(leaves) \in Nat \ {0} /\ DOMAIN leaves = 0 .. VecLen(leaves) - 1
    BY <2>1, VectorShape
  <2>3. \A i \in 0 .. VecLen(leaves) - 1 : NoPair(leaves[i])
    <3>1. \A i \in DOMAIN leaves : leaves[i] \in Leaf
      BY <2>1 DEF Vectors
    <3>. QED BY <2>2, <3>1
  <2>4. VecLen(proof.siblings) \in Nat
    BY VecLenOfDomain DEF IInv, ShapeInv
  <2>. QED BY <2>1, <2>2, <2>3, <2>4, AcceptedHeight
<1>. QED BY <1>1, DeliveryInvariance, PTL

(***************************************************************************)
(* With a hash that never collides, and leaves that are no hashes of       *)
(* pairs: whatever the prover anchored, another vector has the same root   *)
(* exactly when the two unfold to one full tree, and no other vector of    *)
(* its length has it.                                                      *)
(***************************************************************************)
THEOREM RootsBindTheirLeaves ==
  ASSUME CollisionFree, \A h \in Leaf : NoPair(h)
  PROVE  Spec => []RootBindsLeaves
<1>1. IInv => RootBindsLeaves
  <2>. SUFFICES ASSUME IInv, leaves # <<>>, NEW other \in Vectors \ {<<>>}
                PROVE  /\ MerkleRoot(leaves) = MerkleRoot(other)
                            <=> Unfolded(leaves) = Unfolded(other)
                       /\ VecLen(leaves) = VecLen(other)
                            /\ MerkleRoot(leaves) = MerkleRoot(other)
                            => leaves = other
    BY DEF RootBindsLeaves
  <2>. DEFINE n == VecLen(leaves)
              m == VecLen(other)
  <2>1. /\ n \in Nat \ {0} /\ DOMAIN leaves = 0 .. n - 1
        /\ m \in Nat \ {0} /\ DOMAIN other = 0 .. m - 1
    BY VectorShape DEF IInv, ShapeInv
  <2>2. /\ leaves \in [0 .. n - 1 -> Leaf]
        /\ other \in [0 .. m - 1 -> Leaf]
    BY <2>1 DEF IInv, ShapeInv, Vectors
  <2>3. /\ \A i \in 0 .. n - 1 : NoPair(leaves[i])
        /\ \A i \in 0 .. m - 1 : NoPair(other[i])
    BY <2>2
  <2>. HIDE DEF n, m
  <2>4. MerkleRoot(leaves) = MerkleRoot(other) <=> Unfolded(leaves) = Unfolded(other)
    BY <2>1, <2>3, RootIsOfUnfolded
  <2>5. ASSUME n = m, MerkleRoot(leaves) = MerkleRoot(other) PROVE leaves = other
    <3>1. SameLeaves(leaves, n, other, m)
      BY <2>1, <2>3, <2>5, SameRootSameLeaves
    <3>2. \A i \in 0 .. n - 1 : leaves[i] = other[i]
      <4>. SUFFICES ASSUME NEW i \in 0 .. n - 1 PROVE leaves[i] = other[i]
        OBVIOUS
      <4>1. i < m
        BY <2>1, <2>5
      <4>. QED BY <3>1, <4>1 DEF SameLeaves
    <3>3. IsVec(leaves, n) /\ IsVec(other, n)
      BY <2>2, <2>5 DEF IsVec
    <3>4. n \in Nat
      BY <2>1
    <3>. QED BY <3>2, <3>3, <3>4, VecExtensional
  <2>. QED BY <2>4, <2>5 DEF n, m
<1>. QED BY <1>1, DeliveryInvariance, PTL
===============================================================================
