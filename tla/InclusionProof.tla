---------------------------- MODULE InclusionProof ----------------------------
(***************************************************************************)
(* One inclusion proof on its way from the prover (merkle_proof) to the    *)
(* verifier (MerkleProof::verify).  In between the proof may suffer the    *)
(* faults that the tests of crates/merkle and the fault injection of       *)
(* crates/simstudy apply one at a time; here several may come together.    *)
(* The verifier knows the anchored root, and not the leaves.               *)
(***************************************************************************)
EXTENDS MerkleTree

CONSTANTS Leaf,       \* leaf hashes of records
          Junk,       \* a hash that no tree contains
          MaxLeaves,  \* bound on the number of leaves
          MaxIndex,   \* bound on a claimed index
          MaxFaults   \* bound on the faults of one delivery

ASSUME BoundsAssumption ==
  MaxLeaves \in Nat /\ MaxIndex \in Nat /\ MaxFaults \in Nat

VARIABLES leaves,     \* what the prover anchored
          leaf,       \* the leaf delivered to the verifier
          proof,      \* the proof delivered to the verifier
          faults,     \* faults suffered so far
          answer      \* the last answer: of merkle_proof, then of verify

vars == <<leaves, leaf, proof, faults, answer>>

Vectors == UNION {[0 .. n - 1 -> Leaf] : n \in 0 .. MaxLeaves}

NoProof == [leaf_index |-> 0, siblings |-> <<>>]

Init ==
  /\ leaves \in Vectors
  /\ leaf = Junk
  /\ proof = NoProof
  /\ faults = 0
  /\ answer = "none"

ProveEmpty ==
  /\ answer = "none"
  /\ leaves = <<>>
  /\ answer' = "EmptyTree"
  /\ UNCHANGED <<leaves, leaf, proof, faults>>

ProveOutOfRange(index) ==
  /\ answer = "none"
  /\ leaves # <<>>
  /\ ~ InRange(leaves, index)
  /\ answer' = "IndexOutOfRange"
  /\ UNCHANGED <<leaves, leaf, proof, faults>>

Prove(index) ==
  /\ answer = "none"
  /\ leaves # <<>>
  /\ InRange(leaves, index)
  /\ proof' = MerkleProof(leaves, index)
  /\ leaf' = leaves[index]
  /\ answer' = "proved"
  /\ UNCHANGED <<leaves, faults>>

-------------------------------------------------------------------------------
(***************************************************************************)
(* Faults.  A hash that changes becomes any hash in sight.                 *)
(***************************************************************************)
InSight ==
  {Junk} \cup Leaf \cup
  UNION {{Levels(leaves)[j][i] : i \in DOMAIN Levels(leaves)[j]} :
           j \in 0 .. Height(leaves)}

Fault ==
  /\ answer = "proved"
  /\ faults < MaxFaults
  /\ faults' = faults + 1
  /\ UNCHANGED <<leaves, answer>>

WrongLeaf ==
  /\ Fault
  /\ leaf' \in InSight \ {leaf}
  /\ UNCHANGED proof

WrongIndex ==
  /\ Fault
  /\ \E i \in (0 .. MaxIndex) \ {proof.leaf_index} :
       proof' = [proof EXCEPT !.leaf_index = i]
  /\ UNCHANGED leaf

TamperedSibling ==
  /\ Fault
  /\ \E j \in DOMAIN proof.siblings : \E h \in InSight \ {proof.siblings[j]} :
       proof' = [proof EXCEPT !.siblings[j] = h]
  /\ UNCHANGED leaf

TruncatedProof ==
  /\ Fault
  /\ LET d == VecLen(proof.siblings) IN
       /\ d > 0
       /\ proof' = [proof EXCEPT !.siblings = [j \in 0 .. d - 2 |-> @[j]]]
  /\ UNCHANGED leaf

ExtraSibling ==
  /\ Fault
  /\ LET d == VecLen(proof.siblings) IN
       \E h \in InSight :
         proof' = [proof EXCEPT !.siblings =
                     [j \in 0 .. d |-> IF j < d THEN @[j] ELSE h]]
  /\ UNCHANGED leaf

Verify ==
  /\ answer = "proved"
  /\ answer' = IF Verifies(proof, leaf, MerkleRoot(leaves))
                 THEN "Ok" ELSE "RootMismatch"
  /\ UNCHANGED <<leaves, leaf, proof, faults>>

Next ==
  \/ ProveEmpty
  \/ \E index \in 0 .. MaxIndex : ProveOutOfRange(index) \/ Prove(index)
  \/ WrongLeaf
  \/ WrongIndex
  \/ TamperedSibling
  \/ TruncatedProof
  \/ ExtraSibling
  \/ Verify

Spec == Init /\ [][Next]_vars

-------------------------------------------------------------------------------
(***************************************************************************)
(* Properties.                                                             *)
(***************************************************************************)
Accepted == answer = "Ok"

\* A proof delivered as the prover made it is accepted: merkle_proof and
\* reconstruct_root agree on the order of every pair, with any duplication
\* of last nodes (doc of merkle_proof: "is always Ok(())").
HonestProofAccepted == answer = "RootMismatch" => faults > 0

\* Whatever faults a proof of the tree's height suffered, when the verifier
\* accepts it for a position of the tree it is the proof of the leaf at that
\* position, or its walk exhibits a collision of the hash.
AcceptedProofIsGenuine ==
  Accepted /\ InRange(leaves, proof.leaf_index)
           /\ VecLen(proof.siblings) = Height(leaves)
    => \/ /\ leaf = leaves[proof.leaf_index]
          /\ proof = MerkleProof(leaves, proof.leaf_index)
       \/ Collides(leaves, proof, leaf)

\* With a hash that never collides, an accepted proof about a leaf (and not
\* about an inner node) has the height of the tree: no truncated and no
\* extended proof passes (tests truncated_proof_fails_verification and
\* extra_sibling_in_proof_fails_verification).
AcceptedProofHasHeight ==
  Accepted /\ leaf \in Leaf => VecLen(proof.siblings) = Height(leaves)

\* A root binds the leaves up to the repetition of last nodes: two vectors
\* have one root exactly when they unfold to one full tree, so that vectors
\* of one length that differ in a leaf never share a root (test
\* root_changes_when_any_leaf_changes).
RootBindsLeaves ==
  answer = "none" /\ leaves # <<>> =>
    \A other \in Vectors \ {<<>>} :
      LET same_root == MerkleRoot(leaves) = MerkleRoot(other) IN
      /\ same_root <=> Unfolded(leaves) = Unfolded(other)
      /\ VecLen(leaves) = VecLen(other) /\ same_root => leaves = other

\* The comment of the test maximum_leaf_index_does_not_panic_in_verifier says
\* that an oversized index "must fail with RootMismatch": an accepted proof
\* names a position of the tree.  The code looks at one bit of the index for
\* each sibling, and not at the rest.
OversizedIndexRejected ==
  Accepted => InRange(leaves, proof.leaf_index)
===============================================================================
