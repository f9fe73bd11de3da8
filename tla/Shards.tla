-------------------------------- MODULE Shards --------------------------------
(***************************************************************************)
(* The values of crates/proofstore/src/lib.rs, apart from the store that   *)
(* keeps them: a proof split at the predetermined level, put together      *)
(* again, its lower part, and the labels of the level.                     *)
(***************************************************************************)
EXTENDS MerkleTree, Sequences

Least(i, j) == IF i < j THEN i ELSE j

Shard(siblings, from, to) ==
  [from_level |-> from, to_level |-> to,
   siblings |-> [j \in 0 .. to - from - 1 |-> siblings[from + j]]]

\* Mutant: the upper shard starts one level too high.
ShardProofWithGap(siblings, level) ==
  LET depth == VecLen(siblings)
      k == Least(level, depth)
      lower == IF k > 0 THEN <<Shard(siblings, 0, k)>> ELSE <<>>
      upper == IF k < depth THEN <<Shard(siblings, k + 1, depth)>> ELSE <<>>
  IN  lower \o upper

\* shard_proof: empty shards are omitted.
ShardProof(siblings, level) ==
  LET depth == VecLen(siblings)
      k == Least(level, depth)
      lower == IF k > 0 THEN <<Shard(siblings, 0, k)>> ELSE <<>>
      upper == IF k < depth THEN <<Shard(siblings, k, depth)>> ELSE <<>>
  IN  lower \o upper

\* Vec::extend_from_slice
Extend(v, w) ==
  LET n == VecLen(v) IN
  [j \in 0 .. n + VecLen(w) - 1 |-> IF j < n THEN v[j] ELSE w[j - n]]

\* Mutant: the shards are put together from the root down.
ConcatenationsDown(shards) ==
  LET siblings[n \in Nat] ==
        IF n = 0 THEN <<>> ELSE Extend(shards[n].siblings, siblings[n - 1])
  IN  siblings

Concatenations(shards) ==
  LET siblings[n \in Nat] ==
        IF n = 0 THEN <<>> ELSE Extend(siblings[n - 1], shards[n].siblings)
  IN  siblings

Concatenated(shards) == Concatenations(shards)[Len(shards)]

Reassemble(stored) ==
  [leaf_index |-> stored.leaf_index, siblings |-> Concatenated(stored.shards)]

\* The first shard whose from_level is 0: the lower shard, or the upper one
\* when the predetermined level is 0.
LowerSiblings(stored) ==
  LET Starts(n) == stored.shards[n].from_level = 0 IN
  IF \E n \in DOMAIN stored.shards : Starts(n)
    THEN stored.shards[CHOOSE n \in DOMAIN stored.shards :
                         Starts(n) /\ \A m \in 1 .. n - 1 : ~ Starts(m)].siblings
    ELSE <<>>

\* Mutant: the loop does not stop at the root.
AssistancePastRoot(leaves, level) ==
  [predetermined_level |-> level, node_labels |-> Levels(leaves)[level]]

\* compute_proof_assistance: the labels stop at the root of a shallow tree.
Assistance(leaves, level) ==
  LET k == Least(level, Height(leaves)) IN
  [predetermined_level |-> k, node_labels |-> Levels(leaves)[k]]
===============================================================================
