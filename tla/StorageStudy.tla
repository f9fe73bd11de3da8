----------------------------- MODULE StorageStudy -----------------------------
(***************************************************************************)
(* The storage study of crates/simstore/src/main.rs.  It anchors a sample  *)
(* of a tree into one proof store, counts the bytes the store holds in     *)
(* three ways, verifies every sampled proof both ways, and writes a vector *)
(* that vaa reproduce reads.                                               *)
(***************************************************************************)
EXTENDS Study

CONSTANTS Tree,            \* populations: vectors of different leaves
          MaxLevel,        \* bound on the level given on the command line
          HASH_BYTES, USIZE_BYTES

\* synth_leaves draws 32 bytes for every leaf, no two the same.
ASSUME PopulationAssumption ==
  \A v \in Tree :
    /\ VecLen(v) \in Nat
    /\ DOMAIN v = 0 .. VecLen(v) - 1
    /\ \A i, j \in DOMAIN v : v[i] = v[j] => i = j

ASSUME SizesAreNatural == MaxLevel \in Nat /\ HASH_BYTES \in Nat

VARIABLE report  \* the byte counts, when they are there

storage_vars == <<leaves, indices, todo, store, report, status>>

\* Mutant: one too many for a power of two.
ceil_log2_inclusive(n) == IF n <= 1 THEN 0 ELSE ilog2(n) + 1

ceil_log2(n) == IF n <= 1 THEN 0 ELSE ilog2(n - 1) + 1

tree_depth == ceil_log2(VecLen(leaves))

\* A population whose baseline were no word would not fit into memory.
ASSUME BytesFit ==
  /\ WordMax \in Nat
  /\ \A v \in Tree : VecLen(v) * ceil_log2(VecLen(v)) * HASH_BYTES <= WordMax

-------------------------------------------------------------------------------
(***************************************************************************)
(* Byte counts.                                                            *)
(***************************************************************************)
Bytes(siblings) == VecLen(siblings) * HASH_BYTES

\* Mutant: the level itself counts as lower.
IsLowerInclusive(shard) == shard.from_level <= predetermined_level

IsLower(shard) == shard.from_level < predetermined_level

ShardBytes(p) ==
  SumFunction([n \in DOMAIN p.shards |-> Bytes(p.shards[n].siblings)])

LowerBytes(p) ==
  LET lower == {n \in DOMAIN p.shards : IsLower(p.shards[n])} IN
  SumFunction([n \in lower |-> Bytes(p.shards[n].siblings)])

UpperSiblings(p) ==
  {p.shards[n].siblings : n \in {u \in DOMAIN p.shards : ~ IsLower(p.shards[u])}}

\* Mutant: upper shards are shared by their level, not by content.
UniqueUpperByLevel ==
  IF indices = {} THEN {} ELSE UpperSiblings(Stored(Min(indices)))

UniqueUpper == UNION {UpperSiblings(Stored(i)) : i \in indices}

MeasureStoreBytes(assistance_bytes) ==
  LET lower_bytes == SumFunction([i \in indices |-> LowerBytes(Stored(i))])
      upper_bytes == SumFunction([siblings \in UniqueUpper |-> Bytes(siblings)])
  IN  [no_dedup |-> SumFunction([i \in indices |-> ShardBytes(Stored(i))])
                      + assistance_bytes,
       upper_dedup |-> lower_bytes + upper_bytes + assistance_bytes,
       minimum_viable |-> lower_bytes + assistance_bytes]

Report ==
  LET rep == Stored(Min(indices))
      labels == assistance_by_root[rep.expected_root].node_labels
  IN  [baseline_formula |-> Cardinality(indices) * tree_depth * HASH_BYTES,
       baseline_realised |-> SumFunction([i \in indices |-> ShardBytes(Stored(i))]),
       held |-> MeasureStoreBytes(Bytes(labels)),
       retrieval_adversarial |-> ShardBytes(rep) + USIZE_BYTES,
       retrieval_assisted |-> LowerBytes(rep) + USIZE_BYTES]

\* The file of --vector-out, as far as it is read again.
StorageVectorOut ==
  [n_leaves |-> Some(VecLen(leaves)),
   q_queries |-> Some(Cardinality(indices)),
   tree_depth |-> Some(tree_depth),
   baseline_bytes_formula |-> Some(report.baseline_formula),
   minimum_viable_bytes |-> Some(report.held.minimum_viable)]

-------------------------------------------------------------------------------
(***************************************************************************)
(* main                                                                    *)
(***************************************************************************)
\* The level is the option -k or, without it, half the height.
StorageInit ==
  /\ leaves \in Tree
  /\ indices \in SUBSET DOMAIN leaves
  /\ todo = indices
  /\ predetermined_level \in 0 .. MaxLevel \cup {tree_depth \div 2}
  /\ storage = <<>>
  /\ assistance_by_root = <<>>
  /\ report = <<>>
  /\ status = "anchoring"

RejectEmpty ==
  /\ status = "anchoring"
  /\ leaves = <<>>
  /\ status' = "rejected"
  /\ UNCHANGED <<leaves, indices, todo, store, report>>

AnchorIndex ==
  /\ status = "anchoring"
  /\ todo # {}
  /\ UNCHANGED <<leaves, indices, report, status>>
  /\ todo' = todo \ {Min(todo)}
  /\ LET i == Min(todo) IN Store!Anchor(key_for(i, leaves[i]), leaves, i)

\* The first stored proof is indexed although there may be none.
Measure ==
  /\ status = "anchoring"
  /\ leaves # <<>>
  /\ todo = {}
  /\ IF indices = {} THEN /\ status' = "panicked"
                          /\ UNCHANGED report
     ELSE /\ status' = "measured"
          /\ report' = Report
  /\ UNCHANGED <<leaves, indices, todo, store>>

VerifyAll ==
  /\ status = "measured"
  /\ status' =
       IF \A i \in indices :
            /\ Store!Verify(leaves[i], Stored(i)) = "Ok"
            /\ Store!VerifyWithAssistance(leaves[i], Stored(i)) = "Ok"
         THEN "done" ELSE "failed"
  /\ UNCHANGED <<leaves, indices, todo, store, report>>

StorageNext == RejectEmpty \/ AnchorIndex \/ Measure \/ VerifyAll

StorageSpec == StorageInit /\ [][StorageNext]_storage_vars

-------------------------------------------------------------------------------
(***************************************************************************)
(* Properties.                                                             *)
(***************************************************************************)
\* Every position keeps a proof of its own, although positions beyond 32 bits
\* share one block_position: the leaf in the key keeps them apart.
KeysApart ==
  \A i \in indices \ todo :
    /\ key_for(i, leaves[i]) \in DOMAIN storage
    /\ Stored(i).leaf_index = i

\* The baseline of the formula, by a logarithm, is the number of siblings the
\* loops of merkle_proof and shard_proof put into the store.
BaselinesAgree ==
  report # <<>> => report.baseline_formula = report.baseline_realised

\* Sharing upper shards by content shares them exactly between positions below
\* one node of the predetermined level, as the comment on upper_dedup has it:
\* no two subtrees have one list of siblings by accident of the padding.
DedupCountsSubtrees ==
  report # <<>> =>
    LET k == Least(predetermined_level, tree_depth)
        subtrees == {Shifted(i)[k] : i \in indices}
    IN  report.held.upper_dedup - report.held.minimum_viable
          = Cardinality(subtrees) * (tree_depth - k) * HASH_BYTES

\* The minimum that is called viable is: without the upper shards every sampled
\* leaf still verifies by the labels; without the labels none does, unless
\* there was no upper shard.
LowerOnly(stored) ==
  LET lower == {n \in DOMAIN stored.shards : IsLower(stored.shards[n])} IN
  [stored EXCEPT !.shards = [n \in lower |-> stored.shards[n]]]

MinimumViableSuffices ==
  report # <<>> =>
    \A i \in indices :
      /\ Store!VerifyWithAssistance(leaves[i], LowerOnly(Stored(i))) = "Ok"
      /\ Store!Verify(leaves[i], LowerOnly(Stored(i))) = "Ok"
           <=> UpperSiblings(Stored(i)) = {}

\* A vector the study has written is one vaa reproduce accepts, exactly when the
\* labels of the level are no more than the upper siblings they replace: the
\* study writes vectors that are then refused (one query, level 0), and not by
\* any fault of a file.
StorageVectorReproduces ==
  status = "done" =>
    LET n == VecLen(leaves)
        k == Least(predetermined_level, tree_depth)
        label_count == Shifted(n - 1)[k] + 1
    IN  StorageMatches(StorageVectorOut)
          <=> label_count <= Cardinality(indices) * (tree_depth - k)

\* Whatever the tree, the level and the sample, no proof the study stored fails to
\* verify, either way, and only a sample of nothing (-q 0) stops the study with
\* a panic.
StorageStudyPasses ==
  /\ status # "failed"
  /\ status = "panicked" => indices = {}
===============================================================================
