--------------------------------- MODULE Study ---------------------------------
(***************************************************************************)
(* What the programs of crates/simstore and crates/simstudy have in        *)
(* common: each anchors a sample of one vector of leaves into one proof    *)
(* store, under the keys that key_for makes.                               *)
(***************************************************************************)
EXTENDS Shards, FiniteSetsExt, VectorChecks

CONSTANTS Junk,    \* a hash of nothing
          U32Max   \* u32::MAX

VARIABLES leaves,               \* the vector
          indices,              \* the sample
          todo,                 \* the part of it that is not anchored yet
          predetermined_level,  \* of the store, like the next two
          storage,
          assistance_by_root,
          status

store == <<predetermined_level, storage, assistance_by_root>>

\* The history of the store follows from the study, which anchors one tree.
Store ==
  INSTANCE ProofStore WITH
    Key <- {}, Client <- {}, held <- <<>>, answer <- "Ok", Leaf <- {}, Tree <- {},
    MaxLevel <- 0,
    origin <- [key \in DOMAIN storage |->
                 [leaves |-> leaves, index |-> storage[key].leaf_index]]

\* usize::ilog2: the shift that leaves the highest bit.
ilog2(n) == CHOOSE e \in 0 .. n : Shifted(n)[e] = 1

\* Mutant: the key has no txid.
key_for_position(index, leaf) == [block_position |-> Least(index, U32Max)]

\* The other fields of the key are the same for all.
key_for(index, leaf) ==
  [txid |-> leaf, block_position |-> Least(index, U32Max)]

Stored(i) == storage[key_for(i, leaves[i])]
===============================================================================
