------------------------------ MODULE ProofStore ------------------------------
(***************************************************************************)
(* The proof store of crates/proofstore/src/lib.rs.  anchor proves one     *)
(* leaf of a tree, splits the proof at the predetermined level, stores the *)
(* shards under an index key, and publishes the labels of that level for   *)
(* the root.  A client queries a key, keeps a copy of the stored proof and *)
(* verifies it later, when the store may have moved on: from the shards    *)
(* alone, or from the lower shard and the labels.                          *)
(***************************************************************************)
EXTENDS Shards

CONSTANTS Key,        \* index keys
          Leaf,       \* leaf hashes of records
          Junk,       \* a hash that no tree contains
          Tree,       \* the leaf vectors callers anchor
          Client,     \* those who query the store
          MaxLevel    \* bound on the predetermined level

ASSUME TreeAssumption ==
  \A leaves \in Tree : VecLen(leaves) \in Nat /\ IsVec(leaves, VecLen(leaves))

ASSUME MaxLevelAssumption == MaxLevel \in Nat

ASSUME JunkAssumption ==
  \A leaves \in Tree \ {<<>>} : \A index \in DOMAIN leaves :
    \A j \in 0 .. Height(leaves) - 1 : SiblingsOf(leaves, index)[j] # Junk

VARIABLES predetermined_level,  \* k, fixed when the store is made
          storage,              \* HashMap<IndexKey, StoredProof>
          assistance_by_root,   \* HashMap<Hash, ProofAssistance>
          origin,               \* history: what each key was last anchored from
          held,                 \* the copy each client took of a stored proof,
                                \* and what the proof was anchored from
          answer                \* of the last anchor or query

store == <<predetermined_level, storage, assistance_by_root, origin>>

vars == <<predetermined_level, storage, assistance_by_root, origin, held, answer>>

\* HashMap::insert
Insert(map, k, v) ==
  [x \in DOMAIN map \cup {k} |-> IF x = k THEN v ELSE map[x]]

-------------------------------------------------------------------------------
(***************************************************************************)
(* The two verifications.  They only read, so each is its answer.          *)
(***************************************************************************)
\* Mutant: a proof without shards is trusted.
VerifyTrustingEmpty(leaf, stored) ==
  IF stored.shards = <<>> \/ Verifies(Reassemble(stored), leaf, stored.expected_root)
    THEN "Ok" ELSE "RootMismatch"

\* ProofStore::verify in Adversarial mode
Verify(leaf, stored) ==
  IF Verifies(Reassemble(stored), leaf, stored.expected_root)
    THEN "Ok" ELSE "RootMismatch"

\* Mutant: the walk takes every sibling of the shard that starts at level 0.
LevelUntruncated(stored, assistance) == VecLen(LowerSiblings(stored))

\* The level the walk over the lower siblings reaches.
LevelReached(stored, assistance) ==
  Least(assistance.predetermined_level, VecLen(LowerSiblings(stored)))

LowerProof(stored) ==
  [leaf_index |-> stored.leaf_index, siblings |-> LowerSiblings(stored)]

\* Mutants: the label is not compared; the last label is out of bounds.
LabelNotCompared(leaf, stored, assistance) ==
  LET k == LevelReached(stored, assistance)
  IN  Shifted(stored.leaf_index)[k] < VecLen(assistance.node_labels)

LabelMatchesNotLast(leaf, stored, assistance) ==
  LET k == LevelReached(stored, assistance)
      idx == Shifted(stored.leaf_index)[k]
  IN  /\ idx + 1 < VecLen(assistance.node_labels)
      /\ assistance.node_labels[idx] = Walk(LowerProof(stored), leaf)[k]

LabelMatches(leaf, stored, assistance) ==
  LET k == LevelReached(stored, assistance)
      idx == Shifted(stored.leaf_index)[k]
  IN  /\ idx < VecLen(assistance.node_labels)
      /\ assistance.node_labels[idx] = Walk(LowerProof(stored), leaf)[k]

\* Mutant: the stored shards have to lead to the root as well.
VerifyBothPaths(leaf, stored) ==
  IF stored.expected_root \notin DOMAIN assistance_by_root THEN "KeyNotFound"
  ELSE LET assistance == assistance_by_root[stored.expected_root] IN
       IF /\ LabelMatches(leaf, stored, assistance)
          /\ MerkleRoot(assistance.node_labels) = stored.expected_root
          /\ Verify(leaf, stored) = "Ok"
         THEN "Ok" ELSE "AssistanceMismatch"

VerifyWithAssistance(leaf, stored) ==
  IF stored.expected_root \notin DOMAIN assistance_by_root THEN "KeyNotFound"
  ELSE LET assistance == assistance_by_root[stored.expected_root] IN
       IF /\ LabelMatches(leaf, stored, assistance)
          /\ MerkleRoot(assistance.node_labels) = stored.expected_root
         THEN "Ok" ELSE "AssistanceMismatch"

-------------------------------------------------------------------------------
Init ==
  /\ predetermined_level \in 0 .. MaxLevel
  /\ storage = <<>>
  /\ assistance_by_root = <<>>
  /\ origin = <<>>
  /\ held = <<>>
  /\ answer = "none"

\* The question marks of anchor return before anything is stored.
AnchorFails(leaves, index) ==
  /\ \/ leaves = <<>> /\ answer' = "EmptyTree"
     \/ leaves # <<>> /\ ~ InRange(leaves, index) /\ answer' = "IndexOutOfRange"
  /\ UNCHANGED <<store, held>>

\* Mutant: a tree of one leaf publishes no labels.
PublishDeepLabels(root, leaves) ==
  assistance_by_root' =
    IF Height(leaves) = 0 THEN assistance_by_root
    ELSE Insert(assistance_by_root, root, Assistance(leaves, predetermined_level))

PublishLabels(root, leaves) ==
  assistance_by_root' =
    Insert(assistance_by_root, root, Assistance(leaves, predetermined_level))

Anchor(key, leaves, index) ==
  /\ leaves # <<>>
  /\ InRange(leaves, index)
  /\ LET root == MerkleRoot(leaves)
         proof == MerkleProof(leaves, index)
     IN  /\ storage' = Insert(storage, key,
              [key |-> key, leaf_index |-> index,
               shards |-> ShardProof(proof.siblings, predetermined_level),
               expected_root |-> root])
         /\ PublishLabels(root, leaves)
  /\ origin' = Insert(origin, key, [leaves |-> leaves, index |-> index])
  /\ answer' = "Ok"
  /\ UNCHANGED <<predetermined_level, held>>

\* A client takes a copy: it holds no borrow of the store afterwards.
Query(client, key) ==
  /\ key \in DOMAIN storage
  /\ held' = Insert(held, client, [proof |-> storage[key], from |-> origin[key],
                                   altered |-> FALSE])
  /\ answer' = "Ok"
  /\ UNCHANGED store

QueryUnknown(key) ==
  /\ key \notin DOMAIN storage
  /\ answer' = "KeyNotFound"
  /\ UNCHANGED <<store, held>>

\* A sibling of the copy changes on its way (test verify_rejects_tampered_shard).
TamperShard(client, n, j) ==
  /\ ~ held[client].altered
  /\ held' = [held EXCEPT ![client].proof.shards[n].siblings[j] = Junk,
                          ![client].altered = TRUE]
  /\ UNCHANGED <<store, answer>>

Next ==
  \/ \E leaves \in Tree : \E index \in 0 .. VecLen(leaves) :
       \/ AnchorFails(leaves, index)
       \/ \E key \in Key : Anchor(key, leaves, index)
  \/ \E key \in Key : \/ QueryUnknown(key)
                      \/ \E client \in Client : Query(client, key)
  \/ \E client \in DOMAIN held :
       \E n \in DOMAIN held[client].proof.shards :
         \E j \in DOMAIN held[client].proof.shards[n].siblings :
           TamperShard(client, n, j)

Spec == Init /\ [][Next]_vars

-------------------------------------------------------------------------------
(***************************************************************************)
(* Properties of the store.                                                *)
(***************************************************************************)
OwnLeaf(copy) == copy.from.leaves[copy.from.index]

\* The two maps of the store and the histories kept beside them have the keys
\* of one another, and what they hold has its type.
TypeOK ==
  /\ predetermined_level \in 0 .. MaxLevel
  /\ DOMAIN storage \subseteq Key
  /\ DOMAIN origin = DOMAIN storage
  /\ \A key \in DOMAIN storage :
       /\ DOMAIN storage[key] = {"key", "leaf_index", "shards", "expected_root"}
       /\ storage[key].key = key
       /\ origin[key].leaves \in Tree \ {<<>>}
       /\ origin[key].index \in DOMAIN origin[key].leaves
  /\ DOMAIN held \subseteq Client
  /\ \A client \in DOMAIN held :
       /\ held[client].from.leaves \in Tree \ {<<>>}
       /\ held[client].from.index \in DOMAIN held[client].from.leaves
       /\ held[client].altered \in BOOLEAN
  /\ answer \in {"none", "Ok", "EmptyTree", "IndexOutOfRange", "KeyNotFound"}

\* What is stored under a key is the proof of the leaf it was last anchored
\* for: the shards start at the leaf, abut, are not empty and end at the
\* root, and concatenating them gives the proof back (doc of StoredProof;
\* test shards_are_non_overlapping_and_cover_the_full_proof).
Abut(shards, depth) ==
  /\ shards = <<>> <=> depth = 0
  /\ shards # <<>> => /\ shards[1].from_level = 0
                      /\ shards[Len(shards)].to_level = depth
  /\ \A n \in DOMAIN shards :
       /\ shards[n].from_level < shards[n].to_level
       /\ VecLen(shards[n].siblings) = shards[n].to_level - shards[n].from_level
       /\ n > 1 => shards[n].from_level = shards[n - 1].to_level

ShardsCoverProof ==
  \A key \in DOMAIN storage :
    LET stored == storage[key] IN
    /\ stored.expected_root = MerkleRoot(origin[key].leaves)
    /\ Abut(stored.shards, Height(origin[key].leaves))
    /\ Reassemble(stored) = MerkleProof(origin[key].leaves, origin[key].index)

\* A copy keeps verifying the leaf it was anchored for, whatever is anchored
\* afterwards, under its key or for its root.
HeldCopyVerifies ==
  \A client \in DOMAIN held :
    LET copy == held[client] IN
    ~ copy.altered => Verify(OwnLeaf(copy), copy.proof) = "Ok"

\* A copy accepts a leaf only when it is the leaf it was anchored for and no
\* sibling changed, or the walk exhibits a collision.
AcceptedCopyIsGenuine ==
  \A client \in DOMAIN held : \A leaf \in Leaf \cup {Junk} :
    LET copy == held[client] IN
    Verify(leaf, copy.proof) = "Ok" =>
      \/ leaf = OwnLeaf(copy) /\ ~ copy.altered
      \/ Collides(copy.from.leaves, Reassemble(copy.proof), leaf)

\* The published labels of a root hash up to it, and every root a stored or
\* held proof must reconstruct to has labels, so that verify_with_assistance
\* never answers KeyNotFound for a proof of this store.
LabelsHashToRoot ==
  \A root \in DOMAIN assistance_by_root :
    MerkleRoot(assistance_by_root[root].node_labels) = root

LabelsPublished ==
  /\ \A key \in DOMAIN storage :
       storage[key].expected_root \in DOMAIN assistance_by_root
  /\ \A client \in DOMAIN held :
       held[client].proof.expected_root \in DOMAIN assistance_by_root

\* When verify_with_assistance accepts, the lower siblings and the path of
\* the matching label through the tree of the labels are together a proof
\* that verifies the leaf against the root: a chain of hashes from the leaf
\* to the anchored root (docs/AUDIT.md, property 2).
CompletedProof(stored, assistance) ==
  LET k == LevelReached(stored, assistance)
      idx == Shifted(stored.leaf_index)[k]
  IN  [leaf_index |-> stored.leaf_index,
       siblings |-> Extend([j \in 0 .. k - 1 |-> LowerSiblings(stored)[j]],
                           SiblingsOf(assistance.node_labels, idx))]

AssistanceCompletes ==
  \A client \in DOMAIN held : \A leaf \in Leaf \cup {Junk} :
    LET stored == held[client].proof IN
    VerifyWithAssistance(leaf, stored) = "Ok" =>
      Verifies(CompletedProof(stored, assistance_by_root[stored.expected_root]),
               leaf, stored.expected_root)

\* Where a copy is cut: the level at which its lower siblings meet the labels.
CutLevel(copy) == Least(predetermined_level, Height(copy.from.leaves))

GenuineSiblings(copy) == MerkleProof(copy.from.leaves, copy.from.index).siblings

LowerIntact(copy) ==
  \A j \in 0 .. CutLevel(copy) - 1 :
    Reassemble(copy.proof).siblings[j] = GenuineSiblings(copy)[j]

WithinLabels(copy) ==
  Shifted(copy.from.index)[CutLevel(copy)]
    < VecLen(assistance_by_root[copy.proof.expected_root].node_labels)

\* The copy as it was stored, nothing of it changed.
Genuine(copy) ==
  [copy.proof EXCEPT !.shards = ShardProof(GenuineSiblings(copy), predetermined_level)]

\* The labels stand in for everything above them: what decides on a leaf is
\* the leaf, the siblings below the labels and that the labels reach as far
\* as its position, so that a copy changed only above the labels is answered,
\* for every leaf, as the genuine one is ("never trusting the proofstore for
\* the upper path"), also when the predetermined level is 0 and the only
\* shard starts at the leaf.
UpperShardNotTrusted ==
  \A client \in DOMAIN held : \A leaf \in Leaf \cup {Junk} :
    LET copy == held[client]
        answered == VerifyWithAssistance(leaf, copy.proof)
    IN  /\ answered = "Ok" <=>
             leaf = OwnLeaf(copy) /\ LowerIntact(copy) /\ WithinLabels(copy)
        /\ LowerIntact(copy) => answered = VerifyWithAssistance(leaf, Genuine(copy))

\* A genuine copy is refused with the labels only after the labels of its
\* root were replaced by those of a shorter vector with the same root (one
\* whose last nodes are repeated), too few for its index.
RefusedOnlyWhenReplaced ==
  \A client \in DOMAIN held :
    LET copy == held[client] IN
    ~ copy.altered /\ VerifyWithAssistance(OwnLeaf(copy), copy.proof) # "Ok" =>
      \E leaves \in Tree \ {<<>>} :
        /\ MerkleRoot(leaves) = copy.proof.expected_root
        /\ VecLen(leaves) < VecLen(copy.from.leaves)
        /\ assistance_by_root[copy.proof.expected_root]
             = Assistance(leaves, predetermined_level)

\* The doc of verify_with_assistance says that it "lets a verifier complete
\* verification using only the lower shard and the public on-chain data": a
\* genuine copy is accepted.
AssistanceAcceptsGenuine ==
  \A client \in DOMAIN held :
    LET copy == held[client] IN
    ~ copy.altered => VerifyWithAssistance(OwnLeaf(copy), copy.proof) = "Ok"
===============================================================================
