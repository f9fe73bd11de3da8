# Verifiable accounting in TLA+

A formal model of the Merkle proofs, the proof store, the audit verifier, the
accounting equations, the command line, the bridge script and the two studies of
this repository, checked with TLC on small instances and proved with TLAPS for every
instance. Paths are relative to the repository, `src/` being its root.

## 1. The system

The program proves that a disclosed accounting record was among those anchored
in a Merkle root, and that a set of disclosed records satisfies an accounting
equation. It is a set of sequential Rust crates: no thread, no asynchronous
call, no lock, no persistence but the files the commands read and write. What is
hard about it is mostly not scheduling. It is the agreement of several loops
that each rebuild the same tree, odd levels, shards and levels at their limits,
maps that are overwritten while copies and evidence of what was there live on,
words that overflow, and files: they change between two commands, they are
rewritten in place by a study, which may be killed half way, while another
command reads them, and a script may take them from a server that says anything.

| part | state it keeps | operations | correct when |
|---|---|---|---|
| `crates/bsv` | none | `double_sha256` | (external: a hash) |
| `crates/merkle` | none; a proof is a value that travels | `merkle_root`, `merkle_proof`, `reconstruct_root`, `verify` | an honest proof verifies; an accepted one is genuine or shows a collision; a root binds the leaves |
| `crates/proofstore` | `predetermined_level`, `storage`, `assistance_by_root` | `new`, `anchor`, `query`, `verify`, `verify_with_assistance` | shards cover the proof; labels hash to their root; both verifications amount to a chain of hashes from leaf to root |
| `crates/api` | borrows a store | `AuditVerifier::verify` | evidence exactly for records whose hash is the leaf the key was anchored for |
| `crates/accounting` | none | `verify` of five equations | the verdict is that of the documented equation over the integers |
| `crates/cli` | files | `anchor`, `prove`, `verify`, `query`, `selftest`, `reproduce` | the commands agree on the root of a batch; a bundle that changed is found out |
| `crates/simstore` | a population, a sample, a store | one study: anchor, count, verify | the counts count what they say; what was anchored verifies |
| `crates/simstudy` | a population, its summary, a store | one study: draw, check, anchor, inject faults | a clean population is accepted; each fault is detected |
| `examples/integration` | files of a fresh directory | `bridge.py`: `anchor-records`, `verify-bsv-block`, `from-settlement`, each a script of commands | a script that is told the truth succeeds; a settlement it calls included is in the block |
| `vectors` | four files, two of them written by the studies | read by `reproduce` | whatever is accepted was there and whole |
| `examples/realistic_quarter` | data | | (not modelled) |
| `legacy` | none | commitments and proofs over a curve, superseded | (not modelled) |

How they interact: `proofstore` calls `merkle` to build a proof, splits it, and
rebuilds it; `api` borrows a store for the length of one call and calls `query`
and `verify` on it; `cli` calls `merkle` directly for `anchor` and `prove`, and
`merkle` and then `api` over a store of one leaf for `verify`; `simstore` and
`simstudy` fill a store and measure it or feed it faults, and write the vectors
that `vaa reproduce` reads, with no study run in between; `bridge.py` writes
files, runs `vaa anchor`, `vaa prove` and `vaa verify` on them and compares the
outcome with a block explorer's header. Callers put roots on the chain; no code
here does, and no code here looks at the chain.

## 2. Modules

| module | models | checked by | proved in |
|---|---|---|---|
| `MerkleTree` | the functions of `crates/merkle` | through the others | `MerkleTreeProofs` |
| `InclusionProof` | one proof from prover to verifier, with faults on its way | `MCInclusionProof` | `InclusionProofs` |
| `Shards` | the values of `crates/proofstore`: a proof split, put together again, its lower part, the labels | through `ProofStore` and the studies | `MerkleTreeProofs`, `ProofStoreProofs` |
| `ProofStore` | the store and the clients that keep copies | `MCProofStore` | `ProofStoreProofs` |
| `Evidence` | the abstract promise to an auditor | as a property of `AuditApi` | |
| `AuditApi` | the audit verifier over a store callers keep anchoring into | `MCAuditApi` | `ProofStoreProofs` |
| `Accounting` | the five equations on words | itself | `AccountingProofs` |
| `CliWorkflow` | the commands over files, an accountant, an auditor, the chain | `MCCliWorkflow` | `SettlementBridgeProofs` |
| `DisplayHex` | hashes as texts | through `CliWorkflow`, `SelfChecks` | |
| `SettlementBridge` | `bridge.py` over the commands of `CliWorkflow` and a block explorer | `MCCliWorkflow` | `SettlementBridgeProofs` |
| `SelfChecks` | `vaa selftest` and `vaa reproduce` over files that change | `MCSelfChecks` | `SelfChecksProofs` |
| `VectorChecks` | what `vaa reproduce` asks of a study vector | through `SelfChecks` and the studies | |
| `Study` | what the two studies have in common: a sample of one tree in a store, an instance of `ProofStore` | through the studies | `StudyProofs` |
| `StorageStudy` | the storage study over `Study` | `MCStorageStudy` | `StudyProofs` |
| `PopulationStudy` | the population study over `Study` and an instance of `Accounting` | `MCPopulationStudy` | `StudyProofs` |
| `Iteration` | (lemmas) induction over numbers stated with sets, and the equations of a function defined by iteration | | itself |

**MerkleTree.** A vector is a function on `0 .. n-1`, so indices are the code's.
The three loops of the code that build levels (`merkle_root`, `merkle_proof`,
`compute_proof_assistance`) are one function `Levels(leaves)[j]`, the vector
after `j` rounds; they stop at `Height(leaves)`, the first level of one node.
`Walk(proof, leaf)[j]` is `current` after `j` siblings of `reconstruct_root`.
`Unfolded(leaves)` is the full tree a vector amounts to once its odd levels are padded:
what stands at the end of every path of sides, left or right, from the root down.
The hash of a pair, `HashPair`, is a constant operator of which nothing is
assumed. The runs give it a value, pairing, which never collides; properties that
need the absence of collisions are checked so and say so. The others are stated
as "or the walk exhibits a collision" (`Collides`), which is what a soundness
statement about a hash can say without assumptions, and are proved for every
hash, those with collisions included.

**InclusionProof.** `leaves` is what the prover has; `Prove`, `ProveEmpty` and
`ProveOutOfRange` are the outcomes of `merkle_proof`; `WrongLeaf`, `WrongIndex`,
`TamperedSibling`, `TruncatedProof`, `ExtraSibling` are the faults of the tests
and of `simstudy`, which here come together, up to `MaxFaults`; `Verify` is
`MerkleProof::verify` against the root.

**Shards** are the values of the same crate without the store: `ShardProof`
(`shard_proof`), `Reassemble`, `LowerSiblings`, and `Assistance`
(`compute_proof_assistance`). The command line and the studies use them too.

**ProofStore.** `storage` and `assistance_by_root` are the maps of the struct,
`predetermined_level` its first field, fixed by `Init` (`ProofStore::new`).
`Anchor` is the whole of `anchor`: both insertions happen or none, because
the errors that could stop it come before the first (`AnchorFails`), and the
error of `compute_proof_assistance` (an empty vector) cannot arise after them.
`Query` gives a client a copy, since a reference into the store cannot outlive the
next `anchor` and the tests clone; `TamperShard` changes one sibling of it. The two
verifications only read and are operators, evaluated by the invariants in every
state and for every leaf. `origin`, and the fields `from` and `altered` of a
copy, are history. `verify` in mode `TrustedOperational` always fails and has no
branch here; the error `Merkle(EmptyTree)` of `verify_with_assistance` cannot
arise, as labels are never empty (a consequence of `LabelsInv`, below).

**AuditApi** extends `ProofStore`. `CallerAnchors` is `anchor` seen by a caller;
`anchored` is a history of the trees it was called with. What callers do with
the roots, and the chain, are in `CliWorkflow`. `Audit` is `AuditVerifier::verify`: its four checks are the branches of
`Outcome`, in the order of the code. It is one step, since the verifier borrows
the store for the whole call.

**Evidence** knows no shards, no labels and no proofs: a key stands for one leaf of
one tree (`committed`), and an audit is granted exactly when the bundle is well
formed and its leaf is that one, or collides with it. `AuditApi` implements it with
`committed <- origin`.

**Accounting.** The five structs are records; `LeftSide` and `RightSide` are the
operands of the two chains of `checked_add` of each `verify`; `CheckedSum` is the
chain, with `Overflow` absorbing as the early return makes it. A word is
`0 .. WordMax`.

**CliWorkflow.** The files are variables: `records`, `leaves`, `bundle`. Each command
is one step, as it reads its files once. `EditRecords`, `AlterBundle`, and
`PutOnChain` are the environment; `WriteLeaves` is the conversion
`examples/integration/bridge.py` makes. The display form of a hash (reversed
hex, **DisplayHex**) is a text of its own kind, so that a forgotten reversal
shows. The code trims a text and takes capitals (`hex::decode`), and writes lower case:
a hash has the text that is written and another one (`Capitals`), which stands for every
other spelling; a text that is no hash at all is `Malformed`. A record is told apart by
its bytes, and is `Malformed` where they do not decode.
The store
that `vaa verify` and `vaa query` fill and drop is an instance of `AuditApi` whose
store variables are given by the command's arguments. The store of `vaa verify` holds
one leaf, so the evidence its audit yields is about the tree of that leaf alone; the
code drops it.

**SettlementBridge** extends `CliWorkflow` by the three subcommands of `bridge.py`.
Each runs in a directory of its own and only there, so it is one step and its files
are values; the commands it runs are the operators of `CliWorkflow`. What the
explorer says of a block, the list of transactions and the header's root, is any
member of `Reply`: texts in any spelling, or none of a hash. `from-settlement` looks the
transaction up as a text (`FirstIndex`), while the commands compare what the texts decode
to. The scripts read nothing the accountant wrote and change
nothing, so it is enough to run them before there is any such file (`Apart`); this keeps
the product of the two systems small.

**SelfChecks** has the two commands as loops: `SelftestStep` is one check of
`selftest`. `reproduce` tests for a file and opens it in two steps, between which the file
may change: `SkipMissing` passes over a file that is not there; `FindFile` is the test of
one that is, noted in `found`; and `CheckFile` reads it then, and fails if it is gone. `CheckPanics`
is what a build with overflow checks does when the product of two fields leaves a word; in
another the product wraps (`WordMax`). `vectors` are the four files as they are now. `Commit` is a
checkout, an edit or a deletion; `StudyStartsWriting`, `StudyWrites` and
`StudyKilled` are `fs::write` in a study, which truncates the file first (`Torn`).
A file is read in one step. Files that are no JSON are `Torn`, and a field that is
missing or of another type is an empty option. `seen` is a history of what was there, or was not, when a file was read or passed over. The store
of `selftest` is an instance of `ProofStore` with one entry, and both of its checks, that
the entry is found under the root of the vector and that it verifies, are made.

**VectorChecks** is what `reproduce` asks of the fields of the two study vectors. The
studies state with it that what they write (`VectorOut`) is accepted; with
`SelfChecks` it links the writers and the reader of these files.

**Study** is what `main` of `simstore` and `main` of `simstudy` have in common: the leaves,
the sample, the part of it that is still `todo`, and the store, an instance of `ProofStore`
whose histories are derived, as one tree is anchored throughout. `key_for` is the
same function in both: a key is the leaf and the clamped position, the other fields
being the same for all. `ilog2` is the shift that leaves the highest bit.

**StorageStudy** is `main` of `simstore`. The population, the sample and the level are
chosen by `StorageInit` (the sample is drawn, the level is an option or half the
height); `AnchorIndex` is one round of the anchoring loop; `Measure` computes the report
or, without a sample, panics as `stored[0]` does; `VerifyAll` is the loop that verifies
every sampled proof both ways. A sum over shards or over the sample is `SumFunction`. The
differences and ratios of the counts, the timings and the printing are left out.

**PopulationStudy** is `main` of `simstudy`. `Init` draws the records, kind by kind with
the rounded shares of the code, and the opening balance; the level is half the depth
of the population; `Generate` computes the
summary and `GeneratePanics` is the other outcome a subtraction below zero has,
in a build with overflow checks; `CheckClean` is the roll-forward check, by
totals and by the equation of `Accounting`; then the sample is anchored and checked
(`CheckSample`, the verification of every one), and `InjectFaults` injects the six faults and
the falsehood at origin. Only after that does `main` look at the counts: the sample
that came back for its own position (`Disclosed`), the false positives of each fault, which the code
computes by checking the clean population again, and what was missed. Ids are 32 bits
wide and values below 2^23, so no total leaves 64 bits (`TotalsFit`): the wrapping
additions never wrap in this program, and the model does not pretend they do.

## 3. Runs

| run | configuration | bounds | shows |
|---|---|---|---|
| inclusion | `MCInclusionProof.cfg` | vectors of 0 to 5 leaves over 2 hashes, claimed indices up to 8, 2 faults, pairing | which proofs are accepted; what a root binds |
| inclusion_index | `MCInclusionProofIndex.cfg` | | finding 1 |
| store | `MCProofStore.cfg` | 2 keys, 1 client, levels 0 to 3, trees of 0, 1, 3 and 4 leaves, the last two with one root, one tampered sibling | the store's properties, with overwriting |
| store_replaced | `MCProofStoreReplaced.cfg` | | finding 2 |
| audit | `MCAuditApi.cfg` | 2 keys, 3 records, trees of 1 and 3 leaves, levels 0 to 2 | refinement of `Evidence`; evidence stays true |
| accounting | `MCAccounting.cfg` | words of two bits, lists of up to 3 records | every statement of every equation |
| cli | `MCCliWorkflow.cfg` | batches of 1, 3 and 4 records, the last two with one root, indices 0 to 4 where 3 is the last that fits 32 bits, one alteration; a block of 3 transactions, an explorer that tells the truth, repeats the last one, swaps, drops or garbles some, lists none, repeats the last one in capitals, or has another header | the commands and the bridge together |
| cli_anchored | `MCCliWorkflowAnchored.cfg` | | finding 3 |
| selfchecks | `MCSelfChecks.cfg` | four files, each absent, as regenerated or wrong in two to four ways, 2 changes while commands run | what `selftest` and `reproduce` vouch for; that they end |
| reproduce_regenerates | `MCSelfChecksRegenerate.cfg` | 1 change | finding 4 |
| storage | `MCStorageStudy.cfg` | populations of 0 to 9 leaves, every sample, levels 0 to 5, positions capped at 2 | byte counts; both verifications; the vector written |
| population | `MCPopulationStudy.cfg` | 0, 1, 2, 3, 5 and 10 records, words up to 63, samples of 0, 1, 3 and all | totals, faults, the clean population, the vector written |

Why the bounds are enough. Five leaves give every shape that matters: height 0
(one leaf), a power of two (2, 4), an odd leaf level (3, 5), an odd inner level
(5 leaves, then 3, then 2 nodes), and a last node that repeats at two levels.
Indices up to 8 = 2^3 go one past the widest tree, so a claimed index with bits
above the height occurs at every height. Two faults allow a fault and one that
might compensate for it. Levels go from 0 past the height of every tree, so the
clamp of `shard_proof` and the early stop of `compute_proof_assistance` are both
taken. The trees `[a, b, c]` and `[a, b, c, c]` share a root, which is the only
way two `anchor` calls interfere through `assistance_by_root`. Nine leaves are a
tree of height four whose last node repeats at three levels, so lists of upper
siblings full of repeated nodes occur. Ten records are the least with a credit
note, and receipts exceed what is owed in some of those populations and in no
smaller one, as in the code, where nine records are the least. Two changes of files
let a file change before and after it is looked at, or two files, one on each
side of the reader; a third would be one more of these. The words of `selfchecks`
hold the sums of `selftest`, as those of the code do, and not the product of two fields of
one of its storage vectors, which wraps. The words of `storage` hold every baseline, as 64 bits do.
Of spellings, two are enough: texts are only compared for equality. Words of two bits
overflow as easily as they fit, in every position of a sum. `CHECK_DEADLOCK FALSE`
stands where the system stops: a proof that was judged, a statement that was
verified, a study that ended.

The symmetry in `MCProofStore.cfg` and `MCAuditApi.cfg` permutes the keys, which
are compared only for equality; the one temporal property there is a safety
property.

## 4. Properties

*InclusionProof*: `HonestProofAccepted`, `AcceptedProofIsGenuine`,
`AcceptedProofHasHeight`, `RootBindsLeaves` (two vectors have one root exactly
when they unfold to one full tree).

*ProofStore*: `TypeOK`, `ShardsCoverProof`, `HeldCopyVerifies`,
`AcceptedCopyIsGenuine`, `LabelsHashToRoot`, `LabelsPublished`,
`AssistanceCompletes` (acceptance of the two halves of `verify_with_assistance`
adds up to one proof, property 2 of `docs/AUDIT.md`), `UpperShardNotTrusted` (what decides
is the leaf, the lower siblings and how far the labels reach: a copy changed only above the
labels is answered as the genuine one is),
`RefusedOnlyWhenReplaced` (the exact circumstance of finding 2).

*AuditApi*: `ImplementsEvidence`, `EvidenceWitnessesRecord`.

*Accounting*: `VerdictIsExact` (which makes the verdict a function of the two sums, so that the
order of the records is irrelevant), `PeriodsCompose`.

*CliWorkflow*: `HonestCommandsSucceed` (`anchor`, which reads leaves, and `prove`, which
hashes records, agree; honest bundles are accepted, every record is found at every
level), `AlteredBundleRejected` (what `vaa verify` reads of an accepted bundle is what `vaa prove`
wrote, but for an index of the same path; another spelling of a hash is no
difference), `AcceptedAgainstChain` (an auditor who compares
the root that `vaa verify` prints with the chain is safe).

*SettlementBridge*: `SettledTxidInBlock` (with a true header, a settlement called
included is in the block, and at the index printed, also when the list is padded,
unless the list has that transaction in another spelling as well),
`HonestScriptsSucceed`.

*SelfChecks*: `CountIsOfWholeFiles` (the number `reproduce` prints is of files that
were there and whole when read), `BlockVectorBound` (what a passing block vector
says of the block, `tx_count` not being compared), `OnlyDriftFails` (when
an alarm is false: no file was there, or one was deleted between the test and the
reading, or the storage study wrote what `reproduce` refuses; any other is drift), and, under fairness, `CommandsEnd`.

*StorageStudy*: `KeysApart`, `BaselinesAgree` (the baseline by formula is the number of
siblings stored), `DedupCountsSubtrees` (sharing by content is sharing by subtree),
`MinimumViableSuffices` (lower shards and labels suffice, and neither alone),
`StorageVectorReproduces` (exactly which of the vectors the study writes are
accepted later), `StorageStudyPasses`.

*PopulationStudy*: `CleanUnlessUnderflow` (wrapping subtractions and checked additions
fit together), `SampleSpreads`, `EverySingleFaultDetected` (any record, any value),
`ConsistentFalsehoodMissed` (the documented boundary, exactly),
`WrittenVectorReproduces`, `HonestStudyPasses`.

Fairness. `SelfChecks` assumes `WF_vars(CommandStep)`: a command that has been
started goes on, since none of its steps waits for another process. Nothing else is
fair: nobody has to start a command, change a file, or let a study finish. No
other module has a liveness property: a library call returns or it does not,
nothing is scheduled, and whether a caller ever publishes a root is up to the
caller. A fairness assumption there would be one the code does not make.

## 5. Findings

Each is a property taken from a comment or a document, and a run in which TLC
finds it violated.

1. `OversizedIndexRejected`: a comment in the tests of `crates/merkle` says an
   oversized index must fail with `RootMismatch`; the bits of the index above the
   number of siblings are not looked at, so it may be accepted.
2. `AssistanceAcceptsGenuine`: after `[a, b, c]` is anchored, a genuine proof of
   the last leaf of `[a, b, c, c]` is refused by `verify_with_assistance`: the
   labels of the root both share have been replaced by too few.
3. `AcceptedRootAnchored`: `docs/ARCHITECTURE.md` says no verifier accepts a result
   that has not terminated in an anchored root. `vaa verify` compares with the root
   in the bundle; and the bundle that `bridge.py from-settlement` has verified
   proves the hash of the txid against a root made of such hashes, which is in no
   header. (The script compares the root of the txids with the header before that,
   so `SettledTxidInBlock` holds; the bundle is no evidence of it.)
4. `StudyVectorsRegenerate`: `docs/REPRODUCIBILITY.md` says `vaa reproduce` asserts
   that every committed vector regenerates bit for bit. It runs no study, and
   compares the fields of a study vector with one another.

Also met, without a run of its own because a property that holds already says exactly
when it happens:

- `examples/integration/settlement-verify.md:68` says the verifier confirms that the
  settlement sits at the claimed position in the block. The script looks its text up
  among the texts of the list, and `vaa anchor` decodes them: a list that repeats the last of
  three transactions in capitals has the root of the header, and a ledger with that
  spelling gets index 3, past the block (`SettledTxidInBlock`, second disjunct; the
  reply is among those of the run).
- `docs/AUDIT.md:18` says the storage study asserts that the sharded byte count never
  exceeds the naive baseline. The study does not compare them; a test does, for
  samples of half of the leaves. For a small sample the labels outweigh what they
  replace, and `vaa reproduce` refuses the vector written (`StorageVectorReproduces`).
- `vaa reproduce` prints that all in-scope faults were detected
  (`crates/cli/src/main.rs:407`) and `docs/DECISIONS.md:55` counts six classes, but it
  looks at those the vector lists: a study without a sample injects three, and its
  vector is accepted in these words (`WrittenVectorReproduces`).
- `docs/SECURITY.md:56` says CI runs `reproduce` on every push; the workflows run the
  formatter, clippy, the tests and, for a release, `vaa selftest`.

## 6. Proofs

| theorem | module | states |
|---|---|---|
| `MerkleRoundTrip` | `MerkleTreeProofs` | `merkle_proof` then `verify` succeeds |
| `MerkleSoundness` | `MerkleTreeProofs` | an accepted proof of the tree's height is the genuine one, or collides |
| `RootOfLevel` | `MerkleTreeProofs` | the nodes of a level hash to the root |
| `AcceptedHeight`, `SameRootAgree`, `RootIsOfUnfolded` | `MerkleTreeProofs` | without collisions: an accepted proof has the tree's height; two trees of one root agree on every node both have; two trees have one root exactly when they unfold to one full tree |
| `HonestProofsAccepted`, `AcceptedProofsGenuine`, `AcceptedProofsHaveHeight` | `InclusionProofs` | `Spec => []P` for `HonestProofAccepted`, `AcceptedProofIsGenuine` and, without collisions, `AcceptedProofHasHeight` |
| `RootsBindTheirLeaves` | `InclusionProofs` | without collisions, `Spec => []RootBindsLeaves` |
| `StoreTypeCorrect`, `StoredProofsCovered`, `HeldCopiesVerify`, `PublishedLabelsHashToRoot`, `LabelsAlwaysPublished`, `AssistedProofsComplete`, `AcceptedCopiesGenuine` | `ProofStoreProofs` | `Spec => []P` for `TypeOK`, `ShardsCoverProof`, `HeldCopyVerifies`, `LabelsHashToRoot`, `LabelsPublished`, `AssistanceCompletes`, `AcceptedCopyIsGenuine` |
| `UpperShardsNotTrusted`, `RefusedOnceReplaced` | `ProofStoreProofs` | without collisions, `Spec => []P` for `UpperShardNotTrusted`, `RefusedOnlyWhenReplaced` |
| `AuditImplementsEvidence`, `EvidenceStaysWitnessed` | `ProofStoreProofs` | `ASpec` implements `Evidence`; `ASpec => []EvidenceWitnessesRecord` |
| `VerdictExact`, `PeriodsAlwaysCompose` | `AccountingProofs` | `Spec => []P` for `VerdictIsExact`, `PeriodsCompose` |
| `HonestCommandsAlwaysSucceed`, `HonestScriptsAlwaysSucceed` | `SettlementBridgeProofs` | `BSpec => []P` for `HonestCommandsSucceed`, `HonestScriptsSucceed` |
| `AlterationsFound`, `AcceptedRecordsAnchored`, `SettlementsInBlock` | `SettlementBridgeProofs` | without collisions, `BSpec => []P` for `AlteredBundleRejected`, `AcceptedAgainstChain`, `SettledTxidInBlock` |
| `ReproduceCountsWholeFiles` | `SelfChecksProofs` | `Spec => []CountIsOfWholeFiles` |
| `BlockVectorsBound`, `OnlyDriftEverFails` | `SelfChecksProofs` | without collisions, `Spec => []P` for `BlockVectorBound`, `OnlyDriftFails` |
| `SamplesSpread`, `CleanPopulationsPass`, `SingleFaultsDetected`, `FalsehoodsAlwaysMissed` | `StudyProofs` | `Spec => []P` for `SampleSpreads`, `CleanUnlessUnderflow`, `EverySingleFaultDetected`, `ConsistentFalsehoodMissed` |
| `HonestStudiesPass`, `WrittenVectorsReproduce` | `StudyProofs` | without collisions, `Spec => []P` for `HonestStudyPasses`, `WrittenVectorReproduces` |
| `KeysStayApart`, `StorageStudiesPass`, `BaselinesAlwaysAgree`, `StorageVectorsReproduce` | `StudyProofs` | `StorageSpec => []P` for `KeysApart`, `StorageStudyPasses`, `BaselinesAgree`, `StorageVectorReproduces` |
| `MinimumSuffices`, `DedupAlwaysCountsSubtrees` | `StudyProofs` | without collisions, `StorageSpec => []P` for `MinimumViableSuffices`, `DedupCountsSubtrees` |

They hold for every hash `HashPair` and `HashRecord`, every set of keys, clients
and trees (`TreeAssumption`: trees are vectors; `JunkAssumption`: no sibling of a
proof is the hash a tampered one gets, or nothing would have been tampered with),
every level up to any `MaxLevel` in `Nat`, every bound on faults and vectors
(`BoundsAssumption`), every `WordMax` and `MaxItems` in `Nat`, any contents of
files (`FilesApart`: an absent file is not a torn one), and any number of records and
checks (`SizesAreNumbers`) of any values drawn (`DrawsArePositive`) whose totals fit
a word (`TotalsFit`), as those of the code do. The baselines of the storage study fit a
word too (`BytesFit`). The leaves of a population of the storage
study differ (`PopulationAssumption`): `synth_leaves` draws 32 bytes for each from a
fixed seed. A hash has any number of bytes (`SizesAreNatural`), except in
`StorageVectorsReproduce`, which assumes the 32 that `vaa reproduce` computes with. For the
commands and the scripts, batches are vectors whose positions fit the 32 bits of an index (`BatchAssumption`,
`PositionAssumption`), the block has a transaction (`BlockAssumption`, there and in
`SelfChecks`), a reply lists texts, in any spelling (`ReplyAssumption`), and a record has bytes
(`RecordAssumption`); a word of
`SelfChecks` holds the sums of `selftest` (`WordMaxAssumption`).

What is said without collisions is false otherwise, and its theorem assumes so in its
statement: that the hash of pairs is injective (`CollisionFree`) and, where proofs or
trees of unknown height meet, that leaves are no hashes of pairs (`NoPair`,
`TreesOfRecords`). A few need more of the leaves, and say it:

- `AlterationsFound`: different records have different hashes (else the record could be
  exchanged); nothing about leaves and pairs, as no alteration changes how many siblings
  there are.
- `HonestStudiesPass` and `WrittenVectorsReproduce`: the leaves of different records
  differ (`LeavesApart`), as a key is a leaf here and two records of one leaf would share
  an entry of the store; the hash that stands for nothing is neither a leaf nor
  that of a pair, as the study injects it for both.
- `MinimumSuffices`: no leaf of a population is the hash of a pair (`LeavesNoPair`);
  otherwise a proof without its upper shards could end in the root from further down.
- `OnlyDriftEverFails`: the digest of nothing is the one the code has
  (`EmptyDigest = KnownDigest`); the wrong leaf of `selftest` is not the right one; and
  a regenerated file is what its writer computes (`OutputsAsWritten`). The last is about
  files other programs write, of which the module knows only the content. For the
  population study it is what `WrittenVectorsReproduce` proves.

The hash of the model runs, pairing with model values as leaves, meets all of these.

*The tree.* The loops are functions defined by iteration; `IterationEquations`
gives their two equations from `CHOOSE`, and `SetInduction` is induction over the
numbers for a set, as no rule that takes an operator is used. Height is shown to
exist because a level above one node shrinks; the round trip goes up the levels
with the invariant that `current` is the node of the level at the shifted index;
soundness goes down them: at each level the pair hashed is the pair of the tree,
or the hashes collide. `LevelsCompose` and `WalkCompose` say that a tree above a
level is the tree of that level and a walk may be cut in two; `RootOfLevel` and
`AssistanceCompletes` rest on them.

*The store.* `TypeOK` and the properties alone are not inductive: that the labels of
a root hash to it is no help in showing that a held copy has labels after they are
replaced, and that shards cover a proof now says nothing of a copy taken earlier.
The inductive invariant `IInv` says where each thing in the state came from: every
stored proof is the sharded proof of its `origin` (`StoredInv`), every entry of
the labels is that of some vector with that root (`LabelsInv`), every stored and
held root has labels (`LabelsPublished`), and every held copy is the sharded proof
of what it was taken `from`, with one sibling replaced by `Junk` if it was altered
(`HeldInv`). That an altered copy is refused, or collides, needs that the
replaced sibling is still in its place when the shards are put together again
(`AlteredProof`), and that its proof then differs from the genuine one. Each action
is one step of the proof and each conjunct it can disturb a step below; the
properties follow from `IInv` and the theorems on the tree.

*Without collisions.* A pair determines its two hashes, so an accepted walk goes
through nodes of the tree from the root down wherever it claims to stand; were it
shorter or longer than the tree, a leaf would be the hash of a pair. Hence two trees
of one root have one height, and going down from the root they agree on every node
both have (`SameRootAgree`). So whichever tree of a root the labels were last published
for, they are cut at the level of the copy (`LabelsMet`): the completed proof has the
height of the tree and is the genuine one, and a genuine copy meets its label unless the
other level is too narrow, which takes fewer leaves (`WidthsGrow`). A path of sides from
the root ends at a node of the leaf level, clamped to the last one, so the node at its
end is a leaf of the vector; hence trees of one root unfold to the same, and, going up
from the ends of the paths, trees that unfold to the same have one root
(`RootIsOfUnfolded`). For vectors of one length the paths reach every leaf.

*The audit.* A step of `AuditApi` is a step of `Evidence` under `committed <- origin`:
`CallerAnchors` commits; `Audit` grants or refuses, and which one is decided by
`StoredInv` with `MerkleRoundTrip` and `MerkleSoundness`.

*The equations.* `CheckedSum` agrees with the sum over the integers while that fits,
and is `Overflow` exactly when some prefix, hence (words being non-negative) the
whole, exceeds `WordMax`. For two periods, the closing balance of the first cancels.

*The commands.* The invariant says where what is in the files came from: the leaves are
the display of some batch (`FilesInv`), every root printed or on the chain is that of a
batch, anchored as a whole (`ChainInv`), a bundle is the one `vaa prove` makes for a
position of a batch, with at most one field changed (`BundleInv`), and a result is that
of its arguments (`ResultInv`). A store of one leaf audits exactly what `merkle` verifies
(`AuditPasses`), so that `vaa verify` accepts a bundle when its walk ends in
its root. An altered field makes the walk of the genuine proof end elsewhere, or
start elsewhere: two walks of one length that end alike are alike (`WalksAgree`), so every
sibling and the leaf are those that were made, and the index has the same bits below
the height. If the root is that of a batch on the chain, the walk has its height and
stands on one of its leaves, whose record has that hash. A settlement is looked up in
the list of the reply; when the header is true, the list and the block have one root, so
they agree wherever both have leaves, and a padded list has at any other position what the
block has at its last one. The first entry with the text of the ledger is therefore in
the block, unless the list spells it differently where the block has it. That a script that is told the truth succeeds is
`MerkleRoundTrip` between two displays.

*One proof on its way.* The invariant says what the faults left of the proof: none
has touched it and it is the one `merkle_proof` made, or some have. A proof of
the tree's height is then judged by `MerkleSoundness`.

*reproduce.* `passed` is the number of files before `step` that were found, those are the
ones that were read, and they were read whole (`FoundIsCounted`): edits change `vectors`,
never `seen`. For the rest, every file
passed so far was accepted as it was seen (`LookedAt`), a command that failed met one
of its reasons (`Drifted`), and the block vector, in the directory or as seen, is
one of its possible contents (`BlockVectorInv`). A block vector with the root of the
block is then bound by `SameRootAgree`. The checks of `selftest` pass by
computation on the trees and the sums they build, whatever the hash; only that a
wrong leaf is refused takes soundness.

*The sample.* A quotient grows by at least one when its dividend grows by its
divisor, and the dividends are a whole number of records apart, of which there are
at least as many as checks; the clamp never bites.

*The population.* The wrapped total of a kind is the running sum of its amounts
modulo a word, by iteration over the records. A record altered, left out or
doubled changes the sum of one kind by 1 to `WordMax`, so that the wrapped totals
differ and the summary no longer matches; a unit moved between two records leaves
all four totals alone iff their kinds are the same. The totals of a drawn population
and the opening balance fit a word, so the checked additions accept exactly when the
closing balance over the integers is not negative. The invariant is that the summary
was made of the records (`TalliedInv`), that the opening balance and the totals fit a
word together (`BalancedInv`), and that a falsehood at origin was never counted as
detected (`OriginInv`).

*The sample in the store.* Once the leaves are made, every position of the sample is
still to be anchored or stored under its key with its own proof (`AnchoredInv`).
Anchoring another position leaves it so, since the keys, being leaves, differ when the
positions do; this is what `LeavesApart` is for. So each is covered and verifies. The three
faults of the proofs are refused: another leaf and a changed sibling by
soundness, a root that is no hash because the root is a leaf or the hash of a pair. The
three faults of the records are refused by `SingleFaultsDetected`. What is written then
has three, five or six faults, as the sample and the height allow, and no more, and
`vaa reproduce` compares exactly what the study computed.

*The storage study.* Every position that is no longer `todo` is stored under its key with
its own proof and labels of its root (`Kept`); the rest of `KeptInv` says that a failure
is never reached and that `report`, once there, is what `Report` computes. Anchoring another
position publishes the same labels again, as there is one tree, and leaves the other
entries as they were, since the leaf is in the key. Lower shards and labels then meet
by `RootOfLevel` and `WalkCompose`.

The counts are given closed forms (`Counts`, `CountedInv`), from which the properties
follow by arithmetic: a sum by `SumFunction` takes the elements one after another, as
`CHOOSE` picks them, and is shown by induction on their number to be their count times a
constant (`SumEquations`, `ConstantSum`). A level is as wide as the last index
shifted, plus one (`WidthByShift`), so the logarithm of `ceil_log2` is the number of rounds
the loops make (`DepthIsHeight`). Two lists of upper siblings that belong to different nodes
of the level differ: without collisions the nodes of one level differ pairwise, as the leaves
do (`NodesDiffer`), so two paths agree on a sibling only where they stand on one node
(`SiblingsDiffer`); at the edge of an odd level a node is its own sibling, and
nobody else's. Hence there is one list for each subtree
(`UppersOfTree`, `UppersMeet`).

Only model-checked: `CommandsEnd`, liveness being out of the prover's reach. Every
invariant of every run and the refinement of `Evidence` is proved.

## 7. Not modelled

- The digest itself (`crates/bsv`), JSON, arguments and printing; the timings, ratios
  and differences of the studies.
- `examples/integration/full_stack_demo.py`, which runs the commands once in a fixed
  order, and the HTTP request of the bridge (a reply is any member of `Reply`).
- `examples/realistic_quarter`, which writes one data set.
- `legacy/crates/commit` and `legacy/crates/zk`: superseded (`legacy/README.md`), outside
  the workspace, neither built nor tested. Each operation there is one or two calls of
  an external curve library between checks of lengths; a model would be a model of
  that library.
- Build, container and workflow files.

Named reductions: `Apart` (the bridge runs before there are other files); `MaxEdits`;
one alteration of a bundle and one tampered sibling of a copy; `MaxFaults`; one spelling
besides the one that is written; two commands that change a file, or two studies
that write the same one, do not overlap.

## 8. Plan

Done, in this order: `MerkleTree`, `InclusionProof`, `ProofStore`, `Evidence` with
`AuditApi`, `Accounting`, `CliWorkflow`, `Study` with `StorageStudy` and
`PopulationStudy`, `SettlementBridge`, `SelfChecks` with `VectorChecks`, and the proofs of
section 6.

Left, in order of worth:

1. A run and a proof that the store of `vaa verify` and `vaa query`, an instance of
   `AuditApi`, implements `Evidence` for the one leaf or the batch it holds.
2. An abstract specification of a study, which both studies implement: what is anchored
   verifies, until the end.
