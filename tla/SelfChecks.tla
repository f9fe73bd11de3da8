------------------------------ MODULE SelfChecks ------------------------------
(***************************************************************************)
(* The two commands of crates/cli/src/main.rs that check the program       *)
(* itself.  vaa selftest runs a script over the other crates; vaa          *)
(* reproduce reads the vector files one after the other.  Files are        *)
(* committed, edited and deleted, and the studies rewrite theirs in place, *)
(* also while reproduce is reading.                                        *)
(***************************************************************************)
EXTENDS MerkleTree, DisplayHex, VectorChecks, Sequences

CONSTANTS Missing, Torn,    \* a file that is not there; one that is half written
          Content,          \* contents that files are committed with, by file
          Output,           \* contents that the code regenerates, by file
          Block,            \* txids of the block of bsv_block_v1, in order
          EmptyDigest,      \* double_sha256 of nothing, as computed
          KnownDigest,      \* and as it is known to be
          TestLeaf(_),      \* the hash whose last byte is the number
          Junk,             \* a hash of nothing
          MaxEdits          \* bound on the changes of files

ASSUME FilesApart == Missing # Torn

\* A word holds the sums of the figures of selftest.
ASSUME WordMaxAssumption == WordMax \in Nat /\ WordMax >= 121000

\* A block has a transaction, and a block vector lists texts, if it lists any: of
\* hashes, or not.
ASSUME BlockAssumption ==
  /\ VecLen(Block) \in Nat \ {0} /\ IsVec(Block, VecLen(Block))
  /\ \A content \in Content["bsv_block_v1"] \ {Missing, Torn} :
       content.txids_display_be # None =>
         LET txids == unwrap(content.txids_display_be) IN
         VecLen(txids) \in Nat /\ IsVec(txids, VecLen(txids))

VARIABLES vectors,   \* the files under vectors/
          writing,   \* what a study that is writing its file is about to write
          edits,     \* changes so far
          command,   \* the command that runs or ran last
          step,      \* steps it has done
          passed,    \* files reproduce has counted
          found,     \* files that were there when it tested for them
          seen,      \* history: the files it has looked at, as they were
          outcome

files == <<vectors, writing, edits>>

vars == <<files, command, step, passed, found, seen, outcome>>

\* In the order of cmd_reproduce.
File == <<"genesis_v1", "bsv_block_v1", "storage_1024", "simstudy_200">>

Names == {File[n] : n \in 1 .. 4}

Studies == {"storage_1024", "simstudy_200"}

-------------------------------------------------------------------------------
(***************************************************************************)
(* vaa reproduce: what is asked of one file.                               *)
(***************************************************************************)
\* Mutant: the root that is regenerated stays in internal order.
GenesisMatchesInternal(v) ==
  /\ v.expected_root_display_be # None
  /\ v.coinbase_txid_display_be # None
  /\ Decodes(unwrap(v.coinbase_txid_display_be))
  /\ LET leaf == display_to_internal(unwrap(v.coinbase_txid_display_be)) IN
     MerkleRoot([i \in {0} |-> leaf]) = unwrap(v.expected_root_display_be)

GenesisMatches(v) ==
  /\ v.expected_root_display_be # None
  /\ v.coinbase_txid_display_be # None
  /\ Decodes(unwrap(v.coinbase_txid_display_be))
  /\ LET leaf == display_to_internal(unwrap(v.coinbase_txid_display_be)) IN
     internal_to_display(MerkleRoot([i \in {0} |-> leaf]))
       = unwrap(v.expected_root_display_be)

BlockMatches(v) ==
  /\ v.expected_merkle_root_display_be # None
  /\ v.txids_display_be # None
  /\ LET txids == unwrap(v.txids_display_be) IN
     /\ txids # <<>>
     /\ \A i \in DOMAIN txids : Decodes(txids[i])
     /\ internal_to_display(MerkleRoot(Read(txids)))
          = unwrap(v.expected_merkle_root_display_be)

FileMatches(file, content) ==
  /\ content \notin {Missing, Torn}
  /\ CASE file = "genesis_v1" -> GenesisMatches(content)
       [] file = "bsv_block_v1" -> BlockMatches(content)
       [] file = "storage_1024" -> StorageMatches(content)
       [] file = "simstudy_200" -> PopulationMatches(content)

-------------------------------------------------------------------------------
(***************************************************************************)
(* vaa selftest: its five checks.  The proof store of the last one holds   *)
(* one anchor.                                                             *)
(***************************************************************************)
leaves == [i \in 0 .. 7 |-> TestLeaf(i + 1)]

MerkleChecks ==
  LET root == MerkleRoot(leaves)
      proof == MerkleProof(leaves, 3)
  IN  /\ Verifies(proof, leaves[3], root)
      /\ ~ Verifies(proof, Junk, root)

Books == INSTANCE Accounting WITH disclosed <- <<>>, result <- "none", MaxItems <- 0

InvoiceChecks ==
  Books!Verdict([equation |-> "InvoiceTotal", net |-> 100000, tax |-> 21000,
                 discount |-> 4000, gross |-> 117000]) = "Ok"

RollForwardChecks ==
  Books!Verdict([equation |-> "ArRollForward", ar_open |-> 50000,
                 invoices |-> 60000, ar_close |-> 40000, receipts |-> 65000,
                 credit_notes |-> 3000, write_offs |-> 2000]) = "Ok"

Store(map, labels) ==
  INSTANCE ProofStore WITH
    predetermined_level <- 1, storage <- map, assistance_by_root <- labels,
    origin <- <<>>, held <- <<>>, answer <- "Ok", Key <- {}, Leaf <- {},
    Tree <- {}, Client <- {}, MaxLevel <- 1

StoreChecks ==
  LET store_root == Store(<<>>, <<>>)!MerkleRoot(leaves)
      shards == Store(<<>>, <<>>)!ShardProof(MerkleProof(leaves, 3).siblings, 1)
      map == [k \in {42} |-> [key |-> k, leaf_index |-> 3, shards |-> shards,
                              expected_root |-> store_root]]
      labels == [r \in {store_root} |-> Store(<<>>, <<>>)!Assistance(leaves, 1)]
  IN  /\ store_root = MerkleRoot(leaves)
      /\ 42 \in DOMAIN map
      /\ Store(map, labels)!Verify(leaves[3], map[42]) = "Ok"
      /\ Store(map, labels)!VerifyWithAssistance(leaves[3], map[42]) = "Ok"

SelfCheck(n) ==
  CASE n = 1 -> EmptyDigest = KnownDigest
    [] n = 2 -> MerkleChecks
    [] n = 3 -> InvoiceChecks
    [] n = 4 -> RollForwardChecks
    [] n = 5 -> StoreChecks

-------------------------------------------------------------------------------
Init ==
  /\ vectors \in [Names -> UNION {Content[file] : file \in Names}]
  /\ \A file \in Names : vectors[file] \in Content[file]
  /\ writing = [file \in Studies |-> None]
  /\ edits = 0
  /\ command = "none"
  /\ step = 0
  /\ passed = 0
  /\ found = {}
  /\ seen = [file \in Names |-> None]
  /\ outcome = "none"

Start(cmd) ==
  /\ outcome # "running"
  /\ command' = cmd
  /\ step' = 0
  /\ passed' = 0
  /\ found' = {}
  /\ seen' = [file \in Names |-> None]
  /\ outcome' = "running"
  /\ UNCHANGED files

Running(cmd) ==
  /\ command = cmd
  /\ outcome = "running"
  /\ UNCHANGED <<files, command>>

SelftestStep ==
  /\ Running("selftest")
  /\ step < 5
  /\ IF SelfCheck(step + 1)
       THEN step' = step + 1 /\ UNCHANGED outcome
       ELSE outcome' = "failed" /\ UNCHANGED step
  /\ UNCHANGED <<passed, found, seen>>

SelftestEnds ==
  /\ Running("selftest")
  /\ step = 5
  /\ outcome' = "passed"
  /\ UNCHANGED <<step, passed, found, seen>>

\* What is there, or not, is noted when it is looked at.
Looks ==
  /\ Running("reproduce")
  /\ step < 4
  /\ seen' = [seen EXCEPT ![File[step + 1]] = Some(vectors[File[step + 1]])]

\* A file is tested for and opened in two steps, and may change in between.
Absent ==
  /\ Looks
  /\ File[step + 1] \notin found
  /\ vectors[File[step + 1]] = Missing
  /\ UNCHANGED found

\* Mutants: the loop does not get past a missing file; it counts one.
SkipMissingStuck == Absent /\ UNCHANGED <<step, passed, outcome>>

SkipMissingCounting ==
  /\ Absent
  /\ step' = step + 1
  /\ passed' = passed + 1
  /\ UNCHANGED outcome

SkipMissing ==
  /\ Absent
  /\ step' = step + 1
  /\ UNCHANGED <<passed, outcome>>

FindFile ==
  /\ Running("reproduce")
  /\ step < 4
  /\ File[step + 1] \notin found
  /\ vectors[File[step + 1]] # Missing
  /\ found' = found \cup {File[step + 1]}
  /\ UNCHANGED <<step, passed, seen, outcome>>

CheckFile ==
  /\ Looks
  /\ File[step + 1] \in found
  /\ IF FileMatches(File[step + 1], vectors[File[step + 1]])
       THEN /\ step' = step + 1
            /\ passed' = passed + 1
            /\ UNCHANGED outcome
       ELSE /\ outcome' = "failed"
            /\ UNCHANGED <<step, passed>>
  /\ UNCHANGED found

\* In a build with overflow checks.
CheckPanics ==
  /\ Looks
  /\ File[step + 1] \in found
  /\ File[step + 1] = "storage_1024"
  /\ vectors["storage_1024"] \notin {Missing, Torn}
  /\ StoragePanics(vectors["storage_1024"])
  /\ outcome' = "failed"
  /\ UNCHANGED <<step, passed, found>>

ReproduceEnds ==
  /\ Running("reproduce")
  /\ step = 4
  /\ outcome' = IF passed = 0 THEN "failed" ELSE "passed"
  /\ UNCHANGED <<step, passed, found, seen>>

CommandStep ==
  \/ SelftestStep \/ SelftestEnds
  \/ SkipMissing \/ FindFile \/ CheckFile \/ CheckPanics \/ ReproduceEnds

-------------------------------------------------------------------------------
(***************************************************************************)
(* The files.                                                              *)
(***************************************************************************)
Edit ==
  /\ edits < MaxEdits
  /\ edits' = edits + 1
  /\ UNCHANGED <<command, step, passed, found, seen, outcome>>

\* A checkout, an editor, a deletion.
Commit(file) ==
  /\ Edit
  /\ file \in Studies => writing[file] = None
  /\ \E content \in Content[file] \ {vectors[file]} :
       vectors' = [vectors EXCEPT ![file] = content]
  /\ UNCHANGED writing

\* fs::write truncates the file and fills it later, or never.
StudyStartsWriting(file) ==
  /\ Edit
  /\ writing[file] = None
  /\ \E content \in Output[file] : writing' = [writing EXCEPT ![file] = Some(content)]
  /\ vectors' = [vectors EXCEPT ![file] = Torn]

StudyWrites(file) ==
  /\ writing[file] # None
  /\ vectors' = [vectors EXCEPT ![file] = unwrap(writing[file])]
  /\ writing' = [writing EXCEPT ![file] = None]
  /\ UNCHANGED <<edits, command, step, passed, found, seen, outcome>>

StudyKilled(file) ==
  /\ writing[file] # None
  /\ writing' = [writing EXCEPT ![file] = None]
  /\ UNCHANGED <<vectors, edits, command, step, passed, found, seen, outcome>>

Next ==
  \/ \E cmd \in {"selftest", "reproduce"} : Start(cmd)
  \/ CommandStep
  \/ \E file \in Names : Commit(file)
  \/ \E file \in Studies :
       StudyStartsWriting(file) \/ StudyWrites(file) \/ StudyKilled(file)

\* A command that runs goes on: no step of it waits for anything.  Nobody has to
\* start a command, to change a file or to let a study finish.
Spec == Init /\ [][Next]_vars /\ WF_vars(CommandStep)

-------------------------------------------------------------------------------
(***************************************************************************)
(* Properties.                                                             *)
(***************************************************************************)
Passed(cmd) == command = cmd /\ outcome = "passed"

Present(file) == seen[file] \notin {None, Some(Missing)}

\* "reproduce passed: n committed vector(s) match" counts the files that were there
\* when their turn came, at least one, and none that a study was writing when it
\* was read, however the files changed while the command ran.
CountIsOfWholeFiles ==
  Passed("reproduce") =>
    /\ passed = Cardinality(found)
    /\ found = {file \in Names : Present(file)}
    /\ passed > 0
    /\ \A file \in Names : seen[file] \notin {None, Some(Torn)}

\* A block vector that passes with the root of the block's header has the txids of
\* the block up to the repetition of last ones (tx_count is not compared), and
\* exactly those if it has as many.
BlockVectorBound ==
  Passed("reproduce") /\ Present("bsv_block_v1") =>
    LET v == unwrap(seen["bsv_block_v1"])
        txids == Read(unwrap(v.txids_display_be))
    IN  v.expected_merkle_root_display_be
            = Some(internal_to_display(MerkleRoot(Block)))
          => /\ Unfolded(txids) = Unfolded(Block)
             /\ VecLen(txids) = VecLen(Block) => txids = Block

\* Which alarms are false: selftest passes, and reproduce fails only if it found no
\* file at all, or one it had found was gone when it came to be opened (nothing has
\* drifted, and the same file missing a moment before is passed over), or one it
\* read was not what the code regenerates, or was a storage vector with more labels
\* than they replace.
Vanished(file) == file \in found /\ seen[file] = Some(Missing)

OnlyDriftFails ==
  outcome = "failed" =>
    /\ command = "reproduce"
    /\ \/ found = {}
       \/ \E file \in Names : Vanished(file)
       \/ \E file \in Names :
            /\ Present(file)
            /\ LET content == unwrap(seen[file]) IN
               \/ content \notin Output[file]
               \/ /\ file = "storage_1024"
                  /\ unwrap(content.minimum_viable_bytes)
                       > unwrap(content.baseline_bytes_formula)

\* Every command that was started comes to an end, whatever happens to the files.
CommandsEnd == outcome = "running" ~> outcome # "running"

\* docs/REPRODUCIBILITY.md: reproduce "asserts that every committed vector
\* regenerates bit-for-bit".  No study is run: a study vector passes when its
\* fields agree with one another.
StudyVectorsRegenerate ==
  Passed("reproduce") =>
    \A file \in Studies : Present(file) => unwrap(seen[file]) \in Output[file]
===============================================================================
