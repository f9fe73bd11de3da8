------------------------------ MODULE CliWorkflow ------------------------------
(***************************************************************************)
(* The command line of crates/cli/src/main.rs between an accountant and an *)
(* auditor.  The accountant keeps a records file, derives a leaves file    *)
(* from it (the conversion of examples/integration/bridge.py), runs vaa    *)
(* anchor on the leaves and puts the printed root on the chain, runs vaa   *)
(* prove on the records and sends the bundle; the auditor runs vaa verify. *)
(* Each command reads its files anew, so the files may change in between,  *)
(* and the bundle on its way.                                              *)
(***************************************************************************)
EXTENDS Shards, DisplayHex

CONSTANTS Record,         \* records, as bytes
          HashRecord(_),  \* double_sha256 of a record
          Batch,          \* contents the records file may have: vectors of records
          U32Max,         \* u32::MAX
          MaxIndex,       \* bound on the indices asked for or claimed
          MaxLevel        \* bound on the predetermined level of vaa query

ASSUME BatchAssumption ==
  \A batch \in Batch :
    /\ VecLen(batch) \in Nat /\ IsVec(batch, VecLen(batch))
    /\ \A i \in DOMAIN batch : batch[i] \in Record

\* A record stands for its bytes.
ASSUME RecordAssumption == Malformed \notin Record

\* Every position of a batch is a u32.
ASSUME PositionAssumption ==
  /\ U32Max \in Nat /\ MaxIndex \in Nat /\ MaxLevel \in Nat
  /\ \A batch \in Batch : VecLen(batch) - 1 <= U32Max

VARIABLES records,    \* the records file
          leaves,     \* the leaves file: hashes in display order
          printed,    \* the root vaa anchor printed last, with its leaves, if any
          chain,      \* roots the accountant has put on the chain
          anchored,   \* history: the leaves vaa anchor was given for them
          bundle,     \* the bundle file, with a history: the bundle as vaa prove
                      \* made it and the records it was made from, if any
          result      \* of the last command

vars == <<records, leaves, printed, chain, anchored, bundle, result>>

-------------------------------------------------------------------------------
LeavesOf(batch) == [i \in DOMAIN batch |-> HashRecord(batch[i])]

\* Mutant: the bytes stay in display order.
load_leaves_unreversed == leaves

load_leaves == Read(leaves)

NoResult == [command |-> "none", outcome |-> "none", evidence |-> {}]

Result(command, outcome, evidence) ==
  [command |-> command, outcome |-> outcome, evidence |-> evidence]

-------------------------------------------------------------------------------
(***************************************************************************)
(* The proof store a command makes, fills with one anchor and drops when   *)
(* it ends, and the audit verifier over it.                                *)
(***************************************************************************)
Store(map) == INSTANCE AuditApi WITH
  storage <- map, predetermined_level <- 0, assistance_by_root <- <<>>,
  origin <- <<>>, held <- <<>>, answer <- "none",
  anchored <- {}, verdict <- <<>>, Key <- {}, Leaf <- {}, Junk <- Malformed,
  Tree <- {}, Client <- {}

StoreWith(key, v, index, level) ==
  [k \in {key} |->
     [key |-> key, leaf_index |-> index,
      shards |-> ShardProof(MerkleProof(v, index).siblings, level),
      expected_root |-> MerkleRoot(v)]]

KeyFor(leaf, index) == [txid |-> leaf, block_position |-> index]

-------------------------------------------------------------------------------
Init ==
  /\ records \in Batch
  /\ leaves = <<>>
  /\ printed = {}
  /\ chain = {}
  /\ anchored = {}
  /\ bundle = {}
  /\ result = NoResult

\* The accountant corrects, adds or drops records.
EditRecords(batch) ==
  /\ batch # records
  /\ records' = batch
  /\ result' = NoResult
  /\ UNCHANGED <<leaves, printed, chain, anchored, bundle>>

\* The leaves file is made from the records file as it is now.
WriteLeaves ==
  /\ leaves' = Displayed(LeavesOf(records))
  /\ result' = NoResult
  /\ UNCHANGED <<records, printed, chain, anchored, bundle>>

AnchorFails ==
  /\ leaves = <<>>
  /\ result' = Result("anchor", "EmptyTree", {})
  /\ UNCHANGED <<records, leaves, printed, chain, anchored, bundle>>

Anchor ==
  /\ leaves # <<>>
  /\ printed' = {[root |-> internal_to_display(MerkleRoot(load_leaves)),
                  from |-> leaves]}
  /\ result' = Result("anchor", "Ok", {})
  /\ UNCHANGED <<records, leaves, chain, anchored, bundle>>

\* The root goes into a data output of a transaction.
PutOnChain ==
  /\ \E p \in printed :
       /\ chain' = chain \cup {display_to_internal(p.root)}
       /\ anchored' = anchored \cup {p.from}
  /\ result' = NoResult
  /\ UNCHANGED <<records, leaves, printed, bundle>>

ProveFails(index) ==
  /\ index >= VecLen(records)
  /\ result' = Result("prove", "OutOfRange", {})
  /\ UNCHANGED <<records, leaves, printed, chain, anchored, bundle>>

\* Mutant: the proof is the one of the first record.
ProofBundleOfFirst(batch, index) ==
  LET v == LeavesOf(batch)
      proof == MerkleProof(v, 0)
  IN  [version |-> 2,
       root |-> internal_to_display(MerkleRoot(v)),
       leaf |-> internal_to_display(v[index]),
       siblings |-> Displayed(proof.siblings),
       leaf_index |-> index,
       record |-> batch[index]]

ProofBundle(batch, index) ==
  LET v == LeavesOf(batch)
      proof == MerkleProof(v, index)
  IN  [version |-> 2,
       root |-> internal_to_display(MerkleRoot(v)),
       leaf |-> internal_to_display(v[index]),
       siblings |-> Displayed(proof.siblings),
       leaf_index |-> index,
       record |-> batch[index]]

Prove(index) ==
  /\ index < VecLen(records)
  /\ LET file == ProofBundle(records, index) IN
     bundle' = {[file |-> file, made |-> file, from |-> records]}
  /\ result' = Result("prove", "Ok", {})
  /\ UNCHANGED <<records, leaves, printed, chain, anchored>>

-------------------------------------------------------------------------------
(***************************************************************************)
(* The bundle changes on its way, once.  A hash becomes another one in     *)
(* sight, or the same in capitals, or no hash at all; so does the record.  *)
(***************************************************************************)
OtherTexts(text) ==
  ({Malformed, Capitals(display_to_internal(text))}
     \cup {internal_to_display(HashRecord(r)) : r \in Record}
     \cup {internal_to_display(MerkleRoot(LeavesOf(batch))) :
             batch \in {x \in Batch : x # <<>>}}) \ {text}

Alterations(file) ==
  {[file EXCEPT !.version = 1]}
    \cup {[file EXCEPT !.root = text] : text \in OtherTexts(file.root)}
    \cup {[file EXCEPT !.leaf = text] : text \in OtherTexts(file.leaf)}
    \cup (UNION {{[file EXCEPT !.siblings[j] = text] : text \in OtherTexts(file.siblings[j])} :
                   j \in DOMAIN file.siblings})
    \cup {[file EXCEPT !.leaf_index = i] : i \in (0 .. MaxIndex) \ {file.leaf_index}}
    \cup {[file EXCEPT !.record = r] : r \in ({Malformed} \cup Record) \ {file.record}}

AlterBundle ==
  /\ \E sent \in bundle :
       /\ sent.file = sent.made
       /\ \E file \in Alterations(sent.file) :
            bundle' = {[sent EXCEPT !.file = file]}
  /\ result' = NoResult
  /\ UNCHANGED <<records, leaves, printed, chain, anchored>>

-------------------------------------------------------------------------------
\* cmd_verify, check by check; the proof store it makes is one of one leaf.
ProofOf(file) ==
  [leaf_index |-> file.leaf_index,
   siblings |-> Read(file.siblings)]

AuditStore(file) ==
  LET leaf == display_to_internal(file.leaf)
  IN  StoreWith(KeyFor(leaf, file.leaf_index), [i \in {0} |-> leaf], 0, 0)

AuditBundle(file) ==
  LET leaf == display_to_internal(file.leaf)
  IN  [key |-> KeyFor(leaf, file.leaf_index), record |-> file.record, leaf |-> leaf,
       mode |-> "Adversarial"]

\* Mutants: the inclusion is left to the audit, the record to the accountant.
VerifyByAudit(file) ==
  IF file.version # 2 THEN "UnsupportedVersion"
  ELSE IF ~ Decodes(file.leaf) \/ ~ Decodes(file.root)
            \/ \E j \in DOMAIN file.siblings : ~ Decodes(file.siblings[j])
    THEN "InvalidHex"
  ELSE IF file.record = Malformed THEN "InvalidRecordHex"
  ELSE IF file.leaf_index > U32Max THEN "IndexDoesNotFit"
  ELSE Store(AuditStore(file))!Outcome(AuditBundle(file))

Verification(file) ==
  IF file.version # 2 THEN "UnsupportedVersion"
  ELSE IF ~ Decodes(file.leaf) \/ ~ Decodes(file.root)
            \/ \E j \in DOMAIN file.siblings : ~ Decodes(file.siblings[j])
    THEN "InvalidHex"
  ELSE IF ~ Verifies(ProofOf(file), display_to_internal(file.leaf),
                     display_to_internal(file.root))
    THEN "RootMismatch"
  ELSE IF file.record = Malformed THEN "InvalidRecordHex"
  ELSE IF HashRecord(file.record) # display_to_internal(file.leaf)
    THEN "RecordLeafMismatch"
  ELSE IF file.leaf_index > U32Max THEN "IndexDoesNotFit"
  ELSE Store(AuditStore(file))!Outcome(AuditBundle(file))

Verify ==
  /\ \E sent \in bundle :
       LET outcome == Verification(sent.file) IN
       result' = Result("verify", outcome,
                        IF outcome = "Ok"
                          THEN {Store(AuditStore(sent.file))!AuditEvidence(
                                  AuditBundle(sent.file))}
                          ELSE {})
  /\ UNCHANGED <<records, leaves, printed, chain, anchored, bundle>>

\* cmd_query
QueryOutcome(index, level) ==
  IF index >= VecLen(records) THEN "OutOfRange"
  ELSE IF index > U32Max THEN "IndexDoesNotFit"
  ELSE LET v == LeavesOf(records)
           key == KeyFor(v[index], index)
           map == StoreWith(key, v, index, level)
       IN  Store(map)!Verify(v[index], map[key])

Query(index, level) ==
  /\ result' = Result("query", QueryOutcome(index, level), {})
  /\ UNCHANGED <<records, leaves, printed, chain, anchored, bundle>>

Next ==
  \/ \E batch \in Batch : EditRecords(batch)
  \/ WriteLeaves
  \/ AnchorFails
  \/ Anchor
  \/ PutOnChain
  \/ \E index \in 0 .. MaxIndex :
       \/ ProveFails(index)
       \/ Prove(index)
       \/ \E level \in 0 .. MaxLevel : Query(index, level)
  \/ AlterBundle
  \/ Verify

Spec == Init /\ [][Next]_vars

-------------------------------------------------------------------------------
(***************************************************************************)
(* Properties.                                                             *)
(***************************************************************************)
Accepted == result.command = "verify" /\ result.outcome = "Ok"

\* vaa anchor, which reads leaves in display order, and vaa prove, which hashes
\* records, agree on the root of one and the same batch; a bundle that arrives as
\* vaa prove made it is accepted, whatever happened to the files since; and vaa
\* query finds every record at every level.
HonestCommandsSucceed ==
  /\ \A sent \in bundle : \A p \in printed :
       Displayed(LeavesOf(sent.from)) = p.from => sent.made.root = p.root
  /\ result.command = "verify" /\ result.outcome # "Ok" =>
       \E sent \in bundle : sent.file # sent.made
  /\ result.command = "query" => result.outcome \in {"Ok", "OutOfRange"}

\* What vaa verify makes of a bundle.
AsRead(file) ==
  [version |-> file.version, root |-> display_to_internal(file.root),
   leaf |-> display_to_internal(file.leaf), proof |-> ProofOf(file),
   record |-> file.record]

\* One alteration of what a bundle says is always found, but for one of the
\* claimed index, which passes when it has another bit only at levels where a
\* node is its own sibling, or above all siblings.
SamePath(made, index) ==
  LET proof == ProofOf(made) IN
  \A j \in DOMAIN proof.siblings :
    \/ Shifted(index)[j] % 2 = Shifted(made.leaf_index)[j] % 2
    \/ Walk(proof, display_to_internal(made.leaf))[j] = proof.siblings[j]

AlteredBundleRejected ==
  Accepted => \A sent \in bundle :
    /\ AsRead(sent.file) =
         [AsRead(sent.made) EXCEPT !.proof.leaf_index = sent.file.leaf_index]
    /\ SamePath(sent.made, sent.file.leaf_index)

\* When vaa verify accepts and the auditor finds the root it prints on the
\* chain, the disclosed record is one of those that were anchored, however
\* the files changed in between.
AcceptedAgainstChain ==
  Accepted => \A sent \in bundle :
    LET root == display_to_internal(sent.file.root) IN
    root \in chain =>
      \E v \in anchored :
        LET batch == Read(v) IN
        /\ MerkleRoot(batch) = root
        /\ VecLen(sent.file.siblings) = Height(batch)
        /\ \E i \in DOMAIN batch : batch[i] = HashRecord(sent.file.record)
===============================================================================
