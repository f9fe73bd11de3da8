--------------------------- MODULE SettlementBridge ---------------------------
(***************************************************************************)
(* examples/integration/bridge.py: a script that runs the commands of      *)
(* CliWorkflow one after the other in a fresh directory, over records it   *)
(* draws or over the transactions a block explorer lists for a block.      *)
(***************************************************************************)
EXTENDS CliWorkflow

CONSTANTS Block,   \* the txids of the block, in order
          Txid,    \* texts of 64 characters, as a settlement ledger must name
          Reply    \* what the explorer may say of the block: a vector of texts
                   \* and the root in the header, as a text

\* A block has a transaction, the one that mints, and its positions are u32s.
ASSUME BlockAssumption ==
  /\ VecLen(Block) \in 1 .. U32Max + 1
  /\ IsVec(Block, VecLen(Block))

\* What the explorer lists is a list of texts: of hashes, in any spelling, or not.
ASSUME ReplyAssumption ==
  \A answer \in Reply :
    VecLen(answer.tx) \in Nat /\ IsVec(answer.tx, VecLen(answer.tx))

Header == internal_to_display(MerkleRoot(Block))

\* vaa anchor over a list of txids, compared with the root in the header
BlockOutcome(answer) ==
  IF answer.tx = <<>> THEN "NoTransactions"
  ELSE IF \E i \in DOMAIN answer.tx : ~ Decodes(answer.tx[i]) THEN "InvalidHex"
  ELSE IF internal_to_display(MerkleRoot(Read(answer.tx))) # answer.merkleroot
    THEN "RootMismatch"
  ELSE "Ok"

\* Mutant: the last occurrence.
LastIndex(txid, texts) ==
  CHOOSE i \in DOMAIN texts :
    texts[i] = txid /\ \A j \in DOMAIN texts : j > i => texts[j] # txid

\* list.index, which compares texts.
FirstIndex(txid, texts) ==
  CHOOSE i \in DOMAIN texts :
    texts[i] = txid /\ \A j \in 0 .. i - 1 : texts[j] # txid

\* The records file of the settlement has the txids as they are displayed: the
\* bundle is about hashes of txids.  However they are spelled, the bytes of the
\* record are the same.
SettlementRecords(texts) == Displayed(Read(texts))

SettlementBundle(txid, answer) ==
  ProofBundle(SettlementRecords(answer.tx), FirstIndex(txid, answer.tx))

SettlementOutcome(txid, answer) ==
  IF answer.tx = <<>> THEN "NoTransactions"
  ELSE IF \A i \in DOMAIN answer.tx : answer.tx[i] # txid THEN "NotInBlock"
  ELSE IF BlockOutcome(answer) # "Ok" THEN BlockOutcome(answer)
  ELSE Verification(SettlementBundle(txid, answer))

\* write, anchor, prove and verify
RecordsOutcome(batch, index) ==
  IF batch = <<>> THEN "EmptyTree"
  ELSE IF index >= VecLen(batch) THEN "OutOfRange"
  ELSE Verification(ProofBundle(batch, index))

-------------------------------------------------------------------------------
\* The script reads none of the other files; it is run before there are any.
Apart ==
  /\ leaves = <<>> /\ printed = {} /\ chain = {} /\ bundle = {}
  /\ UNCHANGED <<records, leaves, printed, chain, anchored, bundle>>

AnchorRecords(batch, index) ==
  /\ Apart
  /\ result' = Result("anchor-records", RecordsOutcome(batch, index),
                      {[batch |-> batch, index |-> index]})

VerifyBlock(answer) ==
  /\ Apart
  /\ result' = Result("verify-bsv-block", BlockOutcome(answer), {answer})

FromSettlement(txid, answer) ==
  /\ Apart
  /\ result' = Result("from-settlement", SettlementOutcome(txid, answer),
                      {[txid |-> txid, answer |-> answer]})

BNext ==
  \/ Next
  \/ \E batch \in Batch, index \in 0 .. MaxIndex : AnchorRecords(batch, index)
  \/ \E answer \in Reply :
       \/ VerifyBlock(answer)
       \/ \E txid \in Txid : FromSettlement(txid, answer)

BSpec == Init /\ [][BNext]_vars

-------------------------------------------------------------------------------
(***************************************************************************)
(* Properties.                                                             *)
(***************************************************************************)
Settled == result.command = "from-settlement" /\ result.outcome = "Ok"

\* When the explorer tells the true root of the header, whatever else it says, a
\* settlement the script calls included is a transaction of the block, at the
\* index it prints, or past the block when the list names that transaction twice
\* in different spellings: a list that repeats the last ones has the same root,
\* and list.index takes the spelling of the ledger.
SettledTxidInBlock ==
  Settled => \A e \in result.evidence :
    e.answer.merkleroot = Header =>
      LET txid == display_to_internal(e.txid)
          index == SettlementBundle(e.txid, e.answer).leaf_index
      IN  \/ index \in DOMAIN Block /\ Block[index] = txid
          \/ /\ index \notin DOMAIN Block
             /\ \E i \in DOMAIN Block : Block[i] = txid /\ e.answer.tx[i] # e.txid

Truth == [tx |-> Displayed(Block), merkleroot |-> Header]

\* A script that is told the truth, and asked for what is there, succeeds: every
\* command reads what the one before it wrote.
HonestScriptsSucceed ==
  \A e \in result.evidence :
    \/ result.outcome = "Ok"
    \/ result.command \notin {"anchor-records", "verify-bsv-block", "from-settlement"}
    \/ result.command = "anchor-records" /\ e.index \notin DOMAIN e.batch
    \/ result.command = "verify-bsv-block" /\ e # Truth
    \/ /\ result.command = "from-settlement"
       /\ \/ e.answer # Truth
          \/ \A i \in DOMAIN Block : internal_to_display(Block[i]) # e.txid

\* docs/ARCHITECTURE.md: "No verifier ever accepts a result that has not
\* terminated in a BSV-anchored Merkle root", a root that the accountant put on
\* the chain or that of a header.  vaa verify compares with the root in the bundle.
AcceptedRootAnchored ==
  /\ Accepted => \A sent \in bundle :
       display_to_internal(sent.file.root) \in chain \cup {MerkleRoot(Block)}
  /\ Settled => \A e \in result.evidence :
       SettlementBundle(e.txid, e.answer).root = Header
===============================================================================
