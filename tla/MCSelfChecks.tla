----------------------------- MODULE MCSelfChecks -----------------------------
(* SelfChecks with a hash that never collides.  Files are there as committed, *)
(* absent, or wrong in a way of their own; the studies write a vector of four *)
(* leaves with two queries or with one, and one of a sample of records.       *)
EXTENDS SelfChecks

CONSTANTS tg, ta, tb, tc, td

PairOf(l, r) == <<l, r>>

HashOf(number) == <<number>>

Vec(s) == [i \in 0 .. Len(s) - 1 |-> s[i + 1]]

BlockTxids == Vec(<<ta, tb, tc>>)

Genesis(coinbase) ==
  [expected_root_display_be |-> Some(internal_to_display(tg)),
   coinbase_txid_display_be |-> coinbase]

BlockVector(txids) ==
  [expected_merkle_root_display_be |->
     Some(internal_to_display(MerkleRoot(BlockTxids))),
   txids_display_be |-> txids]

\* Of four leaves, at the level half the height or 0.
StorageVector(queries, level, minimum) ==
  [n_leaves |-> Some(4), q_queries |-> Some(queries), tree_depth |-> Some(2),
   baseline_bytes_formula |-> Some(queries * 2 * 32),
   minimum_viable_bytes |-> minimum]

StorageOutputs ==
  {StorageVector(q, k, Some((q * k + 4 \div 2 ^ k) * 32)) : q \in {1, 2}, k \in {0, 1}}

Fault(name, injected, detected) ==
  [name |-> name, injected |-> injected, detected |-> detected,
   false_positives_clean |-> Some(0)]

StudyVector(holds, faults, origin) ==
  [m_records |-> Some(200), roll_forward_holds |-> Some(holds), faults |-> faults,
   origin_falsehood_detected |-> origin]

Detected(names) == Some({Fault(name, Some(1), Some(1)) : name \in names})

RecordFaults == {"altered_record_value", "omitted_record", "duplicated_record"}

AllFaults == RecordFaults \cup {"tampered_merkle_leaf", "wrong_index", "wrong_root"}

StudyOutputs ==
  {StudyVector(TRUE, Detected(names), Some(0)) : names \in {RecordFaults, AllFaults}}

Outputs ==
  [file \in {"genesis_v1", "bsv_block_v1", "storage_1024", "simstudy_200"} |->
     CASE file = "genesis_v1" -> {Genesis(Some(internal_to_display(tg)))}
       [] file = "bsv_block_v1" ->
            {BlockVector(Some(Displayed(txids))) :
               txids \in {BlockTxids, Vec(<<ta, tb, tc, tc>>)}}
       [] file = "storage_1024" -> StorageOutputs
       [] file = "simstudy_200" -> StudyOutputs]

\* Wrong: an undecodable or missing coinbase; other, reordered or no txids; a minimum
\* of another study, or none; a product that is no word, and wraps to the baseline;
\* a fault missed, one without counts, no origin.
Contents ==
  [file \in {"genesis_v1", "bsv_block_v1", "storage_1024", "simstudy_200"} |->
     {Missing} \cup
     CASE file = "genesis_v1" -> Outputs[file] \cup {Genesis(Some(Malformed)), Genesis(None)}
       [] file = "bsv_block_v1" ->
            Outputs[file] \cup
            {BlockVector(Some(Displayed(txids))) :
               txids \in {Vec(<<ta, tb, td>>), Vec(<<tb, ta, tc>>), <<>>}}
       [] file = "storage_1024" ->
            {StorageVector(2, 1, m) : m \in {None, Some(64), Some(128), Some(160)}}
              \cup {[StorageVector(2 ^ 11, 1, Some(0)) EXCEPT !.baseline_bytes_formula = Some(0)]}
       [] file = "simstudy_200" ->
            {StudyVector(TRUE, Detected(AllFaults), Some(0)),
             StudyVector(TRUE, Some({Fault("wrong_root", Some(1), Some(0))}), Some(0)),
             StudyVector(TRUE, Some({Fault("wrong_root", None, None)}), Some(0)),
             StudyVector(TRUE, Detected(AllFaults), None)}]
===============================================================================
