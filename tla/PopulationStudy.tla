---------------------------- MODULE PopulationStudy ----------------------------
(***************************************************************************)
(* The population study of crates/simstudy/src/main.rs.  It draws records  *)
(* of four kinds and a closing balance that balances them, checks the      *)
(* roll-forward over them, anchors a sample of the records in a proof      *)
(* store, verifies it, injects six faults that must all be detected, and   *)
(* writes a vector that vaa reproduce reads.                               *)
(***************************************************************************)
EXTENDS Study

CONSTANTS RecordLeaf(_),  \* double_sha256 of a record's bytes
          Draw,           \* the values drawn for each kind, 1 to 4
          Opening,        \* the opening balances drawn
          Sizes,          \* numbers of records asked for
          Samples         \* numbers of inclusion checks asked for

\* Both are read from the command line as usize.
ASSUME SizesAreNumbers == Sizes \subseteq Nat /\ Samples \subseteq Nat

\* No record is of nothing, and no balance more than a word.
ASSUME DrawsArePositive ==
  /\ \A k \in 1 .. 4 : Draw[k] \subseteq Nat \ {0}
  /\ Opening \subseteq 0 .. WordMax
  /\ WordMax \in Nat

\* Ids are 32 bits wide and values below 2^23, so that no total leaves 64 bits.
ASSUME TotalsFit ==
  \A n \in Sizes, opening \in Opening, k \in 1 .. 4 :
    \A value \in Draw[k] : opening + (n + 1) * value < WordMax

\* The leaves of the study are those of the records, its sample inclusion_indices.
VARIABLES records,         \* a vector
          ar_open,
          summary,
          missed,          \* fault classes injected and not detected
          origin_detected  \* of the falsehood at origin

vars == <<records, ar_open, summary, leaves, indices, todo, store, missed, origin_detected,
          status>>

Books == INSTANCE Accounting WITH disclosed <- summary, result <- status,
                                  MaxItems <- 0

Count(rs) == Cardinality(DOMAIN rs)

m == Count(records)

-------------------------------------------------------------------------------
(***************************************************************************)
(* The population.                                                         *)
(***************************************************************************)
Invoice == 1
Receipt == 2
CreditNote == 3
WriteOff == 4

\* Percentages round down; write-offs take what is left.
KindEnd(n, k) ==
  LET invoices == (n * 50) \div 100
      receipts == (n * 35) \div 100
      credit_notes == (n * 10) \div 100
  IN  <<invoices, invoices + receipts, invoices + receipts + credit_notes, n>>[k]

\* Records come kind by kind.
KindAt(n, id) == Min({k \in 1 .. 4 : id < KindEnd(n, k)})

Populations(n) ==
  {[id \in 0 .. n - 1 |-> [id |-> id, kind |-> KindAt(n, id), value |-> value[id]]] :
     value \in {v \in [0 .. n - 1 -> UNION {Draw[k] : k \in 1 .. 4}] :
                  \A id \in 0 .. n - 1 : v[id] \in Draw[KindAt(n, id)]}}

Wrapped(x) == x % (WordMax + 1)

Amount(record, k) == IF record.kind = k THEN record.value ELSE 0

\* The loop over the records, before the n-th one.
RunningTotal(rs, k) ==
  LET total[n \in Nat] ==
        IF n = 0 THEN 0 ELSE total[n - 1] + Amount(rs[n - 1], k)
  IN  total

IntegerTotal(rs, k) == RunningTotal(rs, k)[Count(rs)]

\* wrapping_add, over the records of one kind
Total(rs, k) == Wrapped(IntegerTotal(rs, k))

\* Mutant: the totals are compared all together.
TalliedTogether(rs, s) ==
  MapThenSumSet(LAMBDA k : Total(rs, k), 1 .. 4)
    = MapThenSumSet(LAMBDA k : s.totals[k], 1 .. 4)

Tallied(rs, s) == \A k \in 1 .. 4 : Total(rs, k) = s.totals[k]

\* What ar_open + totals[0] - totals[1] - totals[2] - totals[3] should be.
ExactClose ==
  ar_open + IntegerTotal(records, Invoice) - IntegerTotal(records, Receipt)
    - IntegerTotal(records, CreditNote) - IntegerTotal(records, WriteOff)

RollForward(s) ==
  [equation |-> "ArRollForward", ar_open |-> s.ar_open, invoices |-> s.totals[1],
   ar_close |-> s.ar_close, receipts |-> s.totals[2], credit_notes |-> s.totals[3],
   write_offs |-> s.totals[4]]

\* Mutants: the totals are not compared; the equation is not.
roll_forward_untallied(rs, s) == Books!Verdict(RollForward(s)) = "Ok"

roll_forward_unverified(rs, s) == Tallied(rs, s)

roll_forward_holds(rs, s) ==
  /\ Tallied(rs, s)
  /\ Books!Verdict(RollForward(s)) = "Ok"

-------------------------------------------------------------------------------
(***************************************************************************)
(* The sample.                                                             *)
(***************************************************************************)
depth(n) == IF n <= 1 THEN 0 ELSE ilog2(n - 1) + 1

\* Mutant: a step of at least one record, whatever the sample.
IndicesByStep(n, inclusion_sample) ==
  LET inclusion_n == Least(inclusion_sample, n)
      step == n \div (IF inclusion_n = 0 THEN 1 ELSE inclusion_n) + 1
  IN  [i \in 1 .. inclusion_n |-> Least((i - 1) * step, n - 1)]

InclusionIndices(n, inclusion_sample) ==
  LET inclusion_n == Least(inclusion_sample, n)
  IN  [i \in 1 .. inclusion_n |->
         Least(((i - 1) * n) \div inclusion_n, n - 1)]

-------------------------------------------------------------------------------
(***************************************************************************)
(* The faults.                                                             *)
(***************************************************************************)
Altered(i, value) == [records EXCEPT ![i].value = value]

Omitted(i) == [n \in 0 .. m - 2 |-> records[IF n < i THEN n ELSE n + 1]]

Duplicated(i) == [n \in 0 .. m |-> IF n = m THEN records[i] ELSE records[n]]

RecordFaultMissed(copy) == roll_forward_holds(copy, summary)

TamperedLeafMissed ==
  /\ indices # <<>>
  /\ Store!Verify(Junk, Stored(indices[1])) = "Ok"

WrongIndexMissed ==
  /\ Len(indices) >= 2
  /\ LET i == indices[1]
         wrong == [MerkleProof(leaves, i) EXCEPT !.leaf_index = indices[2]]
     IN  Verifies(wrong, leaves[i], MerkleRoot(leaves))

WrongRootMissed ==
  /\ indices # <<>>
  /\ Verifies(MerkleProof(leaves, indices[1]), leaves[indices[1]], Junk)

RecordFaults == {"altered_record_value", "omitted_record", "duplicated_record"}

Missed ==
  {fault \in RecordFaults \cup {"tampered_merkle_leaf", "wrong_index", "wrong_root"} :
     CASE fault = "altered_record_value" ->
            RecordFaultMissed(Altered(0, Wrapped(records[0].value + 1)))
       [] fault = "omitted_record" -> RecordFaultMissed(Omitted(0))
       [] fault = "duplicated_record" -> RecordFaultMissed(Duplicated(0))
       [] fault = "tampered_merkle_leaf" -> TamperedLeafMissed
       [] fault = "wrong_index" -> WrongIndexMissed
       [] fault = "wrong_root" -> WrongRootMissed}

\* Mutant: the receipt of the false invoice keeps the true value.
OriginDetectedOneSided(claimed) ==
  LET books == [ar_open |-> ar_open, ar_close |-> ar_open,
                totals |-> <<claimed, claimed, 0, 0>>]
      entries == [i \in 0 .. 1 |-> [id |-> i, kind |-> i + 1, value |-> claimed - i]]
  IN  IF roll_forward_holds(entries, books) THEN 0 ELSE 1

\* The books of origin_falsehood_check: a claim that differs from the truth, and a
\* receipt and totals that agree with the claim.
OriginDetected(claimed) ==
  LET books == [ar_open |-> ar_open, ar_close |-> ar_open,
                totals |-> <<claimed, claimed, 0, 0>>]
      entries == [i \in 0 .. 1 |-> [id |-> i, kind |-> i + 1, value |-> claimed]]
  IN  IF roll_forward_holds(entries, books) THEN 0 ELSE 1

\* The last three faults need a sample to inject them in, one of them two records.
Injected ==
  RecordFaults
    \cup (IF indices = <<>> THEN {} ELSE {"tampered_merkle_leaf", "wrong_root"})
    \cup (IF Len(indices) < 2 THEN {} ELSE {"wrong_index"})

\* The clean population is checked once more; were it refused, that would count
\* against the faults on records.
FalsePositives(fault) ==
  IF fault \in RecordFaults /\ ~ roll_forward_holds(records, summary) THEN 1 ELSE 0

\* The file of --vector-out, as far as it is read again.
VectorOut ==
  [m_records |-> Some(m),
   roll_forward_holds |-> Some(roll_forward_holds(records, summary)),
   faults |-> Some({[name |-> fault,
                     injected |-> Some(1),
                     detected |-> Some(IF fault \in missed THEN 0 ELSE 1),
                     false_positives_clean |-> Some(FalsePositives(fault))] :
                       fault \in Injected}),
   origin_falsehood_detected |-> Some(origin_detected)]

-------------------------------------------------------------------------------
(***************************************************************************)
(* main                                                                    *)
(***************************************************************************)
Init ==
  /\ \E n \in Sizes, inclusion_sample \in Samples :
       /\ records \in Populations(n)
       /\ indices = InclusionIndices(n, inclusion_sample)
       /\ predetermined_level = depth(n) \div 2
  /\ ar_open \in Opening
  /\ summary = <<>>
  /\ leaves = <<>>
  /\ todo = indices
  /\ storage = <<>>
  /\ assistance_by_root = <<>>
  /\ missed = {}
  /\ origin_detected = 0
  /\ status = "generating"

\* A build with overflow checks stops at a subtraction below zero, another goes on.
GeneratePanics ==
  /\ status = "generating"
  /\ ExactClose < 0
  /\ status' = "panicked"
  /\ UNCHANGED <<records, ar_open, summary, leaves, indices, todo, store, missed,
                 origin_detected>>

Generate ==
  /\ status = "generating"
  /\ summary' = [ar_open |-> ar_open, totals |-> [k \in 1 .. 4 |-> Total(records, k)],
                 ar_close |-> Wrapped(ExactClose)]
  /\ status' = "checking"
  /\ UNCHANGED <<records, ar_open, leaves, indices, todo, store, missed,
                 origin_detected>>

CheckClean ==
  /\ status = "checking"
  /\ IF roll_forward_holds(records, summary)
       THEN /\ leaves' = [i \in DOMAIN records |-> RecordLeaf(records[i])]
            /\ status' = "anchoring"
       ELSE /\ status' = "rejected"
            /\ UNCHANGED leaves
  /\ UNCHANGED <<records, ar_open, summary, indices, todo, store, missed,
                 origin_detected>>

AnchorNext ==
  /\ status = "anchoring"
  /\ todo # <<>>
  /\ UNCHANGED <<records, ar_open, summary, leaves, indices, missed, origin_detected,
                 status>>
  /\ todo' = Tail(todo)
  /\ LET i == Head(todo) IN Store!Anchor(key_for(i, leaves[i]), leaves, i)

\* run_inclusion_sample returns at the first proof that fails.
CheckSample ==
  /\ status = "anchoring"
  /\ todo = <<>>
  /\ status' =
       IF \A n \in DOMAIN indices :
            Store!Verify(leaves[indices[n]], Stored(indices[n])) = "Ok"
         THEN "injecting" ELSE "failed"
  /\ UNCHANGED <<records, ar_open, summary, leaves, indices, todo, store, missed,
                 origin_detected>>

\* The count of run_selective_disclosure_checks, which main looks at after the
\* faults.
Disclosed == {n \in DOMAIN indices : Stored(indices[n]).leaf_index = indices[n]}

\* The first fault indexes the first record although there may be none.
InjectFaults ==
  /\ status = "injecting"
  /\ IF m = 0 THEN status' = "panicked" /\ UNCHANGED <<missed, origin_detected>>
     ELSE /\ missed' = Missed
          /\ \E truth \in Draw[Invoice] : origin_detected' = OriginDetected(truth + 1)
          /\ status' =
               IF /\ Disclosed = DOMAIN indices
                  /\ \A fault \in Injected : FalsePositives(fault) = 0
                  /\ missed' = {}
                 THEN "done" ELSE "failed"
  /\ UNCHANGED <<records, ar_open, summary, leaves, indices, todo, store>>

Next ==
  GeneratePanics \/ Generate \/ CheckClean \/ AnchorNext \/ CheckSample \/ InjectFaults

Spec == Init /\ [][Next]_vars

-------------------------------------------------------------------------------
(***************************************************************************)
(* Properties.                                                             *)
(***************************************************************************)
Running == {"checking", "anchoring", "injecting", "done", "failed", "rejected"}

\* No balance that wrapped below zero gets past the check, and no population is
\* refused for another reason: wrapping subtractions in the generator and
\* checked additions in the equation fit together.  The study panics for such a
\* population or for an empty one only.
CleanUnlessUnderflow ==
  /\ status = "rejected" => ExactClose < 0
  /\ status = "panicked" => ExactClose < 0 \/ m = 0
  /\ status \in {"anchoring", "injecting", "done", "failed"} =>
       summary.ar_close = ExactClose

\* The positions of the sample are there, and differ, or the fault of the wrong
\* index would be none.
SampleSpreads ==
  /\ \A n \in DOMAIN indices : indices[n] \in DOMAIN records
  /\ \A n, o \in DOMAIN indices : indices[n] = indices[o] => n = o

\* docs/AUDIT.md:19 claims detection of altered, omitted and duplicated records;
\* it holds of every record and every value, not just of those the study tries.
EverySingleFaultDetected ==
  status = "injecting" =>
    \A i \in DOMAIN records :
      /\ \A value \in 0 .. WordMax \ {records[i].value} :
           ~ RecordFaultMissed(Altered(i, value))
      /\ ~ RecordFaultMissed(Omitted(i))
      /\ ~ RecordFaultMissed(Duplicated(i))

\* The boundary the study documents: a value that moves from one record to another
\* is seen exactly when they are of different kinds, and books that agree with a
\* claim are accepted, true or not.
ConsistentFalsehoodMissed ==
  /\ status = "injecting" =>
       \A i, j \in DOMAIN records :
         i # j =>
           (records[i].kind = records[j].kind
              <=> RecordFaultMissed(
                    [Altered(i, records[i].value - 1)
                       EXCEPT ![j].value = records[j].value + 1]))
  /\ origin_detected = 0

\* Every vector the study writes is accepted by vaa reproduce, which does not run
\* the study: also one in which fewer faults were injected than the six that
\* reproduce then says were all detected.
WrittenVectorReproduces ==
  status = "done" =>
    /\ PopulationMatches(VectorOut)
    /\ Cardinality(unwrap(VectorOut.faults)) = 6 <=> Len(indices) > 1

\* Nothing the study does itself goes wrong: every record it anchored verifies and
\* comes back for its own position, and each of the six faults is detected.
HonestStudyPasses == status # "failed"
===============================================================================
