----------------------------- MODULE VectorChecks -----------------------------
(***************************************************************************)
(* What cmd_reproduce of crates/cli/src/main.rs asks of the two study      *)
(* vectors, and no study is run for it: the fields of a vector are         *)
(* compared with one another.                                              *)
(*                                                                         *)
(* A field read with as_u64, as_bool or as_array may be missing, or be of  *)
(* another type: an Option is a set of one element or of none.             *)
(***************************************************************************)
EXTENDS Integers

CONSTANT WordMax  \* u64::MAX, and usize::MAX

Some(x) == {x}

None == {}

unwrap_or(option, default) ==
  IF option = None THEN default ELSE CHOOSE x \in option : TRUE

unwrap(option) == CHOOSE x \in option : TRUE

\* study.storage_1024.  The product of two fields wraps, unless the build checks
\* overflows: then vaa panics.
FullBaseline(v) == unwrap(v.q_queries) * unwrap(v.tree_depth) * 32

StoragePanics(v) ==
  /\ None \notin {v.n_leaves, v.q_queries, v.tree_depth}
  /\ FullBaseline(v) > WordMax

\* A minimum that is missing counts as u64::MAX.
StorageMatches(v) ==
  /\ None \notin {v.n_leaves, v.q_queries, v.tree_depth, v.baseline_bytes_formula}
  /\ LET expected_baseline == FullBaseline(v) % (WordMax + 1) IN
       /\ unwrap(v.baseline_bytes_formula) = expected_baseline
       /\ v.minimum_viable_bytes # None
       /\ unwrap(v.minimum_viable_bytes) <= expected_baseline

\* A count that is missing counts as zero, so that an entry without any passes.
FaultMatches(f) ==
  /\ unwrap_or(f.detected, 0) = unwrap_or(f.injected, 0)
  /\ unwrap_or(f.false_positives_clean, 0) = 0

\* study.simstudy.  The list of faults may be short, or empty.
PopulationMatches(v) ==
  /\ v.m_records # None
  /\ v.roll_forward_holds = Some(TRUE)
  /\ v.faults # None
  /\ \A f \in unwrap(v.faults) : FaultMatches(f)
  /\ unwrap_or(v.origin_falsehood_detected, 99) = 0
===============================================================================
