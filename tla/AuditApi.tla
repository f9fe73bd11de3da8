------------------------------- MODULE AuditApi -------------------------------
(***************************************************************************)
(* The audit verifier of crates/api/src/lib.rs over a proof store that     *)
(* callers keep anchoring into.  What the caller does with the root is not *)
(* seen here: the chain is the business of CliWorkflow.                    *)
(* AuditVerifier::verify borrows the store for the whole call, so nothing  *)
(* is anchored between its query and its reconstruction.                   *)
(***************************************************************************)
EXTENDS ProofStore

CONSTANTS Record,          \* disclosed records
          HashRecord(_)    \* double_sha256 of the record's bytes

VARIABLES anchored,   \* history: the trees anchored so far
          verdict     \* of the last audit

avars == <<vars, anchored, verdict>>

\* AuditBundle: the claimed leaf is the hash of some record, maybe another.
Bundle ==
  [key : Key, record : Record, leaf : {HashRecord(record) : record \in Record},
   mode : {"Adversarial", "TrustedOperational"}]

AInit ==
  /\ Init
  /\ anchored = {}
  /\ verdict = [bundle |-> {}, outcome |-> "none", evidence |-> {}]

CallerAnchors(key, leaves, index) ==
  /\ Anchor(key, leaves, index)
  /\ anchored' = anchored \cup {leaves}
  /\ UNCHANGED verdict

\* Mutants: the record is not hashed; the root is not reconstructed.
OutcomeUnhashed(bundle) ==
  IF bundle.mode # "Adversarial" THEN "NonAdversarialMode"
  ELSE IF bundle.key \notin DOMAIN storage THEN "KeyNotFound"
  ELSE Verify(bundle.leaf, storage[bundle.key])

OutcomeUnreconstructed(bundle) ==
  IF bundle.mode # "Adversarial" THEN "NonAdversarialMode"
  ELSE IF HashRecord(bundle.record) # bundle.leaf THEN "RecordLeafMismatch"
  ELSE IF bundle.key \notin DOMAIN storage THEN "KeyNotFound"
  ELSE "Ok"

\* AuditVerifier::verify, check by check
Outcome(bundle) ==
  IF bundle.mode # "Adversarial" THEN "NonAdversarialMode"
  ELSE IF HashRecord(bundle.record) # bundle.leaf THEN "RecordLeafMismatch"
  ELSE IF bundle.key \notin DOMAIN storage THEN "KeyNotFound"
  ELSE Verify(bundle.leaf, storage[bundle.key])

AuditEvidence(bundle) ==
  LET stored == storage[bundle.key] IN
  [merkle_root |-> stored.expected_root, leaf_index |-> stored.leaf_index,
   disclosed_record |-> bundle.record]

Audit(bundle) ==
  /\ verdict' = [bundle |-> {bundle}, outcome |-> Outcome(bundle),
                 evidence |-> IF Outcome(bundle) = "Ok" THEN {AuditEvidence(bundle)}
                              ELSE {}]
  /\ UNCHANGED <<vars, anchored>>

ANext ==
  \/ \E key \in Key, leaves \in Tree : \E index \in DOMAIN leaves :
       CallerAnchors(key, leaves, index)
  \/ \E bundle \in Bundle : Audit(bundle)

ASpec == AInit /\ [][ANext]_avars

-------------------------------------------------------------------------------
(***************************************************************************)
(* Properties.                                                             *)
(***************************************************************************)
\* The verifier keeps the promise of Evidence: what a key was last anchored
\* for is what an audit under the key judges, whatever the predetermined
\* level, the shape of the tree and the keys anchored around it.
Promise == INSTANCE Evidence WITH committed <- origin

ImplementsEvidence == Promise!ESpec

\* Evidence stays true after its key is anchored again: the record's hash is
\* the leaf at the index the evidence names, in a tree that was anchored and
\* whose root it names (doc of AuditEvidence), or it exhibits a collision.
Witnessed(e, leaves) ==
  LET leaf == HashRecord(e.disclosed_record) IN
  /\ MerkleRoot(leaves) = e.merkle_root
  /\ e.leaf_index \in DOMAIN leaves
  /\ \/ leaves[e.leaf_index] = leaf
     \/ Collides(leaves, MerkleProof(leaves, e.leaf_index), leaf)

EvidenceWitnessesRecord ==
  \A e \in verdict.evidence : \E leaves \in anchored : Witnessed(e, leaves)
===============================================================================
