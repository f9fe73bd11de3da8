------------------------------- MODULE Evidence -------------------------------
(***************************************************************************)
(* What an auditor is promised, without shards, labels or proofs: a key    *)
(* stands for one leaf of one tree, the one it was last anchored for, and  *)
(* an audit of a disclosed record under the key yields evidence exactly    *)
(* when the record hashes to that leaf.  The only other way to evidence is *)
(* a collision of the hash of a pair.                                      *)
(***************************************************************************)
EXTENDS MerkleTree

CONSTANTS Key, Tree,
          Bundle,         \* what an auditor presents: a key, a disclosed
                          \* record, the leaf claimed for it, and a mode
          HashRecord(_)   \* double_sha256 of the record's bytes

VARIABLES committed,   \* key -> the tree and the index it was anchored for
          verdict      \* the last audit: its bundle, outcome and evidence

evars == <<committed, verdict>>

EInit ==
  /\ committed = <<>>
  /\ verdict = [bundle |-> {}, outcome |-> "none", evidence |-> {}]

Commit(key, leaves, index) ==
  /\ committed' = [k \in DOMAIN committed \cup {key} |->
                     IF k = key THEN [leaves |-> leaves, index |-> index]
                     ELSE committed[k]]
  /\ UNCHANGED verdict

WellFormed(bundle) ==
  /\ bundle.mode = "Adversarial"
  /\ HashRecord(bundle.record) = bundle.leaf

InPlace(bundle) ==
  LET place == committed[bundle.key] IN bundle.leaf = place.leaves[place.index]

EvidenceOf(bundle) ==
  LET place == committed[bundle.key] IN
  [merkle_root |-> MerkleRoot(place.leaves),
   leaf_index |-> place.index,
   disclosed_record |-> bundle.record]

Answer(bundle, outcome, evidence) ==
  /\ verdict' = [bundle |-> {bundle}, outcome |-> outcome, evidence |-> evidence]
  /\ UNCHANGED committed

Grant(bundle) ==
  /\ WellFormed(bundle)
  /\ bundle.key \in DOMAIN committed
  /\ LET place == committed[bundle.key] IN
       \/ InPlace(bundle)
       \/ Collides(place.leaves, MerkleProof(place.leaves, place.index), bundle.leaf)
  /\ Answer(bundle, "Ok", {EvidenceOf(bundle)})

RefuseMalformed(bundle) ==
  /\ ~ WellFormed(bundle)
  /\ \E outcome \in {"NonAdversarialMode", "RecordLeafMismatch"} :
       Answer(bundle, outcome, {})

RefuseUnknown(bundle) ==
  /\ WellFormed(bundle)
  /\ bundle.key \notin DOMAIN committed
  /\ Answer(bundle, "KeyNotFound", {})

RefuseMisplaced(bundle) ==
  /\ WellFormed(bundle)
  /\ bundle.key \in DOMAIN committed
  /\ ~ InPlace(bundle)
  /\ Answer(bundle, "RootMismatch", {})

ENext ==
  \/ \E key \in Key, leaves \in Tree : \E index \in DOMAIN leaves :
       Commit(key, leaves, index)
  \/ \E bundle \in Bundle : \/ Grant(bundle)
                            \/ RefuseMalformed(bundle)
                            \/ RefuseUnknown(bundle)
                            \/ RefuseMisplaced(bundle)

ESpec == EInit /\ [][ENext]_evars
===============================================================================
