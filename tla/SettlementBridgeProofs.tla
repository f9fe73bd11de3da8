------------------------ MODULE SettlementBridgeProofs ------------------------
(***************************************************************************)
(* Theorems about the command line and the scripts of the bridge, for      *)
(* every set of batches and records, every block and every explorer.       *)
(***************************************************************************)
EXTENDS SettlementBridge, MerkleTreeProofs

-------------------------------------------------------------------------------
(***************************************************************************)
(* Vectors of hashes, and as texts.                                        *)
(***************************************************************************)
\* The display of a hash is a text that decodes, to that hash.
LEMMA DisplayDecodes ==
  \A h : /\ Decodes(internal_to_display(h))
         /\ display_to_internal(internal_to_display(h)) = h
         /\ internal_to_display(h) # Malformed
<1>. SUFFICES ASSUME NEW h
              PROVE  /\ Decodes(internal_to_display(h))
                     /\ display_to_internal(internal_to_display(h)) = h
                     /\ internal_to_display(h) # Malformed
  OBVIOUS
<1>1. /\ DOMAIN internal_to_display(h) = {"reversed", "spelling"}
      /\ internal_to_display(h).reversed = h
  BY DEF internal_to_display
<1>2. "reversed" \notin DOMAIN Malformed
  BY DEF Malformed
<1>. QED BY <1>1, <1>2 DEF Decodes, display_to_internal

\* What is written in display order is read back.
LEMMA ReadDisplayed ==
  ASSUME NEW D, NEW v, v = [i \in D |-> v[i]]
  PROVE  /\ DOMAIN Displayed(v) = D
         /\ \A i \in D : Displayed(v)[i] = internal_to_display(v[i])
         /\ Read(Displayed(v)) = v
<1>1. DOMAIN v = D
  OBVIOUS
<1>2. /\ DOMAIN Displayed(v) = D
      /\ \A i \in D : Displayed(v)[i] = internal_to_display(v[i])
  BY <1>1 DEF Displayed
<1>3. Read(Displayed(v)) = [i \in D |-> v[i]]
  BY <1>2, DisplayDecodes DEF Read
<1>. QED BY <1>2, <1>3

\* Displayed vectors of one domain are equal when the vectors are.
LEMMA DisplayedInjective ==
  ASSUME NEW n, NEW v, IsVec(v, n), NEW m, NEW w, IsVec(w, m),
         Displayed(v) = Displayed(w)
  PROVE  v = w
<1>1. v = [i \in 0 .. n - 1 |-> v[i]] /\ w = [i \in 0 .. m - 1 |-> w[i]]
  BY DEF IsVec
<1>2. Read(Displayed(v)) = v /\ Read(Displayed(w)) = w
  BY <1>1, ReadDisplayed
<1>. QED BY <1>2

\* A vector that is not empty has a positive length.
LEMMA NonEmptyVec ==
  ASSUME NEW v, VecLen(v) \in Nat, IsVec(v, VecLen(v)), v # <<>>
  PROVE  VecLen(v) \in Nat \ {0} /\ DOMAIN v = 0 .. VecLen(v) - 1
<1>1. DOMAIN v = 0 .. VecLen(v) - 1
  BY DEF IsVec
<1>2. VecLen(v) # 0
  <2>. SUFFICES ASSUME VecLen(v) = 0 PROVE FALSE
    OBVIOUS
  <2>1. IsVec(v, 0) /\ IsVec(<<>>, 0) /\ 0 \in Nat /\ \A j \in 0 .. 0 - 1 : v[j] = <<>>[j]
    BY DEF IsVec
  <2>2. v = <<>>
    BY <2>1, VecExtensional
  <2>. QED BY <2>2
<1>. QED BY <1>1, <1>2

\* The hashes of a batch, one for one.
LEMMA LeavesShape ==
  ASSUME NEW n \in Nat, NEW batch, DOMAIN batch = 0 .. n - 1
  PROVE  /\ DOMAIN LeavesOf(batch) = 0 .. n - 1
         /\ VecLen(LeavesOf(batch)) = n
         /\ IsVec(LeavesOf(batch), n)
         /\ \A i \in 0 .. n - 1 : LeavesOf(batch)[i] = HashRecord(batch[i])
<1>1. LeavesOf(batch) = [i \in 0 .. n - 1 |-> HashRecord(batch[i])]
  BY DEF LeavesOf
<1>. HIDE DEF LeavesOf
<1>2. DOMAIN LeavesOf(batch) = 0 .. n - 1
  BY <1>1
<1>. QED BY <1>1, <1>2, VecLenOfDomain DEF IsVec

-------------------------------------------------------------------------------
(***************************************************************************)
(* The store a command makes.  Its operators are those of Shards and       *)
(* MerkleTree, in an instance.                                             *)
(***************************************************************************)
\* Reassembling and verifying are the same in the instance.
LEMMA SameStore ==
  ASSUME NEW map
  PROVE  /\ \A stored : Store(map)!Reassemble(stored) = Reassemble(stored)
         /\ \A proof, leaf, root :
              Store(map)!Verifies(proof, leaf, root) <=> Verifies(proof, leaf, root)
<1>1. \A S : Store(map)!Cardinality(S) = Cardinality(S)
  BY DEF Store!Cardinality, Cardinality
<1>2. \A v : Store(map)!VecLen(v) = VecLen(v)
  BY <1>1 DEF Store!VecLen, VecLen
<1>3. \A v, w : Store(map)!Extend(v, w) = Extend(v, w)
  BY <1>2 DEF Store!Extend, Extend
<1>4. \A shards : Store(map)!Concatenations(shards) = Concatenations(shards)
  BY <1>3 DEF Store!Concatenations, Concatenations
<1>5. \A s : Store(map)!Len(s) = Len(s)
  OBVIOUS
<1>6. \A shards : Store(map)!Concatenated(shards) = Concatenated(shards)
  BY <1>4, <1>5 DEF Store!Concatenated, Concatenated
<1>7. \A stored : Store(map)!Reassemble(stored) = Reassemble(stored)
  BY <1>6 DEF Store!Reassemble, Reassemble
<1>8. \A index : Store(map)!Shifted(index) = Shifted(index)
  BY DEF Store!Shifted, Shifted
<1>9. \A idx, x, y : Store(map)!HashUp(idx, x, y) = HashUp(idx, x, y)
  BY DEF Store!HashUp, HashUp
<1>10. \A proof, leaf : Store(map)!Walk(proof, leaf) = Walk(proof, leaf)
  BY <1>8, <1>9 DEF Store!Walk, Walk
<1>11. \A proof, leaf : Store(map)!ReconstructRoot(proof, leaf) = ReconstructRoot(proof, leaf)
  BY <1>2, <1>10 DEF Store!ReconstructRoot, ReconstructRoot
<1>12. \A proof, leaf, root :
         Store(map)!Verifies(proof, leaf, root) <=> Verifies(proof, leaf, root)
  BY <1>11 DEF Store!Verifies, Verifies
<1>. QED BY <1>7, <1>12

\* A store of one proof finds it at every level: vaa query, and the composed
\* check of vaa verify.
LEMMA StoreFinds ==
  ASSUME NEW n \in Nat \ {0}, NEW v, DOMAIN v = 0 .. n - 1,
         NEW index \in 0 .. n - 1, NEW level \in Nat, NEW key, NEW map
  PROVE  /\ DOMAIN StoreWith(key, v, index, level) = {key}
         /\ Store(map)!Verify(v[index], StoreWith(key, v, index, level)[key]) = "Ok"
<1>. DEFINE s == MerkleProof(v, index).siblings
            stored == StoreWith(key, v, index, level)[key]
<1>1. /\ DOMAIN StoreWith(key, v, index, level) = {key}
      /\ stored.leaf_index = index
      /\ stored.shards = ShardProof(s, level)
      /\ stored.expected_root = MerkleRoot(v)
  BY DEF StoreWith
<1>2. Concatenated(ShardProof(s, level)) = s
  <2>1. s = SiblingsOf(v, index)
    BY DEF MerkleProof
  <2>2. Height(v) \in Nat
    BY HeightShape
  <2>. HIDE DEF s
  <2>3. IsVec(s, Height(v))
    BY <2>1, <2>2, SiblingsShape
  <2>. QED BY <2>2, <2>3, ConcatenatedShards
<1>3. Reassemble(stored) = MerkleProof(v, index)
  <2>1. Reassemble(stored) = [leaf_index |-> index, siblings |-> s]
    <3>. HIDE DEF s, stored
    <3>. QED BY <1>1, <1>2 DEF Reassemble
  <2>. QED BY <2>1 DEF MerkleProof
<1>4. Verifies(MerkleProof(v, index), v[index], MerkleRoot(v))
  BY MerkleRoundTrip
<1>. HIDE DEF stored, s
<1>5. Store(map)!Verifies(Store(map)!Reassemble(stored), v[index], stored.expected_root)
  BY <1>1, <1>3, <1>4, SameStore
<1>6. Store(map)!Verify(v[index], stored) = "Ok"
  BY <1>5 DEF Store!Verify
<1>. QED BY <1>1, <1>6 DEF stored

-------------------------------------------------------------------------------
(***************************************************************************)
(* vaa prove and vaa verify.                                               *)
(***************************************************************************)
\* The composed check asks for no more than that the record hashes to the leaf:
\* it runs over a store of that leaf.
LEMMA AuditPasses ==
  ASSUME NEW file, HashRecord(file.record) = display_to_internal(file.leaf)
  PROVE  Store(AuditStore(file))!Outcome(AuditBundle(file)) = "Ok"
<1>. DEFINE leaf == display_to_internal(file.leaf)
            key == KeyFor(leaf, file.leaf_index)
            v == [i \in {0} |-> leaf]
            map == StoreWith(key, v, 0, 0)
            audited == AuditBundle(file)
<1>1. AuditStore(file) = map
  BY DEF AuditStore
<1>2. /\ audited.key = key /\ audited.record = file.record /\ audited.leaf = leaf
      /\ audited.mode = "Adversarial"
  BY DEF AuditBundle
<1>3. DOMAIN map = {key} /\ Store(map)!Verify(leaf, map[key]) = "Ok"
  <2>1. 1 \in Nat \ {0} /\ DOMAIN v = 0 .. 1 - 1 /\ 0 \in 0 .. 1 - 1 /\ 0 \in Nat
        /\ v[0] = leaf
    OBVIOUS
  <2>. HIDE DEF v, leaf, key
  <2>2. /\ DOMAIN StoreWith(key, v, 0, 0) = {key}
        /\ Store(map)!Verify(v[0], StoreWith(key, v, 0, 0)[key]) = "Ok"
    <3>1. PICK n : n = 1
      OBVIOUS
    <3>2. n \in Nat \ {0} /\ DOMAIN v = 0 .. n - 1 /\ 0 \in 0 .. n - 1 /\ 0 \in Nat
      BY <2>1, <3>1
    <3>3. \A level \in Nat : \A k, m :
            /\ DOMAIN StoreWith(k, v, 0, level) = {k}
            /\ Store(m)!Verify(v[0], StoreWith(k, v, 0, level)[k]) = "Ok"
      BY <3>2, StoreFinds, ZenonT(40)
    <3>. HIDE DEF map, audited
    <3>. QED BY <3>2, <3>3
  <2>. QED BY <2>1, <2>2
<1>. HIDE DEF map, audited, key, leaf
<1>4. Store(map)!Outcome(audited) = "Ok"
  <2>1. audited.key \in DOMAIN map
    BY <1>2, <1>3
  <2>2. HashRecord(audited.record) = audited.leaf
    BY <1>2 DEF leaf
  <2>3. Store(map)!Verify(audited.leaf, map[audited.key]) = "Ok"
    BY <1>2, <1>3
  <2>. QED BY <1>2, <2>1, <2>2, <2>3 DEF Store!Outcome
<1>. QED BY <1>1, <1>4 DEF audited

\* What vaa verify asks of a bundle.
Passes(file) ==
  /\ file.version = 2
  /\ Decodes(file.leaf) /\ Decodes(file.root)
  /\ \A j \in DOMAIN file.siblings : Decodes(file.siblings[j])
  /\ Verifies(ProofOf(file), display_to_internal(file.leaf),
              display_to_internal(file.root))
  /\ file.record # Malformed
  /\ HashRecord(file.record) = display_to_internal(file.leaf)
  /\ ~ (file.leaf_index > U32Max)

LEMMA VerificationOk ==
  ASSUME NEW file
  PROVE  Verification(file) = "Ok" <=> Passes(file)
<1>1. HashRecord(file.record) = display_to_internal(file.leaf) =>
        Store(AuditStore(file))!Outcome(AuditBundle(file)) = "Ok"
  BY AuditPasses
<1>. QED BY <1>1 DEF Verification, Passes

\* The fields of a bundle: those of the Merkle proof, in display order.
LEMMA BundleFields ==
  ASSUME NEW n \in Nat \ {0}, NEW batch, DOMAIN batch = 0 .. n - 1,
         NEW index \in 0 .. n - 1
  PROVE  LET file == ProofBundle(batch, index)
             v == LeavesOf(batch)
         IN  /\ file.version = 2
             /\ file.root = internal_to_display(MerkleRoot(v))
             /\ file.leaf = internal_to_display(HashRecord(batch[index]))
             /\ file.leaf_index = index
             /\ file.record = batch[index]
             /\ DOMAIN file.siblings = 0 .. Height(v) - 1
             /\ \A j \in 0 .. Height(v) - 1 :
                  file.siblings[j] = internal_to_display(SiblingsOf(v, index)[j])
             /\ ProofOf(file) = MerkleProof(v, index)
<1>. DEFINE file == ProofBundle(batch, index)
            v == LeavesOf(batch)
            s == SiblingsOf(v, index)
<1>1. /\ DOMAIN v = 0 .. n - 1 /\ v[index] = HashRecord(batch[index])
  BY LeavesShape
<1>2. Height(v) \in Nat
  <2>. HIDE DEF v
  <2>. QED BY <1>1, HeightShape
<1>3. s = [j \in 0 .. Height(v) - 1 |-> s[j]]
  <2>. HIDE DEF v
  <2>1. IsVec(s, Height(v))
    BY <1>2, SiblingsShape
  <2>. HIDE DEF s
  <2>. QED BY <2>1 DEF IsVec
<1>4. /\ file.version = 2
      /\ file.root = internal_to_display(MerkleRoot(v))
      /\ file.leaf = internal_to_display(v[index])
      /\ file.leaf_index = index
      /\ file.record = batch[index]
      /\ file.siblings = Displayed(s)
  BY DEF ProofBundle, MerkleProof
<1>. HIDE DEF file, v, s
<1>5. /\ DOMAIN Displayed(s) = 0 .. Height(v) - 1
      /\ \A j \in 0 .. Height(v) - 1 : Displayed(s)[j] = internal_to_display(s[j])
      /\ Read(Displayed(s)) = s
  BY <1>3, ReadDisplayed
<1>6. ProofOf(file) = MerkleProof(v, index)
  BY <1>4, <1>5 DEF ProofOf, MerkleProof, s
<1>. QED BY <1>1, <1>4, <1>5, <1>6 DEF file, v, s

\* A bundle as vaa prove makes it passes vaa verify.
LEMMA MadeBundlePasses ==
  ASSUME NEW n \in Nat \ {0}, NEW batch, DOMAIN batch = 0 .. n - 1,
         NEW index \in 0 .. n - 1, index <= U32Max, batch[index] # Malformed
  PROVE  Verification(ProofBundle(batch, index)) = "Ok"
<1>. DEFINE file == ProofBundle(batch, index)
            v == LeavesOf(batch)
<1>1. /\ file.version = 2
      /\ file.root = internal_to_display(MerkleRoot(v))
      /\ file.leaf = internal_to_display(HashRecord(batch[index]))
      /\ file.leaf_index = index
      /\ file.record = batch[index]
      /\ DOMAIN file.siblings = 0 .. Height(v) - 1
      /\ \A j \in 0 .. Height(v) - 1 :
           file.siblings[j] = internal_to_display(SiblingsOf(v, index)[j])
      /\ ProofOf(file) = MerkleProof(v, index)
  BY BundleFields
<1>2. Verifies(MerkleProof(v, index), HashRecord(batch[index]), MerkleRoot(v))
  <2>1. DOMAIN v = 0 .. n - 1 /\ v[index] = HashRecord(batch[index])
    BY LeavesShape
  <2>. HIDE DEF v
  <2>. QED BY <2>1, MerkleRoundTrip
<1>. HIDE DEF file, v
<1>3. Decodes(file.leaf) /\ Decodes(file.root)
      /\ \A j \in DOMAIN file.siblings : Decodes(file.siblings[j])
  BY <1>1, DisplayDecodes
<1>4. /\ display_to_internal(file.leaf) = HashRecord(batch[index])
      /\ display_to_internal(file.root) = MerkleRoot(v)
  BY <1>1, DisplayDecodes
<1>5. ~ (index > U32Max)
  BY PositionAssumption
<1>6. Passes(file)
  BY <1>1, <1>2, <1>3, <1>4, <1>5 DEF Passes
<1>. QED BY <1>6, VerificationOk DEF file

-------------------------------------------------------------------------------
(***************************************************************************)
(* The inductive invariant.                                                *)
(***************************************************************************)
\* The leaves file is made from some batch, maybe not the one in the records
\* file now.
FilesInv ==
  /\ records \in Batch
  /\ leaves # <<>> => \E batch \in Batch : leaves = Displayed(LeavesOf(batch))

\* A root is printed and put on the chain together with the leaves it is of.
ChainInv ==
  /\ \A p \in printed : \E batch \in Batch \ {<<>>} :
       p = [root |-> internal_to_display(MerkleRoot(LeavesOf(batch))),
            from |-> Displayed(LeavesOf(batch))]
  /\ \A root \in chain : \E batch \in Batch \ {<<>>} :
       /\ root = MerkleRoot(LeavesOf(batch))
       /\ Displayed(LeavesOf(batch)) \in anchored

\* A bundle is one that vaa prove made, altered once or not at all.
Sent(sent) ==
  /\ sent = [file |-> sent.file, made |-> sent.made, from |-> sent.from]
  /\ sent.from \in Batch
  /\ \E index \in DOMAIN sent.from : sent.made = ProofBundle(sent.from, index)
  /\ sent.file = sent.made \/ sent.file \in Alterations(sent.made)

BundleInv ==
  /\ \A sent \in bundle : Sent(sent)
  /\ \A sent, other \in bundle : sent = other

\* The result of a script is that of its arguments, which it keeps.
Scripted(e) ==
  /\ result.command = "anchor-records" =>
       /\ e.batch \in Batch /\ e.index \in Nat
       /\ result.outcome = RecordsOutcome(e.batch, e.index)
  /\ result.command = "verify-bsv-block" =>
       e \in Reply /\ result.outcome = BlockOutcome(e)
  /\ result.command = "from-settlement" =>
       e.answer \in Reply /\ result.outcome = SettlementOutcome(e.txid, e.answer)

ResultInv ==
  /\ result.command = "verify" =>
       \E sent \in bundle : result.outcome = Verification(sent.file)
  /\ result.command = "query" => result.outcome \in {"Ok", "OutOfRange"}
  /\ result.command \in {"anchor-records", "verify-bsv-block", "from-settlement"} =>
       \A e \in result.evidence : Scripted(e)

IInv == FilesInv /\ ChainInv /\ BundleInv /\ ResultInv

\* A batch that is not empty is a tree, and each of its positions a u32.
LEMMA BatchShape ==
  ASSUME NEW batch \in Batch, batch # <<>>
  PROVE  /\ VecLen(batch) \in Nat \ {0}
         /\ DOMAIN batch = 0 .. VecLen(batch) - 1
         /\ \A i \in DOMAIN batch : i <= U32Max /\ batch[i] \in Record
<1>1. /\ VecLen(batch) \in Nat /\ IsVec(batch, VecLen(batch))
      /\ \A i \in DOMAIN batch : batch[i] \in Record
  BY BatchAssumption
<1>2. VecLen(batch) \in Nat \ {0} /\ DOMAIN batch = 0 .. VecLen(batch) - 1
  BY <1>1, NonEmptyVec
<1>3. ASSUME NEW i \in DOMAIN batch PROVE i <= U32Max
  <2>1. U32Max \in Nat /\ VecLen(batch) - 1 <= U32Max
    BY PositionAssumption
  <2>2. i \in Int /\ i <= VecLen(batch) - 1
    BY <1>2
  <2>. QED BY <1>1, <2>1, <2>2
<1>. QED BY <1>1, <1>2, <1>3

\* A batch within which there is a position is not empty.
LEMMA BatchOfPosition ==
  ASSUME NEW batch, NEW i \in DOMAIN batch
  PROVE  batch # <<>>
OBVIOUS

\* The leaves file is empty exactly when it was made from no records.
LEMMA EmptyLeaves ==
  ASSUME NEW batch \in Batch, Displayed(LeavesOf(batch)) # <<>>
  PROVE  batch # <<>>
<1>. SUFFICES ASSUME batch = <<>> PROVE FALSE
  OBVIOUS
<1>. DEFINE v == Displayed(LeavesOf(batch))
<1>1. DOMAIN batch = {}
  OBVIOUS
<1>2. DOMAIN v = {} /\ v = [i \in {} |-> v[i]]
  BY <1>1 DEF Displayed, LeavesOf
<1>3. IsVec(v, 0) /\ IsVec(<<>>, 0) /\ \A j \in 0 .. 0 - 1 : v[j] = <<>>[j]
  <2>1. 0 .. 0 - 1 = {}
    OBVIOUS
  <2>. HIDE DEF v
  <2>. QED BY <1>2, <2>1 DEF IsVec
<1>. HIDE DEF v
<1>4. v = <<>>
  BY <1>3, VecExtensional
<1>. QED BY <1>4 DEF v

\* A result of none of the commands that the properties are about.
LEMMA OtherResult ==
  ASSUME NEW command, command \in {"none", "anchor", "prove"}, NEW outcome,
         result' = Result(command, outcome, {})
  PROVE  ResultInv'
BY DEF Result, ResultInv

LEMMA NoResultInv == ASSUME result' = NoResult PROVE ResultInv'
BY DEF NoResult, ResultInv

\* The environment and the commands that only print.
LEMMA FilesPreserve ==
  ASSUME IInv, \/ \E batch \in Batch : EditRecords(batch)
               \/ WriteLeaves
               \/ AnchorFails
               \/ \E index \in 0 .. MaxIndex : ProveFails(index)
  PROVE  IInv'
<1>1. ASSUME NEW batch \in Batch, EditRecords(batch) PROVE IInv'
  <2>1. ResultInv'
    BY <1>1, NoResultInv DEF EditRecords
  <2>2. FilesInv'
    BY <1>1 DEF IInv, EditRecords, FilesInv
  <2>3. ChainInv' /\ BundleInv'
    BY <1>1 DEF IInv, EditRecords, ChainInv, BundleInv
  <2>. QED BY <2>1, <2>2, <2>3 DEF IInv
<1>2. ASSUME WriteLeaves PROVE IInv'
  <2>1. ResultInv'
    BY <1>2, NoResultInv DEF WriteLeaves
  <2>2. FilesInv'
    BY <1>2 DEF IInv, WriteLeaves, FilesInv
  <2>3. ChainInv' /\ BundleInv'
    BY <1>2 DEF IInv, WriteLeaves, ChainInv, BundleInv
  <2>. QED BY <2>1, <2>2, <2>3 DEF IInv
<1>3. ASSUME AnchorFails PROVE IInv'
  <2>1. ResultInv'
    BY <1>3, OtherResult DEF AnchorFails
  <2>2. FilesInv' /\ ChainInv' /\ BundleInv'
    BY <1>3 DEF IInv, AnchorFails, FilesInv, ChainInv, BundleInv
  <2>. QED BY <2>1, <2>2 DEF IInv
<1>4. ASSUME NEW index, ProveFails(index) PROVE IInv'
  <2>1. ResultInv'
    BY <1>4, OtherResult DEF ProveFails
  <2>2. FilesInv' /\ ChainInv' /\ BundleInv'
    BY <1>4 DEF IInv, ProveFails, FilesInv, ChainInv, BundleInv
  <2>. QED BY <2>1, <2>2 DEF IInv
<1>. QED BY <1>1, <1>2, <1>3, <1>4

\* vaa anchor prints the root of the leaves it read.
LEMMA AnchorPreserves ==
  ASSUME IInv, Anchor
  PROVE  IInv'
<1>1. PICK batch \in Batch : leaves = Displayed(LeavesOf(batch))
  BY DEF IInv, FilesInv, Anchor
<1>2. batch # <<>>
  BY <1>1, EmptyLeaves DEF Anchor
<1>3. load_leaves = LeavesOf(batch)
  <2>1. LeavesOf(batch) = [i \in DOMAIN batch |-> LeavesOf(batch)[i]]
    BY DEF LeavesOf
  <2>2. Read(Displayed(LeavesOf(batch))) = LeavesOf(batch)
    BY <2>1, ReadDisplayed
  <2>. QED BY <1>1, <2>2 DEF load_leaves
<1>4. printed' = {[root |-> internal_to_display(MerkleRoot(LeavesOf(batch))),
                   from |-> Displayed(LeavesOf(batch))]}
  BY <1>1, <1>3 DEF Anchor
<1>5. ChainInv'
  BY <1>2, <1>4 DEF IInv, ChainInv, Anchor
<1>6. ResultInv'
  BY OtherResult DEF Anchor
<1>7. FilesInv' /\ BundleInv'
  BY DEF IInv, Anchor, FilesInv, BundleInv
<1>. QED BY <1>5, <1>6, <1>7 DEF IInv

\* The accountant puts the printed root on the chain.
LEMMA PutOnChainPreserves ==
  ASSUME IInv, PutOnChain
  PROVE  IInv'
<1>1. PICK p \in printed : /\ chain' = chain \cup {display_to_internal(p.root)}
                           /\ anchored' = anchored \cup {p.from}
  BY DEF PutOnChain
<1>2. PICK batch \in Batch \ {<<>>} :
        p = [root |-> internal_to_display(MerkleRoot(LeavesOf(batch))),
             from |-> Displayed(LeavesOf(batch))]
  BY DEF IInv, ChainInv
<1>3. display_to_internal(p.root) = MerkleRoot(LeavesOf(batch))
      /\ p.from = Displayed(LeavesOf(batch))
  BY <1>2, DisplayDecodes
<1>4. ChainInv'
  <2>1. printed' = printed
    BY DEF PutOnChain
  <2>2. ASSUME NEW root \in chain'
        PROVE  \E b \in Batch \ {<<>>} : /\ root = MerkleRoot(LeavesOf(b))
                                         /\ Displayed(LeavesOf(b)) \in anchored'
    BY <1>1, <1>3, <2>2 DEF IInv, ChainInv
  <2>. QED BY <2>1, <2>2 DEF IInv, ChainInv
<1>5. ResultInv'
  BY NoResultInv DEF PutOnChain
<1>6. FilesInv' /\ BundleInv'
  BY DEF IInv, PutOnChain, FilesInv, BundleInv
<1>. QED BY <1>4, <1>5, <1>6 DEF IInv

\* vaa prove replaces the bundle by one of the records as they are.
LEMMA ProvePreserves ==
  ASSUME IInv, NEW index \in 0 .. MaxIndex, Prove(index)
  PROVE  IInv'
<1>. DEFINE file == ProofBundle(records, index)
            sent == [file |-> file, made |-> file, from |-> records]
<1>1. bundle' = {sent}
  BY DEF Prove
<1>2. index \in DOMAIN records
  <2>1. records \in Batch
    BY DEF IInv, FilesInv
  <2>2. VecLen(records) \in Nat /\ IsVec(records, VecLen(records))
    BY <2>1, BatchAssumption
  <2>3. DOMAIN records = 0 .. VecLen(records) - 1
    BY <2>2, VecShape
  <2>4. index < VecLen(records) /\ MaxIndex \in Nat
    BY PositionAssumption DEF Prove
  <2>. QED BY <2>2, <2>3, <2>4
<1>3. Sent(sent)
  <2>1. sent.file = file /\ sent.made = file /\ sent.from = records
    OBVIOUS
  <2>2. records \in Batch
    BY DEF IInv, FilesInv
  <2>. HIDE DEF file
  <2>. QED BY <1>2, <2>1, <2>2 DEF Sent, file
<1>. HIDE DEF sent
<1>4. BundleInv'
  BY <1>1, <1>3 DEF BundleInv
<1>5. ResultInv'
  BY OtherResult DEF Prove
<1>6. FilesInv' /\ ChainInv'
  BY DEF IInv, Prove, FilesInv, ChainInv
<1>. QED BY <1>4, <1>5, <1>6 DEF IInv

\* A bundle is altered only when it is as it was made.
LEMMA AlterBundlePreserves ==
  ASSUME IInv, AlterBundle
  PROVE  IInv'
<1>1. PICK sent \in bundle :
        /\ sent.file = sent.made
        /\ \E file \in Alterations(sent.file) : bundle' = {[sent EXCEPT !.file = file]}
  BY DEF AlterBundle
<1>2. PICK file \in Alterations(sent.made) : bundle' = {[sent EXCEPT !.file = file]}
  BY <1>1
<1>. DEFINE new == [sent EXCEPT !.file = file]
<1>3. Sent(sent)
  BY DEF IInv, BundleInv
<1>4. /\ new = [file |-> file, made |-> sent.made, from |-> sent.from]
      /\ new.file = file /\ new.made = sent.made /\ new.from = sent.from
  <2>1. sent = [file |-> sent.file, made |-> sent.made, from |-> sent.from]
    BY <1>3 DEF Sent
  <2>. QED BY <2>1
<1>5. Sent(new)
  <2>. HIDE DEF new
  <2>. QED BY <1>2, <1>3, <1>4 DEF Sent
<1>. HIDE DEF new
<1>6. BundleInv'
  BY <1>2, <1>5 DEF BundleInv, new
<1>7. ResultInv'
  BY NoResultInv DEF AlterBundle
<1>8. FilesInv' /\ ChainInv'
  BY DEF IInv, AlterBundle, FilesInv, ChainInv
<1>. QED BY <1>6, <1>7, <1>8 DEF IInv

\* vaa verify keeps the verdict on the bundle it read.
LEMMA VerifyPreserves ==
  ASSUME IInv, Verify
  PROVE  IInv'
<1>1. PICK sent \in bundle :
        \E evidence : result' = Result("verify", Verification(sent.file), evidence)
  BY DEF Verify
<1>2. UNCHANGED <<records, leaves, printed, chain, anchored, bundle>>
  BY DEF Verify
<1>3. ResultInv'
  BY <1>1, <1>2 DEF Result, ResultInv
<1>4. FilesInv' /\ ChainInv' /\ BundleInv'
  BY <1>2 DEF IInv, FilesInv, ChainInv, BundleInv
<1>. QED BY <1>3, <1>4 DEF IInv

\* vaa query finds every record there is, at every level.
LEMMA QueryPreserves ==
  ASSUME IInv, NEW index \in 0 .. MaxIndex, NEW level \in 0 .. MaxLevel,
         Query(index, level)
  PROVE  IInv'
<1>1. UNCHANGED <<records, leaves, printed, chain, anchored, bundle>>
      /\ result' = Result("query", QueryOutcome(index, level), {})
  BY DEF Query
<1>2. QueryOutcome(index, level) \in {"Ok", "OutOfRange"}
  <2>. SUFFICES ASSUME ~ (index >= VecLen(records))
                PROVE  QueryOutcome(index, level) = "Ok"
    BY DEF QueryOutcome
  <2>. DEFINE n == VecLen(records)
              v == LeavesOf(records)
              key == KeyFor(v[index], index)
              map == StoreWith(key, v, index, level)
  <2>1. records \in Batch
    BY DEF IInv, FilesInv
  <2>2. n \in Nat /\ IsVec(records, n) /\ n - 1 <= U32Max /\ U32Max \in Nat
        /\ MaxIndex \in Nat /\ MaxLevel \in Nat
    BY <2>1, BatchAssumption, PositionAssumption
  <2>3. index \in Nat /\ level \in Nat
    BY <2>2
  <2>4. n \in Nat \ {0} /\ index \in 0 .. n - 1 /\ ~ (index > U32Max)
    BY <2>2, <2>3
  <2>5. DOMAIN records = 0 .. n - 1
    BY <2>2, VecShape
  <2>6. DOMAIN v = 0 .. n - 1
    BY <2>2, <2>5, LeavesShape
  <2>7. Store(map)!Verify(v[index], StoreWith(key, v, index, level)[key]) = "Ok"
    <3>. HIDE DEF n, v
    <3>1. \A k, m :
            /\ DOMAIN StoreWith(k, v, index, level) = {k}
            /\ Store(m)!Verify(v[index], StoreWith(k, v, index, level)[k]) = "Ok"
      <4>1. n \in Nat \ {0} /\ DOMAIN v = 0 .. n - 1 /\ index \in 0 .. n - 1 /\ level \in Nat
        BY <2>3, <2>4, <2>6
      <4>. HIDE DEF key, map
      <4>. QED BY <4>1, StoreFinds, ZenonT(40)
    <3>. QED BY <3>1
  <2>. QED BY <2>4, <2>7 DEF QueryOutcome
<1>3. ResultInv'
  BY <1>1, <1>2 DEF Result, ResultInv
<1>4. FilesInv' /\ ChainInv' /\ BundleInv'
  BY <1>1 DEF IInv, FilesInv, ChainInv, BundleInv
<1>. QED BY <1>3, <1>4 DEF IInv

\* A script keeps its arguments and its outcome, and changes nothing else.
LEMMA ScriptPreserves ==
  ASSUME IInv,
         \/ \E batch \in Batch, index \in 0 .. MaxIndex : AnchorRecords(batch, index)
         \/ \E answer \in Reply : \/ VerifyBlock(answer)
                                  \/ \E txid \in Txid : FromSettlement(txid, answer)
  PROVE  IInv'
<1>1. FilesInv' /\ ChainInv' /\ BundleInv'
  <2>1. Apart
    BY DEF AnchorRecords, VerifyBlock, FromSettlement
  <2>. QED BY <2>1 DEF Apart, IInv, FilesInv, ChainInv, BundleInv
<1>2. ASSUME NEW batch \in Batch, NEW index \in 0 .. MaxIndex, AnchorRecords(batch, index)
      PROVE  ResultInv'
  <2>1. index \in Nat
    BY PositionAssumption
  <2>. QED BY <1>2, <2>1 DEF AnchorRecords, Result, ResultInv, Scripted
<1>3. ASSUME NEW answer \in Reply, VerifyBlock(answer)
      PROVE  ResultInv'
  BY <1>3 DEF VerifyBlock, Result, ResultInv, Scripted
<1>4. ASSUME NEW answer \in Reply, NEW txid, FromSettlement(txid, answer)
      PROVE  ResultInv'
  BY <1>4 DEF FromSettlement, Result, ResultInv, Scripted
<1>. QED BY <1>1, <1>2, <1>3, <1>4 DEF IInv

LEMMA NextPreserves == IInv /\ [BNext]_vars => IInv'
<1>. SUFFICES ASSUME IInv, [BNext]_vars PROVE IInv'
  OBVIOUS
<1>1. CASE UNCHANGED vars
  BY <1>1 DEF vars, IInv, FilesInv, ChainInv, BundleInv, ResultInv, Scripted
<1>2. CASE Next
  BY <1>2, FilesPreserve, AnchorPreserves, PutOnChainPreserves, ProvePreserves,
     AlterBundlePreserves, VerifyPreserves, QueryPreserves DEF Next
<1>. QED BY <1>1, <1>2, ScriptPreserves DEF BNext

LEMMA Invariance == BSpec => []IInv
<1>1. Init => IInv
  BY DEF Init, IInv, FilesInv, ChainInv, BundleInv, ResultInv, NoResult
<1>. QED BY <1>1, NextPreserves, PTL DEF BSpec

-------------------------------------------------------------------------------
(***************************************************************************)
(* Honest commands.                                                        *)
(***************************************************************************)
\* What a bundle was made of.
LEMMA MadeOf ==
  ASSUME IInv, NEW sent \in bundle
  PROVE  LET n == VecLen(sent.from) IN
         /\ n \in Nat \ {0} /\ DOMAIN sent.from = 0 .. n - 1
         /\ \A i \in 0 .. n - 1 : i <= U32Max /\ sent.from[i] \in Record
         /\ \E index \in 0 .. n - 1 : sent.made = ProofBundle(sent.from, index)
         /\ sent.file = sent.made \/ sent.file \in Alterations(sent.made)
<1>1. Sent(sent)
  BY DEF IInv, BundleInv
<1>2. PICK index \in DOMAIN sent.from : sent.made = ProofBundle(sent.from, index)
  BY <1>1 DEF Sent
<1>3. sent.from \in Batch /\ sent.from # <<>>
  BY <1>1, <1>2, BatchOfPosition DEF Sent
<1>. QED BY <1>1, <1>2, <1>3, BatchShape DEF Sent

\* Whatever the batches and the files, vaa anchor and vaa prove agree on the
\* root of one batch, a bundle that arrives as it was made is accepted, and
\* vaa query finds every record: the commands of crates/cli/src/main.rs.
THEOREM HonestCommandsAlwaysSucceed == BSpec => []HonestCommandsSucceed
<1>1. IInv => HonestCommandsSucceed
  <2>. SUFFICES ASSUME IInv PROVE HonestCommandsSucceed
    OBVIOUS
  <2>1. ASSUME NEW sent \in bundle, NEW p \in printed,
               Displayed(LeavesOf(sent.from)) = p.from
        PROVE  sent.made.root = p.root
    <3>1. PICK batch \in Batch \ {<<>>} :
            p = [root |-> internal_to_display(MerkleRoot(LeavesOf(batch))),
                 from |-> Displayed(LeavesOf(batch))]
      BY DEF IInv, ChainInv
    <3>2. VecLen(batch) \in Nat /\ DOMAIN batch = 0 .. VecLen(batch) - 1
      BY BatchShape
    <3>3. /\ VecLen(sent.from) \in Nat \ {0} /\ DOMAIN sent.from = 0 .. VecLen(sent.from) - 1
          /\ \E index \in 0 .. VecLen(sent.from) - 1 : sent.made = ProofBundle(sent.from, index)
      BY MadeOf
    <3>4. PICK index \in 0 .. VecLen(sent.from) - 1 : sent.made = ProofBundle(sent.from, index)
      BY <3>3
    <3>5. LeavesOf(sent.from) = LeavesOf(batch)
      <4>1. Displayed(LeavesOf(sent.from)) = Displayed(LeavesOf(batch))
        BY <2>1, <3>1
      <4>2. /\ IsVec(LeavesOf(sent.from), VecLen(sent.from))
            /\ IsVec(LeavesOf(batch), VecLen(batch))
        BY <3>2, <3>3, LeavesShape
      <4>. QED BY <4>1, <4>2, DisplayedInjective
    <3>6. sent.made.root = internal_to_display(MerkleRoot(LeavesOf(sent.from)))
      BY <3>3, <3>4, BundleFields
    <3>. QED BY <3>1, <3>5, <3>6
  <2>2. ASSUME result.command = "verify", result.outcome # "Ok"
        PROVE  \E sent \in bundle : sent.file # sent.made
    <3>1. PICK sent \in bundle : result.outcome = Verification(sent.file)
      BY <2>2 DEF IInv, ResultInv
    <3>. SUFFICES ASSUME sent.file = sent.made PROVE FALSE
      OBVIOUS
    <3>2. /\ VecLen(sent.from) \in Nat \ {0} /\ DOMAIN sent.from = 0 .. VecLen(sent.from) - 1
          /\ \A i \in 0 .. VecLen(sent.from) - 1 : i <= U32Max /\ sent.from[i] \in Record
          /\ \E index \in 0 .. VecLen(sent.from) - 1 : sent.made = ProofBundle(sent.from, index)
      BY MadeOf
    <3>3. PICK index \in 0 .. VecLen(sent.from) - 1 : sent.made = ProofBundle(sent.from, index)
      BY <3>2
    <3>4. Verification(sent.made) = "Ok"
      BY <3>2, <3>3, RecordAssumption, MadeBundlePasses
    <3>. QED BY <2>2, <3>1, <3>4
  <2>3. result.command = "query" => result.outcome \in {"Ok", "OutOfRange"}
    BY DEF IInv, ResultInv
  <2>. QED BY <2>1, <2>2, <2>3 DEF HonestCommandsSucceed
<1>. QED BY <1>1, Invariance, PTL

-------------------------------------------------------------------------------
(***************************************************************************)
(* The scripts of the bridge.                                              *)
(***************************************************************************)
\* list.index finds the first occurrence, when there is one.
LEMMA FirstIndexFinds ==
  ASSUME NEW n \in Nat, NEW texts, DOMAIN texts = 0 .. n - 1,
         NEW txid, NEW i \in 0 .. n - 1, texts[i] = txid
  PROVE  /\ FirstIndex(txid, texts) \in 0 .. n - 1
         /\ texts[FirstIndex(txid, texts)] = txid
         /\ \A j \in 0 .. FirstIndex(txid, texts) - 1 : texts[j] # txid
<1>. DEFINE First(k) == texts[k] = txid /\ \A j \in 0 .. k - 1 : texts[j] # txid
            S == {k \in Nat : \/ \E f \in 0 .. k : First(f)
                              \/ \A j \in 0 .. k : texts[j] # txid}
<1>1. 0 \in S
  <2>1. 0 .. 0 = {0} /\ 0 .. 0 - 1 = {}
    OBVIOUS
  <2>. QED BY <2>1
<1>2. ASSUME NEW k \in Nat, k \in S PROVE k + 1 \in S
  <2>1. k + 1 \in Nat /\ \A j \in 0 .. k + 1 : j \in 0 .. k \/ j = k + 1
    OBVIOUS
  <2>2. CASE \E f \in 0 .. k : First(f)
    <3>1. PICK f \in 0 .. k : First(f)
      BY <2>2
    <3>2. f \in 0 .. k + 1
      OBVIOUS
    <3>. HIDE DEF First
    <3>. QED BY <2>1, <3>1, <3>2
  <2>3. CASE \A j \in 0 .. k : texts[j] # txid
    <3>1. (k + 1) - 1 = k /\ k + 1 \in 0 .. k + 1
      OBVIOUS
    <3>2. CASE texts[k + 1] = txid
      <4>1. First(k + 1)
        BY <2>3, <3>1, <3>2
      <4>. HIDE DEF First
      <4>. QED BY <2>1, <3>1, <4>1
    <3>3. CASE texts[k + 1] # txid
      BY <2>1, <2>3, <3>3
    <3>. QED BY <3>2, <3>3
  <2>. QED BY <1>2, <2>2, <2>3
<1>3. i \in S
  <2>1. \A k \in Nat : k \in S
    <3>. HIDE DEF S
    <3>. QED BY <1>1, <1>2, LevelLoop!SetInduction
  <2>. HIDE DEF S
  <2>. QED BY <2>1
<1>4. PICK f \in 0 .. i : First(f)
  BY <1>3
<1>5. f \in DOMAIN texts
  OBVIOUS
<1>6. /\ FirstIndex(txid, texts) \in DOMAIN texts
      /\ First(FirstIndex(txid, texts))
  BY <1>4, <1>5 DEF FirstIndex
<1>. QED BY <1>6

\* The block as it is: a tree of transactions.
LEMMA BlockShape ==
  /\ VecLen(Block) \in Nat \ {0}
  /\ DOMAIN Block = 0 .. VecLen(Block) - 1
  /\ \A i \in DOMAIN Block : i <= U32Max
  /\ DOMAIN Displayed(Block) = DOMAIN Block
  /\ \A i \in DOMAIN Block : Displayed(Block)[i] = internal_to_display(Block[i])
  /\ Read(Displayed(Block)) = Block
<1>1. VecLen(Block) \in Nat \ {0} /\ IsVec(Block, VecLen(Block)) /\ U32Max \in Nat
  BY BlockAssumption, PositionAssumption
<1>2. DOMAIN Block = 0 .. VecLen(Block) - 1
  BY <1>1 DEF IsVec
<1>3. \A i \in DOMAIN Block : i <= U32Max
  BY <1>1, <1>2, BlockAssumption
<1>4. Block = [i \in 0 .. VecLen(Block) - 1 |-> Block[i]]
  BY <1>1 DEF IsVec
<1>. QED BY <1>1, <1>2, <1>3, <1>4, ReadDisplayed

\* The root of the header is that of the block.
LEMMA TruthAccepted == BlockOutcome(Truth) = "Ok"
<1>1. Truth.tx = Displayed(Block) /\ Truth.merkleroot = internal_to_display(MerkleRoot(Block))
  BY DEF Truth, Header
<1>2. Truth.tx # <<>>
  <2>1. 0 \in DOMAIN Truth.tx
    BY <1>1, BlockShape
  <2>. QED BY <2>1
<1>3. \A i \in DOMAIN Truth.tx : Decodes(Truth.tx[i])
  BY <1>1, BlockShape, DisplayDecodes
<1>4. internal_to_display(MerkleRoot(Read(Truth.tx))) = Truth.merkleroot
  BY <1>1, BlockShape
<1>. QED BY <1>2, <1>3, <1>4 DEF BlockOutcome

\* Whatever the records and the block, a script that is told the truth and
\* asked for what is there succeeds: anchor-records, verify-bsv-block and
\* from-settlement of examples/integration/bridge.py.
THEOREM HonestScriptsAlwaysSucceed == BSpec => []HonestScriptsSucceed
<1>1. IInv => HonestScriptsSucceed
  <2>. SUFFICES ASSUME IInv, NEW e \in result.evidence, result.outcome # "Ok"
                PROVE  \/ result.command \notin {"anchor-records", "verify-bsv-block",
                                                 "from-settlement"}
                       \/ result.command = "anchor-records" /\ e.index \notin DOMAIN e.batch
                       \/ result.command = "verify-bsv-block" /\ e # Truth
                       \/ /\ result.command = "from-settlement"
                          /\ \/ e.answer # Truth
                             \/ \A i \in DOMAIN Block :
                                  internal_to_display(Block[i]) # e.txid
    BY DEF HonestScriptsSucceed
  <2>0. result.command \in {"anchor-records", "verify-bsv-block", "from-settlement"} =>
          Scripted(e)
    BY DEF IInv, ResultInv
  <2>1. ASSUME result.command = "anchor-records"
        PROVE  e.index \notin DOMAIN e.batch
    <3>. SUFFICES ASSUME e.index \in DOMAIN e.batch PROVE FALSE
      OBVIOUS
    <3>1. e.batch \in Batch /\ e.batch # <<>>
          /\ result.outcome = RecordsOutcome(e.batch, e.index)
      BY <2>0, <2>1, BatchOfPosition DEF Scripted
    <3>2. /\ VecLen(e.batch) \in Nat \ {0}
          /\ DOMAIN e.batch = 0 .. VecLen(e.batch) - 1
          /\ e.index <= U32Max /\ e.batch[e.index] # Malformed
      BY <3>1, BatchShape, RecordAssumption
    <3>3. ~ (e.index >= VecLen(e.batch))
      BY <3>2
    <3>4. Verification(ProofBundle(e.batch, e.index)) = "Ok"
      BY <3>2, MadeBundlePasses
    <3>. QED BY <3>1, <3>3, <3>4 DEF RecordsOutcome
  <2>2. ASSUME result.command = "verify-bsv-block"
        PROVE  e # Truth
    BY <2>0, <2>2, TruthAccepted DEF Scripted
  <2>3. ASSUME result.command = "from-settlement", e.answer = Truth,
               NEW i \in DOMAIN Block, internal_to_display(Block[i]) = e.txid
        PROVE  FALSE
    <3>. DEFINE texts == Displayed(Block)
                n == VecLen(Block)
                first == FirstIndex(e.txid, texts)
    <3>1. /\ n \in Nat \ {0} /\ DOMAIN texts = 0 .. n - 1
          /\ i \in 0 .. n - 1 /\ texts[i] = e.txid
          /\ \A j \in 0 .. n - 1 : j <= U32Max
      BY <2>3, BlockShape
    <3>2. Truth.tx = texts /\ SettlementRecords(texts) = texts
      BY BlockShape DEF Truth, SettlementRecords
    <3>8. \A j \in 0 .. n - 1 : texts[j] # Malformed
      BY <3>1, BlockShape, DisplayDecodes
    <3>. HIDE DEF texts, n
    <3>3. first \in 0 .. n - 1
      BY <3>1, FirstIndexFinds
    <3>4. Verification(ProofBundle(texts, first)) = "Ok"
      BY <3>1, <3>3, <3>8, MadeBundlePasses
    <3>5. texts # <<>>
      BY <3>1
    <3>6. ~ \A j \in DOMAIN texts : texts[j] # e.txid
      BY <3>1
    <3>7. SettlementOutcome(e.txid, Truth) = "Ok"
      BY <3>2, <3>4, <3>5, <3>6, TruthAccepted
      DEF SettlementOutcome, SettlementBundle
    <3>. QED BY <2>0, <2>3, <3>7 DEF Scripted
  <2>. QED BY <2>1, <2>2, <2>3
<1>. QED BY <1>1, Invariance, PTL

-------------------------------------------------------------------------------
(***************************************************************************)
(* Altered bundles.                                                        *)
(***************************************************************************)
\* The fields of a bundle file.
File(version, root, leaf, siblings, index, record) ==
  [version |-> version, root |-> root, leaf |-> leaf, siblings |-> siblings,
   leaf_index |-> index, record |-> record]

\* An alteration is one of one field, and of one sibling when it is of those.
OneAltered(file, a, b, c, d, e, f) ==
  \/ file = File(1, b, c, d, e, f)
  \/ \E text : file = File(a, text, c, d, e, f)
  \/ \E text : file = File(a, b, text, d, e, f)
  \/ \E j \in DOMAIN d : \E text : file = File(a, b, c, [d EXCEPT ![j] = text], e, f)
  \/ \E i \in 0 .. MaxIndex : file = File(a, b, c, d, i, f)
  \/ \E r \in {Malformed} \cup Record : r # f /\ file = File(a, b, c, d, e, r)

LEMMA AlterationCases ==
  ASSUME NEW a, NEW b, NEW c, NEW d, NEW e, NEW f,
         NEW file \in Alterations(File(a, b, c, d, e, f))
  PROVE  OneAltered(file, a, b, c, d, e, f)
<1>. DEFINE made == File(a, b, c, d, e, f)
<1>1. /\ made.root = b /\ made.leaf = c /\ made.siblings = d
      /\ made.leaf_index = e /\ made.record = f
  BY DEF File
<1>2. [made EXCEPT !.version = 1] = File(1, b, c, d, e, f)
  BY DEF File
<1>3. \A x : /\ [made EXCEPT !.root = x] = File(a, x, c, d, e, f)
             /\ [made EXCEPT !.leaf = x] = File(a, b, x, d, e, f)
             /\ [made EXCEPT !.siblings = x] = File(a, b, c, x, e, f)
             /\ [made EXCEPT !.leaf_index = x] = File(a, b, c, d, x, f)
             /\ [made EXCEPT !.record = x] = File(a, b, c, d, e, x)
  BY DEF File
<1>4. \A j, x : [made EXCEPT !.siblings[j] = x]
                  = [made EXCEPT !.siblings = [made.siblings EXCEPT ![j] = x]]
  OBVIOUS
<1>. HIDE DEF made
<1>5. \/ file = [made EXCEPT !.version = 1]
      \/ \E text : file = [made EXCEPT !.root = text]
      \/ \E text : file = [made EXCEPT !.leaf = text]
      \/ \E j \in DOMAIN made.siblings : \E text : file = [made EXCEPT !.siblings[j] = text]
      \/ \E i \in 0 .. MaxIndex : file = [made EXCEPT !.leaf_index = i]
      \/ \E r \in {Malformed} \cup Record :
           r # made.record /\ file = [made EXCEPT !.record = r]
  <2>1. file \in Alterations(made)
    BY DEF made
  <2>2. \/ file \in {[made EXCEPT !.version = 1]}
        \/ file \in {[made EXCEPT !.root = text] : text \in OtherTexts(made.root)}
        \/ file \in {[made EXCEPT !.leaf = text] : text \in OtherTexts(made.leaf)}
        \/ \E j \in DOMAIN made.siblings :
             file \in {[made EXCEPT !.siblings[j] = text] :
                         text \in OtherTexts(made.siblings[j])}
        \/ file \in {[made EXCEPT !.leaf_index = i] : i \in (0 .. MaxIndex) \ {made.leaf_index}}
        \/ file \in {[made EXCEPT !.record = r] :
                       r \in ({Malformed} \cup Record) \ {made.record}}
    BY <2>1, Zenon DEF Alterations
  <2>. QED BY <2>2, Zenon
<1>6. CASE file = [made EXCEPT !.version = 1]
  BY <1>2, <1>6 DEF OneAltered
<1>7. CASE \E text : file = [made EXCEPT !.root = text]
  <2>1. PICK text : file = [made EXCEPT !.root = text]
    BY <1>7
  <2>2. file = File(a, text, c, d, e, f)
    BY <1>3, <2>1
  <2>. QED BY <2>2 DEF OneAltered
<1>8. CASE \E text : file = [made EXCEPT !.leaf = text]
  <2>1. PICK text : file = [made EXCEPT !.leaf = text]
    BY <1>8
  <2>2. file = File(a, b, text, d, e, f)
    BY <1>3, <2>1
  <2>. QED BY <2>2 DEF OneAltered
<1>9. CASE \E j \in DOMAIN made.siblings : \E text :
             file = [made EXCEPT !.siblings[j] = text]
  <2>1. PICK j \in DOMAIN made.siblings :
          \E text : file = [made EXCEPT !.siblings[j] = text]
    BY <1>9
  <2>2. PICK text : file = [made EXCEPT !.siblings[j] = text]
    BY <2>1
  <2>3. file = File(a, b, c, [d EXCEPT ![j] = text], e, f)
    BY <1>1, <1>3, <1>4, <2>2
  <2>. QED BY <1>1, <2>3 DEF OneAltered
<1>10. CASE \E i \in 0 .. MaxIndex : file = [made EXCEPT !.leaf_index = i]
  BY <1>3, <1>10 DEF OneAltered
<1>11. CASE \E r \in {Malformed} \cup Record :
              r # made.record /\ file = [made EXCEPT !.record = r]
  BY <1>1, <1>3, <1>11 DEF OneAltered
<1>. QED BY <1>5, <1>6, <1>7, <1>8, <1>9, <1>10, <1>11

\* A bundle keeps the shape of a proof and a record when it is altered.
LEMMA SentShape ==
  ASSUME NEW n \in Nat \ {0}, NEW batch, DOMAIN batch = 0 .. n - 1,
         \A i \in 0 .. n - 1 : batch[i] \in Record,
         NEW index \in 0 .. n - 1,
         NEW file,
         \/ file = ProofBundle(batch, index)
         \/ file \in Alterations(ProofBundle(batch, index))
  PROVE  /\ VecLen(ProofOf(file).siblings) = Height(LeavesOf(batch))
         /\ Height(LeavesOf(batch)) \in Nat
         /\ VecLen(file.siblings) = Height(LeavesOf(batch))
         /\ file.record = Malformed \/ file.record \in Record
<1>. DEFINE made == ProofBundle(batch, index)
            H == Height(LeavesOf(batch))
<1>1. /\ DOMAIN made.siblings = 0 .. H - 1
      /\ made.record \in Record
      /\ made = File(made.version, made.root, made.leaf, made.siblings,
                     made.leaf_index, made.record)
  <2>1. DOMAIN made.siblings = 0 .. H - 1 /\ made.record = batch[index]
    BY BundleFields
  <2>2. made = File(made.version, made.root, made.leaf, made.siblings,
                    made.leaf_index, made.record)
    BY DEF ProofBundle, File
  <2>. HIDE DEF made
  <2>. QED BY <2>1, <2>2
<1>2. H \in Nat
  <2>1. DOMAIN LeavesOf(batch) = 0 .. n - 1
    BY LeavesShape
  <2>. QED BY <2>1, HeightShape
<1>. HIDE DEF made, H
<1>3. /\ DOMAIN file.siblings = 0 .. H - 1
      /\ file.record = Malformed \/ file.record \in Record
  <2>1. CASE file = made
    BY <1>1, <2>1
  <2>2. CASE file \in Alterations(made)
    <3>1. file \in Alterations(File(made.version, made.root, made.leaf, made.siblings,
                                    made.leaf_index, made.record))
      BY <1>1, <2>2
    <3>2. /\ DOMAIN file.siblings = DOMAIN made.siblings
          /\ file.record \in {made.record, Malformed} \cup Record
      BY <3>1, AlterationCases DEF OneAltered, File
    <3>. QED BY <1>1, <3>2
  <2>. QED BY <2>1, <2>2 DEF made
<1>4. DOMAIN ProofOf(file).siblings = 0 .. H - 1
  BY <1>3 DEF ProofOf, Read
<1>5. VecLen(file.siblings) = H /\ VecLen(ProofOf(file).siblings) = H
  BY <1>2, <1>3, <1>4, VecLenOfDomain
<1>. QED BY <1>2, <1>3, <1>5 DEF H

\* The bundle a verdict is about.
LEMMA AcceptedPasses ==
  ASSUME IInv, Accepted, NEW sent \in bundle
  PROVE  Passes(sent.file)
<1>1. PICK other \in bundle : result.outcome = Verification(other.file)
  BY DEF IInv, ResultInv, Accepted
<1>2. other = sent
  BY DEF IInv, BundleInv
<1>. QED BY <1>1, <1>2, VerificationOk DEF Accepted

(***************************************************************************)
(* When vaa verify accepts a bundle, altered or not, whose root is on the  *)
(* chain, the record is one of those anchored there, for every set of      *)
(* batches and every hash that never collides and makes no record's hash   *)
(* the hash of a pair.                                                     *)
(***************************************************************************)
THEOREM AcceptedRecordsAnchored ==
  ASSUME CollisionFree, \A r \in Record : NoPair(HashRecord(r))
  PROVE  BSpec => []AcceptedAgainstChain
<1>1. IInv => AcceptedAgainstChain
  <2>. SUFFICES ASSUME IInv, Accepted, NEW sent \in bundle,
                       display_to_internal(sent.file.root) \in chain
                PROVE  \E v \in anchored :
                         LET batch == Read(v) IN
                         /\ MerkleRoot(batch) = display_to_internal(sent.file.root)
                         /\ VecLen(sent.file.siblings) = Height(batch)
                         /\ \E i \in DOMAIN batch :
                              batch[i] = HashRecord(sent.file.record)
    BY DEF AcceptedAgainstChain
  <2>. DEFINE root == display_to_internal(sent.file.root)
              proof == ProofOf(sent.file)
              leaf == HashRecord(sent.file.record)
              d == VecLen(proof.siblings)
  <2>1. PICK batch \in Batch \ {<<>>} : /\ root = MerkleRoot(LeavesOf(batch))
                                        /\ Displayed(LeavesOf(batch)) \in anchored
    BY DEF IInv, ChainInv
  <2>. DEFINE u == LeavesOf(batch)
              n == VecLen(batch)
  <2>2. /\ n \in Nat \ {0} /\ DOMAIN batch = 0 .. n - 1
        /\ \A i \in 0 .. n - 1 : batch[i] \in Record
    BY BatchShape
  <2>3. /\ DOMAIN u = 0 .. n - 1 /\ VecLen(u) = n
        /\ \A i \in 0 .. n - 1 : u[i] = HashRecord(batch[i])
        /\ Read(Displayed(u)) = u
    <3>1. /\ DOMAIN u = 0 .. n - 1 /\ VecLen(u) = n /\ IsVec(u, n)
          /\ \A i \in 0 .. n - 1 : u[i] = HashRecord(batch[i])
      BY <2>2, LeavesShape
    <3>. HIDE DEF u, n
    <3>2. u = [i \in 0 .. n - 1 |-> u[i]]
      BY <3>1 DEF IsVec
    <3>. QED BY <3>1, <3>2, ReadDisplayed
  <2>4. Verifies(proof, leaf, MerkleRoot(u))
    <3>1. Passes(sent.file)
      BY AcceptedPasses
    <3>. QED BY <2>1, <3>1 DEF Passes
  <2>5. d \in Nat /\ VecLen(sent.file.siblings) = d /\ sent.file.record \in Record
    <3>1. /\ VecLen(sent.from) \in Nat \ {0}
          /\ DOMAIN sent.from = 0 .. VecLen(sent.from) - 1
          /\ \A i \in 0 .. VecLen(sent.from) - 1 : sent.from[i] \in Record
          /\ \E index \in 0 .. VecLen(sent.from) - 1 : sent.made = ProofBundle(sent.from, index)
          /\ sent.file = sent.made \/ sent.file \in Alterations(sent.made)
      BY MadeOf
    <3>2. PICK index \in 0 .. VecLen(sent.from) - 1 : sent.made = ProofBundle(sent.from, index)
      BY <3>1
    <3>3. sent.file.record # Malformed
      BY AcceptedPasses DEF Passes
    <3>. HIDE DEF d, proof
    <3>. QED BY <3>1, <3>2, <3>3, SentShape DEF d, proof
  <2>6. NoPair(leaf) /\ \A i \in 0 .. n - 1 : NoPair(u[i])
    <3>. HIDE DEF u, n
    <3>. QED BY <2>2, <2>3, <2>5
  <2>. HIDE DEF u, n, d, proof, leaf, root
  <2>7. d = Height(u)
    BY <2>2, <2>3, <2>4, <2>5, <2>6, AcceptedHeight DEF d
  <2>8. \E i \in 0 .. n - 1 : leaf = u[i]
    <3>1. \A j \in Nat : j <= d /\ j <= Height(u) =>
            \E i \in 0 .. VecLen(Levels(u)[Height(u) - j]) - 1 :
              Walk(proof, leaf)[d - j] = Levels(u)[Height(u) - j][i]
      <4>1. d \in Nat /\ VecLen(proof.siblings) = d
        BY <2>5 DEF d
      <4>. QED BY <2>2, <2>3, <2>4, <4>1, WalkMeetsTree
    <3>2. d - d = 0 /\ Height(u) - d = 0 /\ d <= d /\ d <= Height(u)
      BY <2>5, <2>7
    <3>3. Levels(u)[0] = u /\ Walk(proof, leaf)[0] = leaf
      BY LevelsEquations, WalkEquations
    <3>4. PICK i \in 0 .. VecLen(Levels(u)[0]) - 1 : Walk(proof, leaf)[0] = Levels(u)[0][i]
      <4>1. \E i \in 0 .. VecLen(Levels(u)[Height(u) - d]) - 1 :
              Walk(proof, leaf)[d - d] = Levels(u)[Height(u) - d][i]
        BY <2>5, <3>1, <3>2
      <4>. QED BY <3>2, <4>1
    <3>5. i \in 0 .. n - 1 /\ leaf = u[i]
      BY <2>3, <3>3, <3>4
    <3>. QED BY <3>5
  <2>. DEFINE v == Displayed(u)
  <2>9. v \in anchored /\ Read(v) = u
    BY <2>1, <2>3 DEF u
  <2>10. MerkleRoot(u) = display_to_internal(sent.file.root)
    BY <2>1 DEF u, root
  <2>11. \E i \in DOMAIN u : u[i] = HashRecord(sent.file.record)
    BY <2>3, <2>8 DEF leaf
  <2>. HIDE DEF v
  <2>. QED BY <2>5, <2>7, <2>9, <2>10, <2>11
<1>. QED BY <1>1, Invariance, PTL

(***************************************************************************)
(* A bundle that passes and is no longer as vaa prove made it has another  *)
(* claimed index only, and one that turns to the same side as the index it *)
(* replaces wherever the side matters.                                     *)
(***************************************************************************)
LEMMA AlterationFound ==
  ASSUME CollisionFree,
         \A r, other \in Record : HashRecord(r) = HashRecord(other) => r = other,
         NEW n \in Nat \ {0}, NEW batch, DOMAIN batch = 0 .. n - 1,
         \A i \in 0 .. n - 1 : batch[i] \in Record,
         NEW index \in 0 .. n - 1,
         NEW file \in Alterations(ProofBundle(batch, index)),
         Passes(file)
  PROVE  LET made == ProofBundle(batch, index) IN
         /\ AsRead(file) = [AsRead(made) EXCEPT !.proof.leaf_index = file.leaf_index]
         /\ SamePath(made, file.leaf_index)
<1>. DEFINE made == ProofBundle(batch, index)
            v == LeavesOf(batch)
            H == Height(v)
            root == made.root
            leaf == made.leaf
            siblings == made.siblings
            record == batch[index]
<1>1. made = File(2, root, leaf, siblings, index, record)
  BY DEF ProofBundle, File
<1>2. /\ root = internal_to_display(MerkleRoot(v))
      /\ leaf = internal_to_display(HashRecord(record))
      /\ DOMAIN siblings = 0 .. H - 1
      /\ \A j \in 0 .. H - 1 : siblings[j] = internal_to_display(SiblingsOf(v, index)[j])
      /\ ProofOf(made) = MerkleProof(v, index)
  BY BundleFields
<1>3. DOMAIN v = 0 .. n - 1 /\ v[index] = HashRecord(record)
  BY LeavesShape
<1>4. Verifies(ProofOf(made), HashRecord(record), MerkleRoot(v))
  <2>. HIDE DEF v, made
  <2>. QED BY <1>2, <1>3, MerkleRoundTrip
<1>5. H \in Nat /\ record \in Record /\ VecLen(ProofOf(made).siblings) = H
  <2>. HIDE DEF v
  <2>1. H \in Nat
    BY <1>3, HeightShape
  <2>. HIDE DEF made
  <2>. QED BY <1>2, <2>1, SiblingsShape DEF MerkleProof
<1>6. made.leaf_index = index
  BY DEF ProofBundle
<1>7. \A a, b, c, d, e, f :
        /\ File(a, b, c, d, e, f).version = a /\ File(a, b, c, d, e, f).root = b
        /\ File(a, b, c, d, e, f).leaf = c /\ File(a, b, c, d, e, f).siblings = d
        /\ File(a, b, c, d, e, f).leaf_index = e /\ File(a, b, c, d, e, f).record = f
        /\ ProofOf(File(a, b, c, d, e, f)) = [leaf_index |-> e, siblings |-> Read(d)]
  BY DEF File, ProofOf
<1>. HIDE DEF made, v, H, root, leaf, siblings, record
<1>. DEFINE Kept ==
       /\ AsRead(file) = [AsRead(made) EXCEPT !.proof.leaf_index = file.leaf_index]
       /\ SamePath(made, file.leaf_index)
<1>. HIDE DEF Kept
<1>8. ASSUME file = File(1, root, leaf, siblings, index, record) PROVE FALSE
  <2>1. file.version = 1
    BY <1>7, <1>8
  <2>. QED BY <2>1 DEF Passes
<1>18. \A x, y, u, w, e, f :
         x = display_to_internal(root) /\ y = display_to_internal(leaf)
           /\ u = ProofOf(made).siblings /\ w = record =>
         [version |-> 2, root |-> x, leaf |-> y,
          proof |-> [leaf_index |-> e, siblings |-> u], record |-> w]
           = [AsRead(made) EXCEPT !.proof.leaf_index = e]
  BY <1>1, <1>7 DEF AsRead
<1>19. SamePath(made, index)
  BY <1>6 DEF SamePath
<1>9. ASSUME NEW text, file = File(2, text, leaf, siblings, index, record)
      PROVE  Kept
  <2>1. /\ file.root = text /\ file.leaf = leaf /\ file.version = 2 /\ file.record = record
        /\ ProofOf(file) = ProofOf(made) /\ file.leaf_index = index
    BY <1>1, <1>7, <1>9
  <2>2. Verifies(ProofOf(made), HashRecord(record), display_to_internal(text))
    BY <1>2, <2>1, DisplayDecodes DEF Passes
  <2>3. display_to_internal(text) = display_to_internal(root)
    BY <1>2, <1>4, <2>2, DisplayDecodes DEF Verifies
  <2>. QED BY <1>7, <1>9, <1>18, <1>19, <2>1, <2>3 DEF Kept, AsRead
<1>10. ASSUME NEW text, file = File(2, root, text, siblings, index, record)
       PROVE  Kept
  <2>1. /\ file.root = root /\ file.leaf = text /\ file.version = 2 /\ file.record = record
        /\ ProofOf(file) = ProofOf(made) /\ file.leaf_index = index
    BY <1>1, <1>7, <1>10
  <2>2. display_to_internal(text) = display_to_internal(leaf)
    BY <1>2, <2>1, DisplayDecodes DEF Passes
  <2>. QED BY <1>7, <1>10, <1>18, <1>19, <2>1, <2>2 DEF Kept, AsRead
<1>11. ASSUME NEW j \in DOMAIN siblings, NEW text,
              file = File(2, root, leaf, [siblings EXCEPT ![j] = text], index, record)
       PROVE  Kept
  <2>. DEFINE altered == [siblings EXCEPT ![j] = text]
              proof == ProofOf(file)
  <2>1. DOMAIN altered = 0 .. H - 1 /\ altered[j] = text /\ j \in 0 .. H - 1
        /\ \A i \in 0 .. H - 1 : i # j => altered[i] = siblings[i]
    BY <1>2
  <2>9. file = File(2, root, leaf, altered, index, record)
    BY <1>11
  <2>. HIDE DEF altered
  <2>2. /\ file.root = root /\ file.leaf = leaf /\ file.siblings = altered
        /\ file.version = 2 /\ file.record = record /\ file.leaf_index = index
        /\ proof = [leaf_index |-> index, siblings |-> Read(altered)]
    BY <1>7, <2>9
  <2>. HIDE DEF proof
  <2>3. DOMAIN Read(altered) = 0 .. H - 1 /\ Read(altered)[j] = display_to_internal(text)
    BY <2>1 DEF Read
  <2>4. /\ proof.leaf_index = index /\ VecLen(proof.siblings) = H
        /\ proof.siblings[j] = display_to_internal(text)
    BY <1>5, <2>2, <2>3, VecLenOfDomain
  <2>5. Verifies(proof, HashRecord(record), MerkleRoot(v))
    BY <1>2, <2>2, DisplayDecodes DEF Passes, proof
  <2>6. ~ Collides(v, proof, HashRecord(record))
    BY NoCollision
  <2>7. proof.siblings[j] = SiblingsOf(v, proof.leaf_index)[j]
    <3>1. \A i \in 0 .. Height(v) - 1 : proof.siblings[i] = SiblingsOf(v, proof.leaf_index)[i]
      BY <1>3, <2>4, <2>5, <2>6, MerkleSoundness DEF H
    <3>. QED BY <2>1, <3>1 DEF H
  <2>8. display_to_internal(text) = display_to_internal(siblings[j])
    BY <1>2, <2>1, <2>4, <2>7, DisplayDecodes
  <2>10. Read(altered) = Read(siblings)
    BY <1>2, <2>1, <2>8 DEF Read
  <2>11. ProofOf(made).siblings = Read(siblings)
    BY <1>1, <1>7
  <2>. QED BY <1>18, <1>19, <2>2, <2>10, <2>11 DEF Kept, AsRead, proof
<1>12. ASSUME NEW i \in 0 .. MaxIndex,
              file = File(2, root, leaf, siblings, i, record)
       PROVE  Kept
  <2>. DEFINE p == ProofOf(made)
              q == ProofOf(file)
              h == HashRecord(record)
  <2>1. AsRead(file) = [AsRead(made) EXCEPT !.proof.leaf_index = file.leaf_index]
    BY <1>1, <1>7, <1>12, <1>18 DEF AsRead
  <2>2. /\ file.root = root /\ file.leaf = leaf /\ file.leaf_index = i
        /\ p = [leaf_index |-> index, siblings |-> Read(siblings)]
        /\ q = [leaf_index |-> i, siblings |-> Read(siblings)]
    BY <1>1, <1>7, <1>12
  <2>3. Verifies(q, h, MerkleRoot(v))
    BY <1>2, <2>2, DisplayDecodes DEF Passes
  <2>. HIDE DEF p, q, h
  <2>4. /\ p.siblings = q.siblings /\ p.leaf_index = index /\ q.leaf_index = i
        /\ index \in Nat /\ i \in Nat
    BY <2>2, PositionAssumption
  <2>5. Walk(p, h)[H] = Walk(q, h)[H]
    BY <1>4, <1>5, <2>3, <2>4 DEF Verifies, ReconstructRoot, p, h
  <2>6. \A j \in 0 .. H - 1 :
          \/ Shifted(q.leaf_index)[j] % 2 = Shifted(p.leaf_index)[j] % 2
          \/ Walk(p, h)[j] = p.siblings[j]
    BY <1>5, <2>4, <2>5, WalksAgree, SMTT(30)
  <2>7. DOMAIN p.siblings = 0 .. H - 1
    <3>1. DOMAIN Read(siblings) = 0 .. H - 1
      BY <1>2 DEF Read
    <3>. QED BY <2>2, <3>1
  <2>8. SamePath(made, file.leaf_index)
    <3>1. display_to_internal(made.leaf) = h
      BY <1>2, DisplayDecodes DEF h, leaf
    <3>. QED BY <1>6, <2>2, <2>4, <2>6, <2>7, <3>1 DEF SamePath, p
  <2>. QED BY <2>1, <2>8 DEF Kept
<1>13. ASSUME NEW r \in {Malformed} \cup Record, r # record,
              file = File(2, root, leaf, siblings, index, r)
       PROVE  FALSE
  <2>1. file.leaf = leaf /\ file.record = r
    BY <1>7, <1>13
  <2>2. HashRecord(r) = HashRecord(record) /\ r \in Record
    BY <1>2, <2>1, DisplayDecodes DEF Passes
  <2>. QED BY <1>5, <1>13, <2>2
<1>14. file \in Alterations(File(2, root, leaf, siblings, index, record))
  BY <1>1 DEF made
<1>15. OneAltered(file, 2, root, leaf, siblings, index, record)
  BY <1>14, AlterationCases
<1>17. Kept
  <2>1. CASE file = File(1, root, leaf, siblings, index, record)
    BY <1>8, <2>1
  <2>2. CASE \E text : file = File(2, text, leaf, siblings, index, record)
    BY <1>9, <2>2
  <2>3. CASE \E text : file = File(2, root, text, siblings, index, record)
    BY <1>10, <2>3
  <2>4. CASE \E j \in DOMAIN siblings : \E text :
               file = File(2, root, leaf, [siblings EXCEPT ![j] = text], index, record)
    BY <1>11, <2>4
  <2>5. CASE \E i \in 0 .. MaxIndex : file = File(2, root, leaf, siblings, i, record)
    BY <1>12, <2>5
  <2>6. CASE \E r \in {Malformed} \cup Record :
               r # record /\ file = File(2, root, leaf, siblings, index, r)
    BY <1>13, <2>6
  <2>. QED BY <1>15, <2>1, <2>2, <2>3, <2>4, <2>5, <2>6 DEF OneAltered
<1>. QED BY <1>17 DEF Kept, made

(***************************************************************************)
(* vaa verify finds every alteration of one field, one sibling or the      *)
(* record of a bundle, but for one of an index that claims the same path,  *)
(* for every hash that never collides, of pairs and of records.            *)
(***************************************************************************)
THEOREM AlterationsFound ==
  ASSUME CollisionFree,
         \A r, other \in Record : HashRecord(r) = HashRecord(other) => r = other
  PROVE  BSpec => []AlteredBundleRejected
<1>1. IInv => AlteredBundleRejected
  <2>. SUFFICES ASSUME IInv, Accepted, NEW sent \in bundle
                PROVE  /\ AsRead(sent.file) =
                            [AsRead(sent.made) EXCEPT !.proof.leaf_index = sent.file.leaf_index]
                       /\ SamePath(sent.made, sent.file.leaf_index)
    BY DEF AlteredBundleRejected
  <2>1. Passes(sent.file)
    BY AcceptedPasses
  <2>2. /\ VecLen(sent.from) \in Nat \ {0}
        /\ DOMAIN sent.from = 0 .. VecLen(sent.from) - 1
        /\ \A i \in 0 .. VecLen(sent.from) - 1 : sent.from[i] \in Record
        /\ \E index \in 0 .. VecLen(sent.from) - 1 : sent.made = ProofBundle(sent.from, index)
        /\ sent.file = sent.made \/ sent.file \in Alterations(sent.made)
    BY MadeOf
  <2>3. PICK index \in 0 .. VecLen(sent.from) - 1 : sent.made = ProofBundle(sent.from, index)
    BY <2>2
  <2>4. CASE sent.file = sent.made
    <3>1. AsRead(sent.made) =
            [AsRead(sent.made) EXCEPT !.proof.leaf_index = sent.made.leaf_index]
      BY DEF AsRead, ProofOf
    <3>2. SamePath(sent.made, sent.made.leaf_index)
      BY DEF SamePath
    <3>. QED BY <2>4, <3>1, <3>2
  <2>5. CASE sent.file \in Alterations(sent.made)
    BY <2>1, <2>2, <2>3, <2>5, AlterationFound
  <2>. QED BY <2>2, <2>4, <2>5
<1>. QED BY <1>1, Invariance, PTL

(***************************************************************************)
(* When the explorer tells the true root, a settlement that is called      *)
(* included is in the block, at the index printed or, when the list spells *)
(* it in two ways, at another: for every list the explorer gives, in any   *)
(* spelling, be it longer or shorter than the block, and every hash that   *)
(* never collides and makes no txid the hash of a pair.                    *)
(***************************************************************************)
THEOREM SettlementsInBlock ==
  ASSUME CollisionFree,
         \A i \in DOMAIN Block : NoPair(Block[i]),
         \A answer \in Reply : \A i \in DOMAIN answer.tx :
           Decodes(answer.tx[i]) => NoPair(display_to_internal(answer.tx[i]))
  PROVE  BSpec => []SettledTxidInBlock
<1>1. IInv => SettledTxidInBlock
  <2>. DEFINE Where(e) ==
         LET txid == display_to_internal(e.txid)
             index == SettlementBundle(e.txid, e.answer).leaf_index
         IN  \/ index \in DOMAIN Block /\ Block[index] = txid
             \/ /\ index \notin DOMAIN Block
                /\ \E i \in DOMAIN Block : Block[i] = txid /\ e.answer.tx[i] # e.txid
  <2>. SUFFICES ASSUME IInv, Settled, NEW e \in result.evidence,
                       e.answer.merkleroot = Header
                PROVE  Where(e)
    BY DEF SettledTxidInBlock
  <2>. DEFINE tx == e.answer.tx
              u == Read(tx)
              m == VecLen(tx)
              n == VecLen(Block)
              index == FirstIndex(e.txid, tx)
  <2>1. e.answer \in Reply /\ SettlementOutcome(e.txid, e.answer) = "Ok"
    BY DEF IInv, ResultInv, Settled, Scripted
  <2>2. tx # <<>> /\ \E i \in DOMAIN tx : tx[i] = e.txid
    BY <2>1 DEF SettlementOutcome
  <2>3. BlockOutcome(e.answer) = "Ok"
    BY <2>1, <2>2 DEF SettlementOutcome
  <2>4. /\ \A i \in DOMAIN tx : Decodes(tx[i])
        /\ internal_to_display(MerkleRoot(u)) = Header
    BY <2>2, <2>3 DEF BlockOutcome
  <2>5. MerkleRoot(Block) = MerkleRoot(u)
    <3>1. internal_to_display(MerkleRoot(u)) = internal_to_display(MerkleRoot(Block))
      BY <2>4 DEF Header
    <3>. QED BY <3>1, DisplayDecodes
  <2>6. m \in Nat \ {0} /\ DOMAIN tx = 0 .. m - 1
    <3>1. m \in Nat /\ IsVec(tx, m)
      BY <2>1, ReplyAssumption
    <3>. QED BY <2>2, <3>1, NonEmptyVec
  <2>7. /\ DOMAIN u = 0 .. m - 1
        /\ \A i \in 0 .. m - 1 : u[i] = display_to_internal(tx[i]) /\ NoPair(u[i])
    <3>1. DOMAIN u = 0 .. m - 1
          /\ \A i \in 0 .. m - 1 : u[i] = display_to_internal(tx[i])
      BY <2>6 DEF Read
    <3>2. \A i \in 0 .. m - 1 : NoPair(display_to_internal(tx[i]))
      BY <2>1, <2>4, <2>6
    <3>. HIDE DEF u, m, tx
    <3>. QED BY <3>1, <3>2
  <2>8. /\ n \in Nat \ {0} /\ DOMAIN Block = 0 .. n - 1
    BY BlockShape
  <2>9. SettlementBundle(e.txid, e.answer).leaf_index = index
    BY DEF SettlementBundle, ProofBundle
  <2>. HIDE DEF u, m, n, index
  <2>10. /\ index \in 0 .. m - 1 /\ tx[index] = e.txid
         /\ \A j \in 0 .. index - 1 : tx[j] # e.txid
    BY <2>2, <2>6, FirstIndexFinds DEF index
  <2>11. /\ \A i \in 0 .. n - 1 : i < m => Block[i] = u[i]
         /\ \A k \in 0 .. m - 1 : \E i \in 0 .. n - 1 : u[k] = Block[i]
    <3>1. \A i \in 0 .. n - 1 : NoPair(Block[i])
      BY <2>8
    <3>2. \A i \in 0 .. m - 1 : NoPair(u[i])
      BY <2>7
    <3>3. DOMAIN u = 0 .. m - 1 /\ m \in Nat \ {0}
      BY <2>6, <2>7
    <3>4. SameLeaves(Block, n, u, m)
      BY <2>5, <2>8, <3>1, <3>2, <3>3, SameRootSameLeaves
    <3>. QED BY <3>4 DEF SameLeaves
  <2>12. u[index] = display_to_internal(e.txid)
    BY <2>7, <2>10
  <2>13. CASE index \in 0 .. n - 1
    <3>1. Block[index] = display_to_internal(e.txid)
      BY <2>6, <2>10, <2>11, <2>12, <2>13
    <3>. QED BY <2>8, <2>9, <2>13, <3>1
  <2>14. CASE index \notin 0 .. n - 1
    <3>1. PICK i \in 0 .. n - 1 : u[index] = Block[i]
      BY <2>10, <2>11
    <3>2. i \in 0 .. index - 1
      BY <2>6, <2>8, <2>10, <2>14
    <3>3. tx[i] # e.txid
      BY <2>10, <3>2
    <3>4. i \in DOMAIN Block /\ Block[i] = display_to_internal(e.txid)
          /\ index \notin DOMAIN Block
      BY <2>8, <2>12, <2>14, <3>1
    <3>. QED BY <2>9, <3>3, <3>4
  <2>. QED BY <2>13, <2>14
<1>. QED BY <1>1, Invariance, PTL
===============================================================================
