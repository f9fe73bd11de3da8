--------------------------- MODULE SelfChecksProofs ---------------------------
(***************************************************************************)
(* What the last line of vaa reproduce counts, whatever the files contain  *)
(* and however often they change while it runs.                            *)
(***************************************************************************)
EXTENDS SelfChecks, MerkleTreeProofs, FiniteSetTheorems

Counted == {file \in Names : Present(file)}

\* A file that was there matched when it was looked at.
Checked(file) ==
  \A content : seen[file] = Some(content) /\ content # Missing =>
                 FileMatches(file, content)

\* A file whose product of fields is no word.
Panics(file) ==
  /\ file = "storage_1024"
  /\ \E content : /\ seen[file] = Some(content) /\ content \notin {Missing, Torn}
                  /\ StoragePanics(content)

(***************************************************************************)
(* The inductive invariant.  A run that did not fail has looked at the     *)
(* files up to its step and no others, found those that were there         *)
(* matching and so none of them torn, and counted them; it has found no    *)
(* other file but perhaps the one at hand.  One that failed has the check, *)
(* or the file, to show for it.  The block vector, that no study writes,   *)
(* is always one of those it is committed with.                            *)
(***************************************************************************)
LookedAt ==
  /\ step \in 0 .. 4
  /\ \A n \in 1 .. 4 : seen[File[n]] = None <=> n > step
  /\ \A n \in 1 .. 4 : /\ n <= step => (File[n] \in found <=> Present(File[n]))
                       /\ n > step + 1 => File[n] \notin found
  /\ \A file \in Names : Checked(file)
  /\ passed = Cardinality(Counted)

Drifted ==
  \/ command = "selftest" /\ \E n \in 1 .. 5 : ~ SelfCheck(n)
  \/ command = "reproduce" /\ found = {}
  \/ command = "reproduce" /\ \E file \in Names : \/ ~ Checked(file)
                                                 \/ Vanished(file)
                                                 \/ Panics(file)

BlockVectorInv ==
  /\ DOMAIN vectors = Names
  /\ vectors["bsv_block_v1"] \in Content["bsv_block_v1"]
  /\ seen["bsv_block_v1"]
       \in {None} \cup {Some(content) : content \in Content["bsv_block_v1"]}

IInv ==
  /\ step \in 0 .. 5 /\ DOMAIN seen = Names /\ found \subseteq Names
  /\ command = "reproduce" /\ outcome \in {"running", "passed"} => LookedAt
  /\ command = "reproduce" /\ outcome = "passed" => step = 4 /\ passed > 0
  /\ outcome = "failed" => Drifted
  /\ BlockVectorInv

\* The four files, told apart.
LEMMA FourFiles ==
  /\ \A n \in 1 .. 4 : File[n] \in Names
  /\ \A file \in Names : \E n \in 1 .. 4 : file = File[n]
  /\ \A n, p \in 1 .. 4 : File[n] = File[p] => n = p
  /\ IsFiniteSet(Names)
<1>1. /\ File[1] = "genesis_v1" /\ File[2] = "bsv_block_v1"
      /\ File[3] = "storage_1024" /\ File[4] = "simstudy_200"
  BY DEF File
<1>2. \A n \in 1 .. 4 : n = 1 \/ n = 2 \/ n = 3 \/ n = 4
  OBVIOUS
<1>3. \A n, p \in 1 .. 4 : File[n] = File[p] => n = p
  BY <1>1, <1>2
<1>4. IsFiniteSet(Names)
  <2>1. Names = ((({} \cup {File[1]}) \cup {File[2]}) \cup {File[3]}) \cup {File[4]}
    BY <1>2 DEF Names
  <2>. QED BY <2>1, FS_EmptySet, FS_AddElement, ZenonT(40)
<1>5. \A n \in 1 .. 4 : File[n] \in Names
  BY DEF Names
<1>6. \A file \in Names : \E n \in 1 .. 4 : file = File[n]
  BY DEF Names
<1>. QED BY <1>3, <1>4, <1>5, <1>6

\* Some and None are told apart.
LEMMA Options == \A x, y : Some(x) # None /\ (Some(x) = Some(y) => x = y)
BY DEF Some, None

\* Counting one file more, that matches, or passing over a missing one.
LEMMA LooksOnce ==
  ASSUME IInv, Looks, LookedAt, step' = step + 1, found' = found,
         File[step + 1] \in found <=> vectors[File[step + 1]] # Missing,
         \/ vectors[File[step + 1]] = Missing
         \/ FileMatches(File[step + 1], vectors[File[step + 1]]),
         passed' = IF vectors[File[step + 1]] = Missing THEN passed ELSE passed + 1
  PROVE  LookedAt'
<1>. DEFINE this == File[step + 1]
            content == vectors[this]
<1>1. /\ step \in 0 .. 3 /\ step + 1 \in 1 .. 4 /\ this \in Names
      /\ seen' = [seen EXCEPT ![this] = Some(content)]
      /\ DOMAIN seen = Names /\ seen[this] = None
  BY FourFiles DEF Looks, LookedAt, IInv
<1>2. /\ seen'[this] = Some(content)
      /\ \A file \in Names : file # this => seen'[file] = seen[file]
  BY <1>1
<1>3. \A n \in 1 .. 4 : seen'[File[n]] = None <=> n > step'
  <2>. SUFFICES ASSUME NEW n \in 1 .. 4
                PROVE  seen'[File[n]] = None <=> n > step + 1
    OBVIOUS
  <2>1. CASE n = step + 1
    BY <1>1, <1>2, <2>1, Options
  <2>2. CASE n # step + 1
    <3>1. File[n] \in Names /\ File[n] # this
      BY <1>1, <2>2, FourFiles
    <3>2. seen'[File[n]] = seen[File[n]]
      BY <1>2, <3>1
    <3>3. seen[File[n]] = None <=> n > step
      BY DEF LookedAt
    <3>. QED BY <1>1, <2>2, <3>2, <3>3
  <2>. QED BY <2>1, <2>2
<1>4. \A file \in Names : Checked(file)'
  <2>. SUFFICES ASSUME NEW file \in Names, NEW other,
                       seen'[file] = Some(other), other # Missing
                PROVE  FileMatches(file, other)
    BY DEF Checked
  <2>1. CASE file = this
    <3>1. other = content
      BY <1>2, <2>1, Options
    <3>. QED BY <2>1, <3>1
  <2>2. CASE file # this
    BY <1>2, <2>2 DEF LookedAt, Checked
  <2>. QED BY <2>1, <2>2
<1>5. passed' = Cardinality(Counted')
  <2>0. IsFiniteSet(Counted) /\ this \notin Counted
    <3>1. IsFiniteSet(Counted)
      BY FourFiles, FS_Subset DEF Counted
    <3>. QED BY <1>1, <3>1 DEF Counted, Present
  <2>1. \A file \in Names : file # this => (Present(file)' <=> Present(file))
    BY <1>2 DEF Present
  <2>2. \A file \in Names : file = this => (Present(file)' <=> content # Missing)
    BY <1>2, Options DEF Present
  <2>3. CASE content = Missing
    <3>1. Counted' = Counted
      BY <2>0, <2>1, <2>2, <2>3 DEF Counted
    <3>. QED BY <2>3, <3>1 DEF LookedAt
  <2>4. CASE content # Missing
    <3>1. Counted' = Counted \cup {this}
      BY <1>1, <2>0, <2>1, <2>2, <2>4 DEF Counted
    <3>2. Cardinality(Counted') = Cardinality(Counted) + 1
      BY <2>0, <3>1, FS_AddElement
    <3>. QED BY <2>4, <3>2 DEF LookedAt
  <2>. QED BY <2>3, <2>4
<1>6. ASSUME NEW n \in 1 .. 4
      PROVE  /\ n <= step' => (File[n] \in found' <=> Present(File[n])')
             /\ n > step' + 1 => File[n] \notin found'
  <2>1. CASE n = step + 1
    <3>1. File[n] = this /\ n <= step' /\ ~ n > step' + 1
      BY <1>1, <2>1
    <3>2. seen'[File[n]] = Some(content)
      BY <1>2, <3>1
    <3>3. Present(File[n])' <=> content # Missing
      BY <3>2, Options DEF Present
    <3>4. File[n] \in found' <=> content # Missing
      BY <3>1
    <3>. QED BY <3>1, <3>3, <3>4
  <2>2. CASE n # step + 1
    <3>1. File[n] \in Names /\ File[n] # this
      BY <1>1, <2>2, FourFiles
    <3>2. Present(File[n])' <=> Present(File[n])
      BY <1>2, <3>1 DEF Present
    <3>3. /\ n <= step => (File[n] \in found <=> Present(File[n]))
          /\ n > step + 1 => File[n] \notin found
      BY DEF LookedAt
    <3>4. (n <= step' => n <= step) /\ (n > step' + 1 => n > step + 1)
      BY <1>1, <2>2
    <3>. QED BY <3>2, <3>3, <3>4
  <2>. QED BY <2>1, <2>2
<1>. QED BY <1>1, <1>3, <1>4, <1>5, <1>6 DEF LookedAt

\* What a command looks at and the block vector it may find there.
LEMMA LooksAtCommitted ==
  ASSUME IInv, Looks, step \in 0 .. 3
  PROVE  DOMAIN seen' = Names /\ BlockVectorInv'
<1>. DEFINE this == File[step + 1]
<1>1. /\ this \in Names /\ vectors' = vectors /\ DOMAIN seen = Names
      /\ seen' = [seen EXCEPT ![this] = Some(vectors[this])]
  BY FourFiles DEF Looks, Running, files, IInv
<1>. HIDE DEF this
<1>2. DOMAIN seen' = Names
  BY <1>1
<1>3. seen'["bsv_block_v1"]
        \in {None} \cup {Some(content) : content \in Content["bsv_block_v1"]}
  <2>1. CASE this = "bsv_block_v1"
    <3>1. seen'["bsv_block_v1"] = Some(vectors["bsv_block_v1"])
      BY <1>1, <2>1
    <3>. QED BY <3>1 DEF IInv, BlockVectorInv
  <2>2. CASE this # "bsv_block_v1"
    BY <1>1, <2>2 DEF IInv, BlockVectorInv
  <2>. QED BY <2>1, <2>2
<1>. QED BY <1>1, <1>2, <1>3 DEF IInv, BlockVectorInv

\* A command starts afresh.
LEMMA StartKeeps ==
  ASSUME IInv, NEW cmd \in {"selftest", "reproduce"}, Start(cmd)
  PROVE  IInv'
<1>1. /\ seen' = [file \in Names |-> None] /\ step' = 0 /\ passed' = 0
      /\ outcome' = "running" /\ vectors' = vectors /\ found' = {}
  BY DEF Start, files
<1>2. Counted' = {}
  BY <1>1 DEF Counted, Present
<1>3. LookedAt'
  <2>1. \A n \in 1 .. 4 : seen'[File[n]] = None /\ n > 0
    BY <1>1, FourFiles
  <2>2. \A file \in Names : Checked(file)'
    BY <1>1, Options DEF Checked
  <2>3. \A n \in 1 .. 4 : ~ n <= step' /\ File[n] \notin found'
    BY <1>1
  <2>. QED BY <1>1, <1>2, <2>1, <2>2, <2>3, FS_EmptySet DEF LookedAt
<1>4. BlockVectorInv'
  <2>1. seen'["bsv_block_v1"] = None
    BY <1>1, FourFiles DEF File
  <2>. QED BY <1>1, <2>1 DEF IInv, BlockVectorInv
<1>. QED BY <1>1, <1>3, <1>4 DEF IInv

\* selftest looks at no file, and fails with the check that fails.
LEMMA SelftestKeeps ==
  ASSUME IInv, SelftestStep \/ SelftestEnds
  PROVE  IInv'
<1>1. /\ command = "selftest" /\ outcome = "running"
      /\ command' = command /\ seen' = seen /\ vectors' = vectors /\ found' = found
  BY DEF SelftestStep, SelftestEnds, Running, files
<1>2. /\ BlockVectorInv' /\ DOMAIN seen' = Names /\ step' \in 0 .. 5
      /\ found' \subseteq Names
  BY <1>1 DEF IInv, BlockVectorInv, SelftestStep, SelftestEnds
<1>3. outcome' = "failed" => Drifted'
  <2>. SUFFICES ASSUME outcome' = "failed" PROVE \E n \in 1 .. 5 : ~ SelfCheck(n)
    BY <1>1 DEF Drifted
  <2>1. step < 5 /\ ~ SelfCheck(step + 1)
    BY <1>1 DEF SelftestStep, SelftestEnds
  <2>2. step + 1 \in 1 .. 5
    BY <2>1 DEF IInv
  <2>. QED BY <2>1, <2>2
<1>. QED BY <1>1, <1>2, <1>3 DEF IInv

\* A file that is missing.
LEMMA SkipKeeps ==
  ASSUME IInv, SkipMissing
  PROVE  IInv'
<1>1. /\ Looks /\ command = "reproduce" /\ outcome = "running" /\ command' = command
      /\ outcome' = "running" /\ found' = found
  BY DEF SkipMissing, Absent, Looks, Running
<1>2. LookedAt /\ step \in 0 .. 3
  BY <1>1 DEF IInv, LookedAt, Looks
<1>3. DOMAIN seen' = Names /\ BlockVectorInv'
  BY <1>1, <1>2, LooksAtCommitted
<1>4. /\ vectors[File[step + 1]] = Missing /\ File[step + 1] \notin found
      /\ step' = step + 1 /\ passed' = passed
  BY DEF SkipMissing, Absent
<1>5. LookedAt'
  BY <1>1, <1>2, <1>4, LooksOnce
<1>6. step' \in 0 .. 5
  BY <1>2, <1>4
<1>. QED BY <1>1, <1>3, <1>5, <1>6 DEF IInv

\* One that is there.
LEMMA FindKeeps ==
  ASSUME IInv, FindFile
  PROVE  IInv'
<1>. DEFINE this == File[step + 1]
<1>1. /\ command = "reproduce" /\ outcome = "running"
      /\ UNCHANGED <<vectors, command, step, passed, seen, outcome>>
      /\ found' = found \cup {this} /\ step < 4
  BY DEF FindFile, Running, files
<1>2. LookedAt /\ step \in 0 .. 3 /\ this \in Names
  BY <1>1, FourFiles DEF IInv, LookedAt
<1>3. \A file \in Names : (Present(file)' <=> Present(file)) /\ (Checked(file)' <=> Checked(file))
  BY <1>1 DEF Present, Checked
<1>4. Counted' = Counted
  BY <1>3 DEF Counted
<1>5. ASSUME NEW n \in 1 .. 4
      PROVE  /\ n <= step' => (File[n] \in found' <=> Present(File[n])')
             /\ n > step' + 1 => File[n] \notin found'
  <2>1. CASE n = step + 1
    BY <1>1, <1>2, <2>1
  <2>2. CASE n # step + 1
    <3>1. File[n] \in Names /\ File[n] # this
      BY <1>2, <2>2, FourFiles
    <3>2. File[n] \in found' <=> File[n] \in found
      BY <1>1, <3>1
    <3>3. /\ n <= step => (File[n] \in found <=> Present(File[n]))
          /\ n > step + 1 => File[n] \notin found
      BY <1>2 DEF LookedAt
    <3>. QED BY <1>1, <1>3, <3>1, <3>2, <3>3
  <2>. QED BY <2>1, <2>2
<1>6. LookedAt'
  <2>1. step' \in 0 .. 4 /\ passed' = Cardinality(Counted')
    BY <1>1, <1>2, <1>4 DEF LookedAt
  <2>2. \A n \in 1 .. 4 : seen'[File[n]] = None <=> n > step'
    BY <1>1, <1>2 DEF LookedAt
  <2>3. \A file \in Names : Checked(file)'
    BY <1>2, <1>3 DEF LookedAt
  <2>. QED BY <1>5, <2>1, <2>2, <2>3 DEF LookedAt
<1>7. BlockVectorInv' /\ DOMAIN seen' = Names /\ found' \subseteq Names
  BY <1>1, <1>2 DEF IInv, BlockVectorInv
<1>. QED BY <1>1, <1>2, <1>6, <1>7 DEF IInv

\* One that matches, and one that does not or makes vaa panic.
LEMMA ChecksKeep ==
  ASSUME IInv, CheckFile \/ CheckPanics
  PROVE  IInv'
<1>. DEFINE this == File[step + 1]
            content == vectors[this]
<1>1. /\ Looks /\ command = "reproduce" /\ outcome = "running" /\ command' = command
      /\ found' = found /\ this \in found
  BY DEF CheckFile, CheckPanics, Looks, Running
<1>2. LookedAt /\ step \in 0 .. 3 /\ this \in Names /\ seen'[this] = Some(content)
  BY <1>1, FourFiles DEF IInv, LookedAt, Looks
<1>3. DOMAIN seen' = Names /\ BlockVectorInv' /\ found' \subseteq Names
  BY <1>1, <1>2, LooksAtCommitted DEF IInv
<1>4. CASE CheckFile /\ FileMatches(this, content)
  <2>1. step' = step + 1 /\ passed' = passed + 1 /\ outcome' = "running"
    BY <1>1, <1>4 DEF CheckFile
  <2>2. content # Missing
    BY <1>4 DEF FileMatches
  <2>3. LookedAt'
    BY <1>1, <1>2, <1>4, <2>1, <2>2, LooksOnce
  <2>4. step' \in 0 .. 5
    BY <1>2, <2>1
  <2>. QED BY <1>1, <1>3, <2>1, <2>3, <2>4 DEF IInv
<1>5. CASE CheckFile /\ ~ FileMatches(this, content)
  <2>1. outcome' = "failed" /\ step' = step
    BY <1>5 DEF CheckFile
  <2>2. PICK file \in Names : file = this
    BY <1>2
  <2>3. ~ Checked(file)' \/ Vanished(file)'
    <3>1. CASE content = Missing
      BY <1>1, <1>2, <2>2, <3>1 DEF Vanished
    <3>2. CASE content # Missing
      BY <1>2, <1>5, <2>2, <3>2 DEF Checked
    <3>. QED BY <3>1, <3>2
  <2>. QED BY <1>1, <1>2, <1>3, <2>1, <2>3 DEF IInv, Drifted
<1>6. CASE CheckPanics
  <2>1. /\ outcome' = "failed" /\ step' = step /\ this = "storage_1024"
        /\ content \notin {Missing, Torn} /\ StoragePanics(content)
    BY <1>6 DEF CheckPanics
  <2>2. PICK file \in Names : file = this
    BY <1>2
  <2>3. Panics(file)'
    <3>1. file = "storage_1024" /\ seen'[file] = Some(content)
      BY <1>2, <2>1, <2>2
    <3>. QED BY <2>1, <3>1 DEF Panics
  <2>. QED BY <1>1, <1>2, <1>3, <2>1, <2>3 DEF IInv, Drifted
<1>. QED BY <1>1, <1>4, <1>5, <1>6

\* At the end the files found are those that were seen.
LEMMA FoundIsCounted ==
  ASSUME IInv, LookedAt, step = 4
  PROVE  found = Counted
<1>1. \A n \in 1 .. 4 : File[n] \in found <=> Present(File[n])
  BY DEF LookedAt
<1>2. \A file \in Names : file \in found <=> Present(file)
  BY <1>1, FourFiles
<1>. QED BY <1>2 DEF IInv, Counted

\* The last line tells how many files matched, and that none at all is a failure.
LEMMA ReproduceEndsKeeps ==
  ASSUME IInv, ReproduceEnds
  PROVE  IInv'
<1>1. /\ LookedAt /\ step = 4 /\ command = "reproduce"
      /\ UNCHANGED <<vectors, command, step, passed, found, seen>>
      /\ outcome' = IF passed = 0 THEN "failed" ELSE "passed"
  BY DEF ReproduceEnds, Running, files, IInv
<1>2. LookedAt' /\ BlockVectorInv' /\ DOMAIN seen' = Names
  <2>1. LookedAt'
    BY <1>1 DEF LookedAt, Counted, Present, Checked
  <2>. QED BY <1>1, <2>1 DEF IInv, BlockVectorInv
<1>3. IsFiniteSet(Counted)
  BY FourFiles, FS_Subset DEF Counted
<1>4. passed \in Nat
  BY <1>1, <1>3, FS_CardinalityType DEF LookedAt
<1>5. outcome' = "passed" => passed' > 0
  BY <1>1, <1>4
<1>6. outcome' = "failed" => Drifted'
  <2>. SUFFICES ASSUME passed = 0 PROVE found = {}
    BY <1>1 DEF Drifted
  <2>1. Counted = {}
    BY <1>1, <1>3, FS_EmptySet DEF LookedAt
  <2>. QED BY <1>1, <2>1, FoundIsCounted
<1>. QED BY <1>1, <1>2, <1>5, <1>6 DEF IInv

\* Files change and commands do not notice.
LEMMA EditKeeps ==
  ASSUME IInv, UNCHANGED <<command, step, passed, found, seen, outcome>>, BlockVectorInv'
  PROVE  IInv'
<1>1. (LookedAt' <=> LookedAt) /\ (Drifted' <=> Drifted)
  <2>1. \A file \in Names : (Checked(file)' <=> Checked(file))
                            /\ (Present(file)' <=> Present(file))
                            /\ (Vanished(file)' <=> Vanished(file))
                            /\ (Panics(file)' <=> Panics(file))
    BY DEF Checked, Present, Vanished, Panics
  <2>2. Counted' = Counted
    BY <2>1 DEF Counted
  <2>3. LookedAt' <=> LookedAt
    <3>1. \A n \in 1 .. 4 : Present(File[n])' <=> Present(File[n])
      BY DEF Present
    <3>. QED BY <2>1, <2>2, <3>1 DEF LookedAt
  <2>4. Drifted' <=> Drifted
    BY <2>1 DEF Drifted
  <2>. QED BY <2>3, <2>4
<1>. QED BY <1>1 DEF IInv

\* The invariant holds in every state of the specification.
LEMMA CountInvariance == Spec => []IInv
<1>1. Init => IInv
  <2>. SUFFICES ASSUME Init PROVE IInv
    OBVIOUS
  <2>1. "bsv_block_v1" \in Names
    BY FourFiles DEF Names, File
  <2>2. BlockVectorInv
    BY <2>1, Options DEF Init, BlockVectorInv
  <2>. QED BY <2>2 DEF Init, IInv
<1>2. IInv /\ [Next]_vars => IInv'
  <2>. SUFFICES ASSUME IInv, [Next]_vars PROVE IInv'
    OBVIOUS
  <2>1. CASE \E cmd \in {"selftest", "reproduce"} : Start(cmd)
    BY <2>1, StartKeeps
  <2>2. CASE SelftestStep \/ SelftestEnds
    BY <2>2, SelftestKeeps
  <2>3. CASE SkipMissing \/ FindFile \/ CheckFile \/ CheckPanics
    BY <2>3, SkipKeeps, FindKeeps, ChecksKeep
  <2>4. CASE ReproduceEnds
    BY <2>4, ReproduceEndsKeeps
  <2>5. ASSUME NEW file \in Names, Commit(file) PROVE IInv'
    <3>1. UNCHANGED <<command, step, passed, found, seen, outcome>>
      BY <2>5 DEF Commit, Edit
    <3>2. PICK content \in Content[file] : vectors' = [vectors EXCEPT ![file] = content]
      BY <2>5 DEF Commit
    <3>3. BlockVectorInv'
      BY <3>1, <3>2 DEF IInv, BlockVectorInv
    <3>. QED BY <3>1, <3>3, EditKeeps
  <2>6. ASSUME NEW file \in Studies,
               StudyStartsWriting(file) \/ StudyWrites(file) \/ StudyKilled(file)
        PROVE  IInv'
    <3>1. UNCHANGED <<command, step, passed, found, seen, outcome>>
      BY <2>6 DEF StudyStartsWriting, StudyWrites, StudyKilled, Edit
    <3>2. vectors' = vectors \/ \E content : vectors' = [vectors EXCEPT ![file] = content]
      BY <2>6 DEF StudyStartsWriting, StudyWrites, StudyKilled
    <3>3. DOMAIN vectors' = DOMAIN vectors
          /\ vectors'["bsv_block_v1"] = vectors["bsv_block_v1"]
      <4>1. file # "bsv_block_v1"
        BY DEF Studies
      <4>2. CASE vectors' = vectors
        BY <4>2
      <4>3. ASSUME NEW content, vectors' = [vectors EXCEPT ![file] = content]
            PROVE  DOMAIN vectors' = DOMAIN vectors
                   /\ vectors'["bsv_block_v1"] = vectors["bsv_block_v1"]
        BY <4>1, <4>3
      <4>. QED BY <3>2, <4>2, <4>3
    <3>4. BlockVectorInv'
      BY <3>1, <3>3 DEF IInv, BlockVectorInv
    <3>. QED BY <3>1, <3>4, EditKeeps
  <2>7. CASE UNCHANGED vars
    BY <2>7, EditKeeps DEF vars, files, IInv, BlockVectorInv
  <2>. QED BY <2>1, <2>2, <2>3, <2>4, <2>5, <2>6, <2>7 DEF Next, CommandStep
<1>. QED BY <1>1, <1>2, PTL DEF Spec

(***************************************************************************)
(* For all contents of the files and every number of changes: when         *)
(* reproduce passes, the number it prints is that of the files that were   *)
(* there when it came to them, at least one, none of them torn.            *)
(***************************************************************************)
THEOREM ReproduceCountsWholeFiles == Spec => []CountIsOfWholeFiles
<1>1. IInv => CountIsOfWholeFiles
  <2>. SUFFICES ASSUME IInv, Passed("reproduce") PROVE CountIsOfWholeFiles
    BY DEF CountIsOfWholeFiles
  <2>1. LookedAt /\ step = 4 /\ passed > 0 /\ found = Counted
    BY FoundIsCounted DEF IInv, Passed
  <2>2. \A file \in Names : seen[file] \notin {None, Some(Torn)}
    <3>. SUFFICES ASSUME NEW n \in 1 .. 4
                  PROVE  seen[File[n]] # None /\ seen[File[n]] # Some(Torn)
      BY FourFiles
    <3>1. seen[File[n]] # None
      BY <2>1 DEF LookedAt
    <3>2. Checked(File[n])
      BY <2>1, FourFiles DEF LookedAt
    <3>3. ~ FileMatches(File[n], Torn)
      BY DEF FileMatches
    <3>. QED BY <3>1, <3>2, <3>3, FilesApart DEF Checked
  <2>. QED BY <2>1, <2>2 DEF CountIsOfWholeFiles, LookedAt, Counted
<1>. QED BY <1>1, CountInvariance, PTL

\* unwrap takes out what Some put in.
LEMMA Unwrapped == \A x : unwrap(Some(x)) = x
BY DEF unwrap, Some

(***************************************************************************)
(* With a hash that never collides, and txids that are no hashes of pairs: *)
(* a block vector that reproduce passed with the root of the block has the *)
(* block's txids, up to the repetition of last ones, however the files     *)
(* changed before, during and after the command.                           *)
(***************************************************************************)
THEOREM BlockVectorsBound ==
  ASSUME CollisionFree,
         \A i \in DOMAIN Block : NoPair(Block[i]),
         \A content \in Content["bsv_block_v1"] \ {Missing, Torn} :
           content.txids_display_be # None =>
             LET txids == unwrap(content.txids_display_be) IN
             \A i \in DOMAIN txids :
               Decodes(txids[i]) => NoPair(display_to_internal(txids[i]))
  PROVE  Spec => []BlockVectorBound
<1>1. IInv => BlockVectorBound
  <2>. DEFINE v == unwrap(seen["bsv_block_v1"])
              texts == unwrap(v.txids_display_be)
              txids == Read(texts)
              n == VecLen(texts)
              m == VecLen(Block)
  <2>. SUFFICES ASSUME IInv, Passed("reproduce"), Present("bsv_block_v1"),
                       v.expected_merkle_root_display_be
                         = Some(internal_to_display(MerkleRoot(Block)))
                PROVE  /\ Unfolded(txids) = Unfolded(Block)
                       /\ VecLen(txids) = VecLen(Block) => txids = Block
    BY DEF BlockVectorBound
  <2>1. v \in Content["bsv_block_v1"] /\ v \notin {Missing, Torn} /\ BlockMatches(v)
    <3>1. PICK content \in Content["bsv_block_v1"] : seen["bsv_block_v1"] = Some(content)
      BY DEF IInv, BlockVectorInv, Present
    <3>2. v = content /\ content # Missing
      BY <3>1, Unwrapped DEF Present
    <3>3. "bsv_block_v1" \in Names
      BY FourFiles DEF File
    <3>4. FileMatches("bsv_block_v1", content)
      BY <3>1, <3>2, <3>3 DEF IInv, Passed, LookedAt, Checked
    <3>. QED BY <3>2, <3>4 DEF FileMatches
  <2>. HIDE DEF v
  <2>2. /\ v.txids_display_be # None /\ texts # <<>>
        /\ \A i \in DOMAIN texts : Decodes(texts[i])
        /\ internal_to_display(MerkleRoot(txids)) = unwrap(v.expected_merkle_root_display_be)
    BY <2>1 DEF BlockMatches
  <2>3. n \in Nat \ {0} /\ IsVec(texts, n) /\ DOMAIN texts = 0 .. n - 1
    <3>1. n \in Nat /\ IsVec(texts, n)
      BY <2>1, <2>2, BlockAssumption
    <3>2. n # 0
      <4>. SUFFICES ASSUME n = 0 PROVE FALSE
        OBVIOUS
      <4>1. texts = [i \in {} |-> texts[i]]
        BY <3>1, 0 .. 0 - 1 = {} DEF IsVec
      <4>. QED BY <2>2, <4>1
    <3>. QED BY <3>1, <3>2, VecShape
  <2>4. \A i \in DOMAIN texts : NoPair(display_to_internal(texts[i]))
    BY <2>1, <2>2
  <2>5. MerkleRoot(txids) = MerkleRoot(Block)
    <3>1. internal_to_display(MerkleRoot(txids)) = internal_to_display(MerkleRoot(Block))
      BY <2>2, Unwrapped
    <3>2. \A h, g : internal_to_display(h) = internal_to_display(g) => h = g
      BY DEF internal_to_display
    <3>. QED BY <3>1, <3>2
  <2>. HIDE DEF n, texts
  <2>6. /\ DOMAIN txids = 0 .. n - 1 /\ IsVec(txids, n)
        /\ \A i \in 0 .. n - 1 : NoPair(txids[i])
    BY <2>3, <2>4 DEF Read, IsVec
  <2>7. /\ m \in Nat \ {0} /\ IsVec(Block, m) /\ DOMAIN Block = 0 .. m - 1
        /\ \A i \in 0 .. m - 1 : NoPair(Block[i])
    BY BlockAssumption, VecShape
  <2>. HIDE DEF txids, m
  <2>8. Unfolded(txids) = Unfolded(Block)
    BY <2>3, <2>5, <2>6, <2>7, RootIsOfUnfolded
  <2>9. ASSUME VecLen(txids) = m PROVE txids = Block
    <3>1. n = m
      BY <2>3, <2>6, <2>9, VecLenOfDomain
    <3>2. SameLeaves(txids, n, Block, m)
      BY <2>3, <2>5, <2>6, <2>7, SameRootSameLeaves
    <3>3. \A i \in 0 .. n - 1 : txids[i] = Block[i]
      <4>. SUFFICES ASSUME NEW i \in 0 .. n - 1 PROVE txids[i] = Block[i]
        OBVIOUS
      <4>1. i < m
        BY <2>3, <3>1
      <4>. QED BY <3>2, <4>1 DEF SameLeaves
    <3>. QED BY <2>3, <2>6, <2>7, <3>1, <3>3, VecExtensional
  <2>. QED BY <2>8, <2>9 DEF m
<1>. QED BY <1>1, CountInvariance, PTL
-------------------------------------------------------------------------------
(***************************************************************************)
(* selftest.  The operators of its proof store are those of Shards and     *)
(* MerkleTree, in an instance.                                             *)
(***************************************************************************)
LEMMA SameStore ==
  ASSUME NEW map, NEW labels
  PROVE  /\ \A s, level : Store(map, labels)!ShardProof(s, level) = ShardProof(s, level)
         /\ \A v, level : Store(map, labels)!Assistance(v, level) = Assistance(v, level)
         /\ \A stored : Store(map, labels)!Reassemble(stored) = Reassemble(stored)
         /\ \A stored : Store(map, labels)!LowerSiblings(stored) = LowerSiblings(stored)
         /\ \A proof, leaf : Store(map, labels)!Walk(proof, leaf) = Walk(proof, leaf)
         /\ \A index : Store(map, labels)!Shifted(index) = Shifted(index)
         /\ \A v : Store(map, labels)!VecLen(v) = VecLen(v)
         /\ \A i, j : Store(map, labels)!Least(i, j) = Least(i, j)
         /\ \A v : Store(map, labels)!MerkleRoot(v) = MerkleRoot(v)
         /\ \A proof, leaf, root :
              Store(map, labels)!Verifies(proof, leaf, root) <=> Verifies(proof, leaf, root)
<1>1. \A S : Store(map, labels)!Cardinality(S) = Cardinality(S)
  BY DEF Store!Cardinality, Cardinality
<1>2. \A v : Store(map, labels)!VecLen(v) = VecLen(v)
  BY <1>1 DEF Store!VecLen, VecLen
<1>3. \A s, from, to : Store(map, labels)!Shard(s, from, to) = Shard(s, from, to)
  BY DEF Store!Shard, Shard
<1>4. \A i, j : Store(map, labels)!Least(i, j) = Least(i, j)
  BY DEF Store!Least, Least
<1>5. \A s, level : Store(map, labels)!ShardProof(s, level) = ShardProof(s, level)
  BY <1>2, <1>3, <1>4 DEF Store!ShardProof, ShardProof
<1>6. \A stored : Store(map, labels)!Reassemble(stored) = Reassemble(stored)
  <2>1. \A v, w : Store(map, labels)!Extend(v, w) = Extend(v, w)
    BY <1>2 DEF Store!Extend, Extend
  <2>2. \A shards : Store(map, labels)!Concatenations(shards) = Concatenations(shards)
    BY <2>1 DEF Store!Concatenations, Concatenations
  <2>3. \A s : Store(map, labels)!Len(s) = Len(s)
    OBVIOUS
  <2>4. \A shards : Store(map, labels)!Concatenated(shards) = Concatenated(shards)
    BY <2>2, <2>3 DEF Store!Concatenated, Concatenated
  <2>. QED BY <2>4 DEF Store!Reassemble, Reassemble
<1>7. \A stored : Store(map, labels)!LowerSiblings(stored) = LowerSiblings(stored)
  BY DEF Store!LowerSiblings, LowerSiblings
<1>8. \A v : Store(map, labels)!Levels(v) = Levels(v)
  <2>1. \A v : Store(map, labels)!Pad(v) = Pad(v)
    BY <1>2 DEF Store!Pad, Pad
  <2>2. \A v : Store(map, labels)!NextLevel(v) = NextLevel(v)
    BY <1>2, <2>1 DEF Store!NextLevel, NextLevel
  <2>. QED BY <2>2 DEF Store!Levels, Levels
<1>9. \A v : Store(map, labels)!Height(v) = Height(v)
  <2>1. \A v, d : Store(map, labels)!IsHeight(v, d) <=> IsHeight(v, d)
    BY <1>2, <1>8 DEF Store!IsHeight, IsHeight
  <2>. QED BY <1>2, <2>1 DEF Store!Height, Height
<1>10. \A v : Store(map, labels)!MerkleRoot(v) = MerkleRoot(v)
  BY <1>8, <1>9 DEF Store!MerkleRoot, MerkleRoot
<1>11. \A v, level : Store(map, labels)!Assistance(v, level) = Assistance(v, level)
  BY <1>4, <1>8, <1>9 DEF Store!Assistance, Assistance
<1>12. \A index : Store(map, labels)!Shifted(index) = Shifted(index)
  BY DEF Store!Shifted, Shifted
<1>13. \A proof, leaf : Store(map, labels)!Walk(proof, leaf) = Walk(proof, leaf)
  <2>1. \A idx, x, y : Store(map, labels)!HashUp(idx, x, y) = HashUp(idx, x, y)
    BY DEF Store!HashUp, HashUp
  <2>. QED BY <1>12, <2>1 DEF Store!Walk, Walk
<1>14. \A proof, leaf, root :
         Store(map, labels)!Verifies(proof, leaf, root) <=> Verifies(proof, leaf, root)
  BY <1>2, <1>13 DEF Store!Verifies, Verifies, Store!ReconstructRoot, ReconstructRoot
<1>. QED BY <1>2, <1>4, <1>5, <1>6, <1>7, <1>10, <1>11, <1>12, <1>13, <1>14

\* The fourth leaf of eight.
LEMMA TestTree ==
  /\ \E n \in Nat \ {0} : DOMAIN leaves = 0 .. n - 1 /\ 3 \in 0 .. n - 1
  /\ leaves[3] = TestLeaf(4)
<1>1. 8 \in Nat \ {0} /\ DOMAIN leaves = 0 .. 8 - 1 /\ 3 \in 0 .. 8 - 1
  BY DEF leaves
<1>2. leaves[3] = TestLeaf(4)
  BY DEF leaves
<1>. QED BY <1>1, <1>2

\* The proof of the fourth leaf is accepted for it and for no other hash.
LEMMA MerkleChecksPass ==
  ASSUME CollisionFree, Junk # TestLeaf(4)
  PROVE  MerkleChecks
<1>. PICK n \in Nat \ {0} : DOMAIN leaves = 0 .. n - 1 /\ 3 \in 0 .. n - 1
  BY TestTree
<1>. DEFINE proof == MerkleProof(leaves, 3)
            root == MerkleRoot(leaves)
<1>1. Verifies(proof, leaves[3], root)
  BY MerkleRoundTrip
<1>2. ASSUME Verifies(proof, Junk, root) PROVE FALSE
  <2>1. Height(leaves) \in Nat
    BY HeightShape
  <2>2. proof.leaf_index = 3 /\ VecLen(proof.siblings) = Height(leaves)
    BY <2>1, SiblingsShape DEF MerkleProof
  <2>3. ~ Collides(leaves, proof, Junk)
    BY NoCollision
  <2>. HIDE DEF proof
  <2>4. proof.leaf_index \in 0 .. n - 1
    BY <2>2
  <2>5. Junk = leaves[proof.leaf_index]
    BY <1>2, <2>2, <2>3, <2>4, MerkleSoundness
  <2>. QED BY <2>2, <2>5, TestTree
<1>. QED BY <1>1, <1>2 DEF MerkleChecks

\* The proof stored for it verifies, from its shards and from the labels.
LEMMA StoreChecksPass == StoreChecks
<1>. PICK n \in Nat \ {0} : DOMAIN leaves = 0 .. n - 1 /\ 3 \in 0 .. n - 1
  BY TestTree
<1>. DEFINE siblings == SiblingsOf(leaves, 3)
            shards == ShardProof(siblings, 1)
            root == MerkleRoot(leaves)
            stored == [key |-> 42, leaf_index |-> 3, shards |-> shards,
                       expected_root |-> root]
            map == [k \in {42} |-> [key |-> k, leaf_index |-> 3, shards |-> shards,
                                    expected_root |-> root]]
            labels == [r \in {root} |-> Assistance(leaves, 1)]
            k == Least(Assistance(leaves, 1).predetermined_level,
                       VecLen(LowerSiblings(stored)))
            lower == [leaf_index |-> 3, siblings |-> LowerSiblings(stored)]
<1>1. stored.leaf_index = 3 /\ stored.shards = shards /\ stored.expected_root = root
  OBVIOUS
<1>2. /\ DOMAIN labels = {root} /\ labels[root] = Assistance(leaves, 1)
      /\ 42 \in DOMAIN map /\ map[42] = stored
  OBVIOUS
<1>. HIDE DEF stored, labels, map, shards, root
<1>3. Reassemble(stored) = MerkleProof(leaves, 3)
  BY <1>1, StoredReassembles DEF shards
<1>4. Verifies(Reassemble(stored), leaves[3], stored.expected_root)
  BY <1>1, <1>3, MerkleRoundTrip DEF root
<1>5. Store(map, labels)!Verify(leaves[3], stored) = "Ok"
  BY <1>4, SameStore DEF Store!Verify
<1>6. /\ Shifted(3)[k] < VecLen(Assistance(leaves, 1).node_labels)
      /\ Assistance(leaves, 1).node_labels[Shifted(3)[k]] = Walk(lower, leaves[3])[k]
      /\ MerkleRoot(Assistance(leaves, 1).node_labels) = root
  BY <1>1, LabelsComplete DEF shards, root
<1>7. Store(map, labels)!VerifyWithAssistance(leaves[3], stored) = "Ok"
  <2>1. Store(map, labels)!LevelReached(stored, Assistance(leaves, 1)) = k
    BY SameStore DEF Store!LevelReached
  <2>2. Store(map, labels)!LowerProof(stored) = lower
    BY <1>1, SameStore DEF Store!LowerProof
  <2>. HIDE DEF k, lower
  <2>3. Store(map, labels)!LabelMatches(leaves[3], stored, Assistance(leaves, 1))
    BY <1>1, <1>6, <2>1, <2>2, SameStore DEF Store!LabelMatches
  <2>. QED BY <1>1, <1>2, <1>6, <2>3, SameStore DEF Store!VerifyWithAssistance
<1>8. /\ Store(<<>>, <<>>)!ShardProof(MerkleProof(leaves, 3).siblings, 1) = shards
      /\ Store(<<>>, <<>>)!Assistance(leaves, 1) = Assistance(leaves, 1)
      /\ Store(<<>>, <<>>)!MerkleRoot(leaves) = root
  BY SameStore DEF MerkleProof, shards, root
<1>. QED BY <1>2, <1>5, <1>7, <1>8 DEF StoreChecks, map, labels, root

-------------------------------------------------------------------------------
(***************************************************************************)
(* The books of selftest, whose sums fit a word.                           *)
(***************************************************************************)
CheckedStep(items, j, x) == Books!CheckedAdd(x, items[j + 1])

CheckedLoop == INSTANCE Iteration WITH Step <- CheckedStep

LEMMA CheckedSumsEquations ==
  ASSUME NEW items
  PROVE  /\ Books!CheckedSums(items)[0] = 0
         /\ \A n \in Nat : Books!CheckedSums(items)[n + 1]
                             = Books!CheckedAdd(Books!CheckedSums(items)[n], items[n + 1])
<1>. DEFINE C == CheckedLoop!Iterates(items, 0)
<1>1. Books!CheckedSums(items) = C
  BY DEF Books!CheckedSums, CheckedLoop!Iterates, CheckedStep
<1>2. C[0] = 0 /\ \A n \in Nat : C[n + 1] = CheckedStep(items, n, C[n])
  BY CheckedLoop!IterationEquations
<1>. HIDE DEF C
<1>. QED BY <1>1, <1>2 DEF CheckedStep

\* The sums after the first two entries and the two that follow them.
LEMMA SmallSums ==
  ASSUME NEW items, NEW a \in Nat, NEW b \in Nat, items[1] = a, items[2] = b,
         a + b <= WordMax
  PROVE  /\ Books!CheckedSums(items)[2] = a + b
         /\ \A c, d \in Nat :
              items[3] = c /\ items[4] = d /\ a + b + c + d <= WordMax
                => Books!CheckedSums(items)[4] = a + b + c + d
<1>. DEFINE C == Books!CheckedSums(items)
<1>1. C[0] = 0 /\ \A n \in Nat : C[n + 1] = Books!CheckedAdd(C[n], items[n + 1])
  BY CheckedSumsEquations
<1>. HIDE DEF C
<1>2. /\ C[0 + 1] = Books!CheckedAdd(C[0], items[0 + 1])
      /\ C[1 + 1] = Books!CheckedAdd(C[1], items[1 + 1])
      /\ C[2 + 1] = Books!CheckedAdd(C[2], items[2 + 1])
      /\ C[3 + 1] = Books!CheckedAdd(C[3], items[3 + 1])
  BY <1>1
<1>3. \A x, y \in Nat : x + y <= WordMax => Books!CheckedAdd(x, y) = x + y
  BY WordMaxAssumption DEF Books!CheckedAdd, Books!Overflow
<1>4. C[1] = a
  <2>1. C[0] = 0 /\ C[0 + 1] = Books!CheckedAdd(C[0], items[0 + 1])
    BY <1>1
  <2>2. Books!CheckedAdd(0, a) = 0 + a
    <3>1. 0 \in Nat /\ 0 + a <= WordMax
      BY WordMaxAssumption
    <3>. QED BY <1>3, <3>1
  <2>. QED BY <2>1, <2>2
<1>5. C[2] = a + b
  BY <1>2, <1>3, <1>4
<1>6. ASSUME NEW c \in Nat, NEW d \in Nat, items[3] = c, items[4] = d,
             a + b + c + d <= WordMax
      PROVE  C[4] = a + b + c + d
  <2>1. a + b \in Nat /\ a + b + c \in Nat /\ a + b + c <= WordMax
    BY <1>6, WordMaxAssumption
  <2>2. C[3] = a + b + c
    BY <1>2, <1>3, <1>5, <1>6, <2>1
  <2>. QED BY <1>2, <1>3, <1>6, <2>1, <2>2
<1>. QED BY <1>5, <1>6 DEF C

LEMMA InvoiceChecksPass == InvoiceChecks
<1>. DEFINE s == [equation |-> "InvoiceTotal", net |-> 100000, tax |-> 21000,
                  discount |-> 4000, gross |-> 117000]
<1>1. /\ Books!LeftSide(s) = <<100000, 21000>>
      /\ Books!RightSide(s) = <<117000, 4000>>
  BY DEF Books!LeftSide, Books!RightSide
<1>2. /\ Books!CheckedSum(<<100000, 21000>>) = 121000
      /\ Books!CheckedSum(<<117000, 4000>>) = 121000
  BY SmallSums, WordMaxAssumption DEF Books!CheckedSum
<1>. HIDE DEF s
<1>3. Books!Verdict(s) = "Ok"
  BY <1>1, <1>2 DEF Books!Verdict, Books!Tally, Books!Overflow
<1>. QED BY <1>3 DEF InvoiceChecks, s

LEMMA RollForwardChecksPass == RollForwardChecks
<1>. DEFINE s == [equation |-> "ArRollForward", ar_open |-> 50000,
                  invoices |-> 60000, ar_close |-> 40000, receipts |-> 65000,
                  credit_notes |-> 3000, write_offs |-> 2000]
<1>1. /\ Books!LeftSide(s) = <<50000, 60000>>
      /\ Books!RightSide(s) = <<40000, 65000, 3000, 2000>>
  BY DEF Books!LeftSide, Books!RightSide
<1>2. /\ Books!CheckedSum(<<50000, 60000>>) = 110000
      /\ Books!CheckedSum(<<40000, 65000, 3000, 2000>>) = 110000
  BY SmallSums, WordMaxAssumption DEF Books!CheckedSum
<1>. HIDE DEF s
<1>3. Books!Verdict(s) = "Ok"
  BY <1>1, <1>2 DEF Books!Verdict, Books!Tally, Books!Overflow
<1>. QED BY <1>3 DEF RollForwardChecks, s

-------------------------------------------------------------------------------
(***************************************************************************)
(* What the code writes into the vectors.  The root of the genesis block   *)
(* is the txid of its one transaction; the root of a block is that of its  *)
(* txids; a storage study computes the baseline of its queries; what a     *)
(* population study writes matches (WrittenVectorReproduces of             *)
(* PopulationStudy).                                                       *)
(***************************************************************************)
GenesisOutput(v) ==
  \E txid : /\ v.coinbase_txid_display_be = Some(internal_to_display(txid))
            /\ v.expected_root_display_be = Some(internal_to_display(txid))

BlockOutput(v) ==
  \E n \in Nat \ {0} : \E txids :
    /\ IsVec(txids, n)
    /\ v.txids_display_be = Some(Displayed(txids))
    /\ v.expected_merkle_root_display_be = Some(internal_to_display(MerkleRoot(txids)))

StorageOutput(v) ==
  \E queries, depth, minimum \in Nat :
    /\ v.n_leaves # None
    /\ v.q_queries = Some(queries)
    /\ v.tree_depth = Some(depth)
    /\ v.baseline_bytes_formula = Some(queries * depth * 32)
    /\ v.minimum_viable_bytes = Some(minimum)
    /\ queries * depth * 32 <= WordMax

OutputsAsWritten ==
  /\ \A file \in Names : Torn \notin Output[file]
  /\ \A v \in Output["genesis_v1"] : GenesisOutput(v)
  /\ \A v \in Output["bsv_block_v1"] : BlockOutput(v)
  /\ \A v \in Output["storage_1024"] : StorageOutput(v)
  /\ \A v \in Output["simstudy_200"] : PopulationMatches(v)

\* The display form of a hash decodes to the hash.
LEMMA DisplayDecodes ==
  \A h : /\ Decodes(internal_to_display(h))
         /\ display_to_internal(internal_to_display(h)) = h
<1>. SUFFICES ASSUME NEW h
              PROVE  /\ Decodes(internal_to_display(h))
                     /\ display_to_internal(internal_to_display(h)) = h
  OBVIOUS
<1>1. internal_to_display(h) = [reversed |-> h, spelling |-> "as written"]
  BY DEF internal_to_display
<1>2. /\ "reversed" \in DOMAIN [reversed |-> h, spelling |-> "as written"]
      /\ [reversed |-> h, spelling |-> "as written"].reversed = h
  OBVIOUS
<1>. QED BY <1>1, <1>2 DEF Decodes, display_to_internal

\* The tree of one txid has that txid for its root.
LEMMA GenesisPasses ==
  ASSUME NEW v, GenesisOutput(v)
  PROVE  GenesisMatches(v)
<1>. PICK txid : /\ v.coinbase_txid_display_be = Some(internal_to_display(txid))
                 /\ v.expected_root_display_be = Some(internal_to_display(txid))
  BY DEF GenesisOutput
<1>. DEFINE tree == [i \in {0} |-> txid]
<1>1. MerkleRoot(tree) = txid
  <2>1. PICK n \in Nat \ {0} : n = 1 /\ DOMAIN tree = 0 .. n - 1
    OBVIOUS
  <2>. HIDE DEF tree
  <2>2. VecLen(tree) = 1 /\ Levels(tree)[0] = tree
    BY <2>1, VecLenOfDomain, LevelsEquations
  <2>3. Height(tree) = 0
    <3>1. Height(tree) \in 0 .. n /\ IsHeight(tree, Height(tree))
      BY <2>1, HeightShape
    <3>2. Height(tree) = 1 => VecLen(Levels(tree)[0]) > 1
      BY <3>1 DEF IsHeight
    <3>. QED BY <2>1, <2>2, <3>1, <3>2
  <2>4. tree[0] = txid
    BY DEF tree
  <2>. QED BY <2>2, <2>3, <2>4 DEF MerkleRoot
<1>2. /\ unwrap(v.coinbase_txid_display_be) = internal_to_display(txid)
      /\ unwrap(v.expected_root_display_be) = internal_to_display(txid)
  BY Unwrapped
<1>. HIDE DEF tree
<1>. QED BY <1>1, <1>2, Options, DisplayDecodes DEF GenesisMatches, tree

\* The root that was written is the root of the txids that were.
LEMMA BlockPasses ==
  ASSUME NEW v, BlockOutput(v)
  PROVE  BlockMatches(v)
<1>. PICK n \in Nat \ {0} : \E txids :
       /\ IsVec(txids, n)
       /\ v.txids_display_be = Some(Displayed(txids))
       /\ v.expected_merkle_root_display_be = Some(internal_to_display(MerkleRoot(txids)))
  BY DEF BlockOutput
<1>. PICK txids :
       /\ IsVec(txids, n)
       /\ v.txids_display_be = Some(Displayed(txids))
       /\ v.expected_merkle_root_display_be = Some(internal_to_display(MerkleRoot(txids)))
  OBVIOUS
<1>. DEFINE texts == Displayed(txids)
<1>1. DOMAIN txids = 0 .. n - 1
  BY VecShape
<1>2. /\ DOMAIN texts = 0 .. n - 1
      /\ \A i \in 0 .. n - 1 : texts[i] = internal_to_display(txids[i])
  BY <1>1 DEF Displayed
<1>. HIDE DEF texts
<1>3. Read(texts) = txids
  <2>1. IsVec(Read(texts), n)
    BY <1>2 DEF IsVec, Read
  <2>2. \A i \in 0 .. n - 1 : Read(texts)[i] = txids[i]
    BY <1>2, DisplayDecodes DEF Read
  <2>. QED BY <2>1, <2>2, VecExtensional
<1>4. texts # <<>> /\ \A i \in DOMAIN texts : Decodes(texts[i])
  <2>1. 0 \in DOMAIN texts /\ DOMAIN <<>> = {}
    BY <1>2
  <2>. QED BY <1>2, <2>1, DisplayDecodes
<1>5. /\ unwrap(v.txids_display_be) = texts
      /\ unwrap(v.expected_merkle_root_display_be)
           = internal_to_display(MerkleRoot(txids))
  BY Unwrapped DEF texts
<1>. QED BY <1>3, <1>4, <1>5, Options DEF BlockMatches

\* A storage vector passes unless its labels take more than they replace.
LEMMA StoragePasses ==
  ASSUME NEW v, StorageOutput(v)
  PROVE  /\ ~ StoragePanics(v)
         /\ \/ StorageMatches(v)
            \/ unwrap(v.minimum_viable_bytes) > unwrap(v.baseline_bytes_formula)
<1>. PICK queries \in Nat, depth \in Nat, minimum \in Nat :
       /\ v.n_leaves # None
       /\ v.q_queries = Some(queries)
       /\ v.tree_depth = Some(depth)
       /\ v.baseline_bytes_formula = Some(queries * depth * 32)
       /\ v.minimum_viable_bytes = Some(minimum)
       /\ queries * depth * 32 <= WordMax
  BY DEF StorageOutput
<1>. DEFINE baseline == queries * depth * 32
<1>1. /\ unwrap(v.q_queries) = queries /\ unwrap(v.tree_depth) = depth
      /\ unwrap(v.baseline_bytes_formula) = baseline
      /\ unwrap(v.minimum_viable_bytes) = minimum
  BY Unwrapped
<1>2. minimum <= baseline \/ minimum > baseline
  OBVIOUS
<1>3. FullBaseline(v) = baseline
  BY <1>1 DEF FullBaseline
<1>4. baseline <= WordMax /\ baseline % (WordMax + 1) = baseline
  <2>1. \A a, b \in Nat : a * b * 32 \in Nat
    OBVIOUS
  <2>2. baseline \in Nat /\ baseline <= WordMax
    BY <2>1
  <2>. HIDE DEF baseline
  <2>. QED BY <2>2, WordMaxAssumption
<1>5. ~ StoragePanics(v)
  <2>1. baseline \in Nat
    <3>1. \A a, b \in Nat : a * b * 32 \in Nat
      OBVIOUS
    <3>. QED BY <3>1
  <2>. HIDE DEF baseline
  <2>. QED BY <1>3, <1>4, <2>1, WordMaxAssumption DEF StoragePanics
<1>. HIDE DEF baseline
<1>. QED BY <1>1, <1>2, <1>3, <1>4, <1>5, Options DEF StorageMatches

(***************************************************************************)
(* When the digest of nothing is as it is known to be, the hash never      *)
(* collides and the studies write what they compute: selftest never fails, *)
(* and reproduce fails only without any file, or with a file that went     *)
(* away between its test and its reading, or with one that was not         *)
(* regenerated, or with a storage vector whose labels take more than they  *)
(* replace, however the files change while it runs.                        *)
(***************************************************************************)
THEOREM OnlyDriftEverFails ==
  ASSUME CollisionFree, Junk # TestLeaf(4), EmptyDigest = KnownDigest,
         OutputsAsWritten
  PROVE  Spec => []OnlyDriftFails
<1>1. \A n \in 1 .. 5 : SelfCheck(n)
  <2>1. MerkleChecks /\ InvoiceChecks /\ RollForwardChecks /\ StoreChecks
    BY MerkleChecksPass, InvoiceChecksPass, RollForwardChecksPass, StoreChecksPass
  <2>2. /\ SelfCheck(1) <=> EmptyDigest = KnownDigest
        /\ SelfCheck(2) <=> MerkleChecks
        /\ SelfCheck(3) <=> InvoiceChecks
        /\ SelfCheck(4) <=> RollForwardChecks
        /\ SelfCheck(5) <=> StoreChecks
    BY DEF SelfCheck
  <2>3. \A n \in 1 .. 5 : n = 1 \/ n = 2 \/ n = 3 \/ n = 4 \/ n = 5
    OBVIOUS
  <2>. QED BY <2>1, <2>2, <2>3
<1>2. ASSUME NEW file \in Names, NEW content \in Output[file], content # Missing,
             \/ ~ FileMatches(file, content)
             \/ file = "storage_1024" /\ StoragePanics(content)
      PROVE  /\ file = "storage_1024"
             /\ unwrap(content.minimum_viable_bytes)
                  > unwrap(content.baseline_bytes_formula)
  <2>1. content # Torn
    BY DEF OutputsAsWritten
  <2>2. file \in {"genesis_v1", "bsv_block_v1", "storage_1024", "simstudy_200"}
    <3>1. \A n \in 1 .. 4 : n = 1 \/ n = 2 \/ n = 3 \/ n = 4
      OBVIOUS
    <3>. QED BY <3>1 DEF Names, File
  <2>3. CASE file = "genesis_v1"
    BY <1>2, <2>1, <2>3, GenesisPasses DEF OutputsAsWritten, FileMatches
  <2>4. CASE file = "bsv_block_v1"
    BY <1>2, <2>1, <2>4, BlockPasses DEF OutputsAsWritten, FileMatches
  <2>5. CASE file = "storage_1024"
    BY <1>2, <2>1, <2>5, StoragePasses DEF OutputsAsWritten, FileMatches
  <2>6. CASE file = "simstudy_200"
    BY <1>2, <2>1, <2>6 DEF OutputsAsWritten, FileMatches
  <2>. QED BY <2>2, <2>3, <2>4, <2>5, <2>6
<1>3. IInv => OnlyDriftFails
  <2>. SUFFICES ASSUME IInv, outcome = "failed" PROVE OnlyDriftFails
    BY DEF OnlyDriftFails
  <2>1. /\ command = "reproduce"
        /\ \/ found = {}
           \/ \E file \in Names : ~ Checked(file) \/ Vanished(file) \/ Panics(file)
    BY <1>1 DEF IInv, Drifted
  <2>2. CASE found = {} \/ \E file \in Names : Vanished(file)
    BY <2>1, <2>2 DEF OnlyDriftFails
  <2>3. ASSUME NEW file \in Names, ~ Checked(file) \/ Panics(file) PROVE OnlyDriftFails
    <3>1. PICK content : /\ seen[file] = Some(content) /\ content # Missing
                         /\ \/ ~ FileMatches(file, content)
                            \/ file = "storage_1024" /\ StoragePanics(content)
      BY <2>3 DEF Checked, Panics
    <3>2. Present(file) /\ unwrap(seen[file]) = content
      BY <3>1, Options, Unwrapped DEF Present
    <3>3. \/ content \notin Output[file]
          \/ /\ file = "storage_1024"
             /\ unwrap(content.minimum_viable_bytes)
                  > unwrap(content.baseline_bytes_formula)
      <4>1. CASE content \in Output[file]
        BY <1>2, <3>1, <4>1
      <4>. QED BY <4>1
    <3>. QED BY <2>1, <3>2, <3>3 DEF OnlyDriftFails
  <2>. QED BY <2>1, <2>2, <2>3
<1>. QED BY <1>3, CountInvariance, PTL
===============================================================================
