------------------------------ MODULE StudyProofs ------------------------------
(***************************************************************************)
(* Theorems about the two studies, for populations and samples of every    *)
(* size: the population study of simstudy first, and then the storage      *)
(* study of simstore, over the variables the two have in common.           *)
(***************************************************************************)
EXTENDS PopulationStudy, StorageStudy, MerkleTreeProofs, FiniteSetTheorems

\* Multiplication is monotonic, strictly so by a positive factor.
LEMMA Products ==
  ASSUME NEW a \in Nat, NEW b \in Nat, NEW c \in Nat
  PROVE  /\ a * c \in Nat
         /\ a <= b => a * c <= b * c
         /\ a < b => a * c + c <= b * c
<1>1. a * c \in Nat
  OBVIOUS
<1>2. ASSUME a <= b PROVE a * c <= b * c
  <2>1. PICK k \in Nat : b = a + k
    BY <1>2
  <2>2. b * c = a * c + k * c
    BY <2>1
  <2>3. k * c >= 0
    OBVIOUS
  <2> QED
    BY <2>2, <2>3
<1>3. ASSUME a < b PROVE a * c + c <= b * c
  <2>1. PICK k \in Nat : b = a + k + 1
    <3>1. b - a - 1 \in Nat /\ b = a + (b - a - 1) + 1
      BY <1>3
    <3> QED
      BY <3>1
  <2>2. b * c = a * c + k * c + c
    BY <2>1
  <2>3. k * c >= 0
    OBVIOUS
  <2> QED
    BY <2>2, <2>3
<1> QED
  BY <1>1, <1>2, <1>3

\* Division rounds down.
LEMMA Quotient ==
  ASSUME NEW a \in Nat, NEW q \in Nat \ {0}
  PROVE  /\ a \div q \in Nat
         /\ (a \div q) * q <= a
         /\ a < (a \div q) * q + q
OBVIOUS

-------------------------------------------------------------------------------
\* A quotient is below n when its dividend is below n divisors.
LEMMA QuotientBelow ==
  ASSUME NEW a \in Nat, NEW q \in Nat \ {0}, NEW n \in Nat, a < n * q
  PROVE  a \div q < n
<1>1. a \div q \in Nat /\ (a \div q) * q <= a
  BY Quotient
<1>2. n <= a \div q => n * q <= (a \div q) * q
  BY <1>1, Products
<1> QED
  <2> DEFINE p == a \div q
             pq == p * q
             nq == n * q
  <2>1. p \in Nat /\ pq \in Nat /\ nq \in Nat /\ pq <= a /\ a < nq /\ (n <= p => nq <= pq)
    BY <1>1, <1>2, Products
  <2> HIDE DEF p, pq, nq
  <2>2. p < n
    BY <2>1
  <2> QED
    BY <2>2 DEF p

\* A quotient grows when its dividend grows by the divisor.
LEMMA QuotientGrows ==
  ASSUME NEW a \in Nat, NEW b \in Nat, NEW q \in Nat \ {0}, a + q <= b
  PROVE  a \div q < b \div q
<1> DEFINE p == a \div q
           r == b \div q
           pq == p * q
           rq == r * q
<1>1. /\ p \in Nat /\ r \in Nat /\ pq \in Nat /\ rq \in Nat
      /\ pq <= a /\ b < rq + q
      /\ r <= p => rq <= pq
  BY Quotient, Products
<1> HIDE DEF p, r, pq, rq
<1>2. p < r
  BY <1>1
<1> QED
  BY <1>2 DEF p, r

\* The positions of a sample are those of records, and increase.
LEMMA IndicesIncrease ==
  ASSUME NEW n \in Nat, NEW sample \in Nat
  PROVE  LET indexed == InclusionIndices(n, sample) IN
         /\ \A i \in DOMAIN indexed : indexed[i] \in 0 .. n - 1
         /\ \A i, j \in DOMAIN indexed : i < j => indexed[i] < indexed[j]
<1> DEFINE q == Least(sample, n)
           from(i) == (i - 1) * n
           at(i) == from(i) \div q
<1>1. q \in Nat /\ q <= n
  BY DEF Least
<1>2. DOMAIN InclusionIndices(n, sample) = 1 .. q
  BY DEF InclusionIndices
<1>3. ASSUME NEW i \in 1 .. q
      PROVE  /\ from(i) \in Nat
             /\ at(i) \in 0 .. n - 1
             /\ InclusionIndices(n, sample)[i] = at(i)
  <2>1. i - 1 \in Nat /\ i - 1 < q /\ q \in Nat \ {0}
    BY <1>1
  <2>2. from(i) \in Nat /\ from(i) + n <= q * n
    BY <2>1, Products
  <2>3. from(i) < n * q
    BY <2>1, <2>2, <1>1
  <2>4. at(i) \in Nat /\ at(i) < n
    BY <2>1, <2>2, <2>3, Quotient, QuotientBelow
  <2>5. InclusionIndices(n, sample)[i] = Least(at(i), n - 1)
    BY <1>2 DEF InclusionIndices
  <2> QED
    BY <2>2, <2>4, <2>5 DEF Least
<1>4. ASSUME NEW i \in 1 .. q, NEW j \in 1 .. q, i < j
      PROVE  at(i) < at(j)
  <2>1. i - 1 \in Nat /\ j - 1 \in Nat /\ i - 1 < j - 1 /\ q \in Nat \ {0}
    BY <1>1, <1>4
  <2>2. from(i) + n <= from(j)
    BY <2>1, Products
  <2>3. from(i) + q <= from(j)
    <3>1. from(i) \in Nat /\ from(j) \in Nat
      BY <1>3
    <3> HIDE DEF from, q
    <3> QED
      BY <1>1, <2>2, <3>1
  <2> QED
    BY <1>3, <2>1, <2>3, QuotientGrows
<1> QED
  BY <1>2, <1>3, <1>4

\* The study keeps its records and its sample.
SampledInv ==
  \E n \in Nat, sample \in Nat :
    /\ DOMAIN records = 0 .. n - 1
    /\ indices = InclusionIndices(n, sample)

LEMMA SampledInit == Init => SampledInv
BY SizesAreNumbers DEF Init, SampledInv, Populations

LEMMA SampledNext == SampledInv /\ [Next]_vars => SampledInv'
<1> SUFFICES ASSUME SampledInv, [Next]_vars
             PROVE  SampledInv'
  OBVIOUS
<1>1. records' = records /\ indices' = indices
  BY DEF Next, GeneratePanics, Generate, CheckClean, AnchorNext, CheckSample,
         InjectFaults, vars
<1> QED
  BY <1>1 DEF SampledInv, InclusionIndices, Least

LEMMA SampledSpreads == SampledInv => SampleSpreads
<1> SUFFICES ASSUME NEW n \in Nat, NEW sample \in Nat,
                    DOMAIN records = 0 .. n - 1,
                    indices = InclusionIndices(n, sample)
             PROVE  SampleSpreads
  BY DEF SampledInv
<1>1. /\ \A i \in DOMAIN indices : indices[i] \in 0 .. n - 1
      /\ \A i, j \in DOMAIN indices : i < j => indices[i] < indices[j]
  BY IndicesIncrease
<1>2. DOMAIN indices \subseteq Nat
  BY DEF InclusionIndices, Least
<1>3. ASSUME NEW i \in DOMAIN indices, NEW j \in DOMAIN indices, indices[i] = indices[j]
      PROVE  i = j
  <2>1. i \in Nat /\ j \in Nat /\ indices[i] \in Int /\ indices[j] \in Int
    BY <1>1, <1>2
  <2>2. ~ (i < j) /\ ~ (j < i)
    BY <1>1, <1>3, <2>1
  <2> QED
    BY <2>1, <2>2
<1> QED
  BY <1>1, <1>3 DEF SampleSpreads

\* For every number of records and every size of the sample, the positions that
\* main of simstudy picks are those of records, and no position is picked twice.
THEOREM SamplesSpread == Spec => []SampleSpreads
<1>1. Spec => []SampledInv
  BY SampledInit, SampledNext, PTL DEF Spec
<1> QED
  BY <1>1, SampledSpreads, PTL

-------------------------------------------------------------------------------
(***************************************************************************)
(* The totals of the records, entry by entry.                              *)
(***************************************************************************)
AmountStep(of, j, x) == x + Amount(of.rs[j], of.k)

TotalLoop == INSTANCE Iteration WITH Step <- AmountStep

LEMMA RunningTotals ==
  ASSUME NEW rs, NEW k
  PROVE  /\ RunningTotal(rs, k)[0] = 0
         /\ \A n \in Nat : RunningTotal(rs, k)[n + 1]
                             = RunningTotal(rs, k)[n] + Amount(rs[n], k)
<1>. DEFINE of == [rs |-> rs, k |-> k]
            T == TotalLoop!Iterates(of, 0)
<1>1. RunningTotal(rs, k) = T
  BY DEF RunningTotal, TotalLoop!Iterates, AmountStep
<1>2. T[0] = 0 /\ \A n \in Nat : T[n + 1] = AmountStep(of, n, T[n])
  BY TotalLoop!IterationEquations
<1>. HIDE DEF T
<1>. QED BY <1>1, <1>2 DEF AmountStep

\* n records of positive values.
Entries(rs, n) ==
  /\ DOMAIN rs = 0 .. n - 1
  /\ \A i \in 0 .. n - 1 : rs[i].kind \in 1 .. 4 /\ rs[i].value \in 1 .. WordMax

LEMMA TotalOfEntries ==
  ASSUME NEW n \in Nat, NEW rs, DOMAIN rs = 0 .. n - 1, NEW k
  PROVE  IntegerTotal(rs, k) = RunningTotal(rs, k)[n]
<1>1. Cardinality(0 .. n - 1) = n
  BY FS_Interval
<1>2. Count(rs) = n
  BY <1>1 DEF Count
<1>. QED BY <1>2 DEF IntegerTotal

\* Totals of natural numbers are natural numbers.
LEMMA TotalsNatural ==
  ASSUME NEW n \in Nat, NEW rs, NEW k,
         \A i \in 0 .. n - 1 : rs[i].value \in Nat
  PROVE  \A j \in 0 .. n : RunningTotal(rs, k)[j] \in Nat
<1>. DEFINE T == RunningTotal(rs, k)
            S == {j \in Nat : j <= n => T[j] \in Nat}
<1>1. T[0] = 0 /\ \A j \in Nat : T[j + 1] = T[j] + Amount(rs[j], k)
  BY RunningTotals
<1>. HIDE DEF T
<1>2. 0 \in S
  BY <1>1
<1>3. \A j \in Nat : j \in S => j + 1 \in S
  <2>. SUFFICES ASSUME NEW j \in Nat, j + 1 <= n, T[j] \in Nat
                PROVE  T[j + 1] \in Nat
    OBVIOUS
  <2>1. Amount(rs[j], k) \in Nat
    BY DEF Amount
  <2>. QED BY <1>1, <2>1
<1>4. \A j \in Nat : j \in S
  <2>. HIDE DEF S
  <2>. QED BY <1>2, <1>3, TotalLoop!SetInduction
<1>. QED BY <1>4 DEF T

\* A record that changes changes each total by as much as it counts there.
Numbered(rs, n) ==
  /\ DOMAIN rs = 0 .. n - 1
  /\ \A j \in 0 .. n - 1 : rs[j].value \in Nat

SameBut(copy, rs, n, i) == \A j \in 0 .. n - 1 : j # i => copy[j] = rs[j]

LEMMA AlteredTotal ==
  ASSUME NEW n \in Nat, NEW rs, Numbered(rs, n), NEW copy, Numbered(copy, n),
         NEW i \in 0 .. n - 1, SameBut(copy, rs, n, i), NEW k
  PROVE  /\ IntegerTotal(rs, k) \in Nat
         /\ IntegerTotal(copy, k)
              = IntegerTotal(rs, k) - Amount(rs[i], k) + Amount(copy[i], k)
<1>. DEFINE v == Amount(rs[i], k)
            value == Amount(copy[i], k)
            T == RunningTotal(rs, k)
            C == RunningTotal(copy, k)
            S == {j \in Nat : j <= n =>
                    /\ j <= i => C[j] = T[j]
                    /\ i < j => C[j] = T[j] - v + value}
<1>1. /\ T[0] = 0 /\ \A j \in Nat : T[j + 1] = T[j] + Amount(rs[j], k)
      /\ C[0] = 0 /\ \A j \in Nat : C[j + 1] = C[j] + Amount(copy[j], k)
  <2>1. T[0] = 0 /\ \A j \in Nat : T[j + 1] = T[j] + Amount(rs[j], k)
    BY RunningTotals
  <2>2. C[0] = 0 /\ \A j \in Nat : C[j + 1] = C[j] + Amount(copy[j], k)
    BY RunningTotals
  <2>. QED BY <2>1, <2>2
<1>2. /\ v \in Nat /\ value \in Nat
      /\ \A j \in 0 .. n : T[j] \in Nat
  <2>1. v \in Nat /\ value \in Nat
    BY DEF Amount, Numbered
  <2>2. \A j \in 0 .. n - 1 : rs[j].value \in Nat
    BY DEF Numbered
  <2>. QED BY <2>1, <2>2, TotalsNatural
<1>3. /\ Amount(rs[i], k) = v
      /\ Amount(copy[i], k) = value
      /\ \A j \in 0 .. n - 1 : Amount(rs[j], k) \in Nat
      /\ \A j \in 0 .. n - 1 : j # i => Amount(copy[j], k) = Amount(rs[j], k)
  BY DEF Amount, Numbered, SameBut
<1>. HIDE DEF T, C, v, value
<1>4. 0 \in S
  <2>1. C[0] = T[0] /\ 0 <= i
    BY <1>1
  <2>. QED BY <2>1
<1>5. \A j \in Nat : j \in S => j + 1 \in S
  <2>. SUFFICES ASSUME NEW j \in Nat, j + 1 <= n, j \in S
                PROVE  /\ j + 1 <= i => C[j + 1] = T[j + 1]
                       /\ i < j + 1 => C[j + 1] = T[j + 1] - v + value
    OBVIOUS
  <2>0. /\ j <= i => C[j] = T[j]
        /\ i < j => C[j] = T[j] - v + value
    OBVIOUS
  <2>. HIDE DEF S
  <2>1. /\ T[j + 1] = T[j] + Amount(rs[j], k)
        /\ C[j + 1] = C[j] + Amount(copy[j], k)
        /\ T[j] \in Nat /\ Amount(rs[j], k) \in Nat
    <3>1. j \in 0 .. n /\ j \in 0 .. n - 1
      OBVIOUS
    <3>2. T[j] \in Nat /\ Amount(rs[j], k) \in Nat
      BY <3>1, <1>2, <1>3
    <3>. QED BY <3>2, <1>1
  <2>2. CASE j = i
    BY <2>0, <2>1, <2>2, <1>2, <1>3
  <2>3. CASE j # i
    <3>1. Amount(copy[j], k) = Amount(rs[j], k)
      BY <2>3, <1>3
    <3>. QED BY <2>0, <2>1, <2>3, <3>1, <1>2
  <2>. QED BY <2>2, <2>3
<1>6. \A j \in Nat : j \in S
  <2>. HIDE DEF S
  <2>. QED BY <1>4, <1>5, TotalLoop!SetInduction
<1>7. C[n] = T[n] - v + value /\ T[n] \in Nat
  BY <1>2, <1>6
<1>. QED BY <1>7, TotalOfEntries DEF T, C, v, value, Numbered

\* A record that is left out is missing from the total of its kind.
LEMMA OmittedTotal ==
  ASSUME NEW n \in Nat, NEW rs, Entries(rs, n),
         NEW i \in 0 .. n - 1,
         NEW copy, DOMAIN copy = 0 .. n - 2,
         \A j \in 0 .. n - 2 : copy[j] = rs[IF j < i THEN j ELSE j + 1]
  PROVE  /\ IntegerTotal(rs, rs[i].kind) \in Nat
         /\ IntegerTotal(copy, rs[i].kind) = IntegerTotal(rs, rs[i].kind) - rs[i].value
<1>. DEFINE k == rs[i].kind
            v == rs[i].value
            T == RunningTotal(rs, k)
            C == RunningTotal(copy, k)
            S == {j \in Nat : j <= n - 1 =>
                    /\ j <= i => C[j] = T[j]
                    /\ i < j => C[j] = T[j + 1] - v}
<1>1. /\ T[0] = 0 /\ \A j \in Nat : T[j + 1] = T[j] + Amount(rs[j], k)
      /\ C[0] = 0 /\ \A j \in Nat : C[j + 1] = C[j] + Amount(copy[j], k)
  <2>. HIDE DEF k
  <2>1. T[0] = 0 /\ \A j \in Nat : T[j + 1] = T[j] + Amount(rs[j], k)
    BY RunningTotals
  <2>2. C[0] = 0 /\ \A j \in Nat : C[j + 1] = C[j] + Amount(copy[j], k)
    BY RunningTotals
  <2>. QED BY <2>1, <2>2
<1>2. /\ v \in Nat
      /\ \A j \in 0 .. n : T[j] \in Nat
  <2>1. \A j \in 0 .. n - 1 : rs[j].value \in Nat
    BY DrawsArePositive DEF Entries
  <2>. QED BY <2>1, TotalsNatural
<1>3. /\ Amount(rs[i], k) = v
      /\ \A j \in 0 .. n - 1 : Amount(rs[j], k) \in Nat
      /\ \A j \in 0 .. n - 2 : Amount(copy[j], k) = Amount(rs[IF j < i THEN j ELSE j + 1], k)
  BY DrawsArePositive DEF Amount, Entries
<1>. HIDE DEF T, C, k, v
<1>4. 0 \in S
  <2>1. C[0] = T[0] /\ ~ i < 0
    BY <1>1
  <2>. QED BY <2>1
<1>5. \A j \in Nat : j \in S => j + 1 \in S
  <2>. SUFFICES ASSUME NEW j \in Nat, j + 1 <= n - 1,
                       j <= i => C[j] = T[j],
                       i < j => C[j] = T[j + 1] - v
                PROVE  /\ j + 1 <= i => C[j + 1] = T[j + 1]
                       /\ i < j + 1 => C[j + 1] = T[j + 1 + 1] - v
    OBVIOUS
  <2>1. /\ T[j + 1] = T[j] + Amount(rs[j], k)
        /\ T[j + 1 + 1] = T[j + 1] + Amount(rs[j + 1], k)
        /\ C[j + 1] = C[j] + Amount(copy[j], k)
        /\ T[j] \in Nat /\ T[j + 1] \in Nat
        /\ Amount(rs[j], k) \in Nat /\ Amount(rs[j + 1], k) \in Nat
    <3>1. j \in Nat /\ j + 1 \in Nat /\ j \in 0 .. n /\ j + 1 \in 0 .. n
          /\ j \in 0 .. n - 1 /\ j + 1 \in 0 .. n - 1
      OBVIOUS
    <3>2. T[j] \in Nat /\ T[j + 1] \in Nat
      BY <3>1, <1>2
    <3>3. Amount(rs[j], k) \in Nat /\ Amount(rs[j + 1], k) \in Nat
      BY <3>1, <1>3
    <3>4. T[j + 1] = T[j] + Amount(rs[j], k) /\ T[j + 1 + 1] = T[j + 1] + Amount(rs[j + 1], k)
      BY <3>1, <1>1
    <3>5. C[j + 1] = C[j] + Amount(copy[j], k)
      BY <3>1, <1>1
    <3>. QED BY <3>2, <3>3, <3>4, <3>5
  <2>2. CASE j < i
    <3>1. Amount(copy[j], k) = Amount(rs[j], k)
      BY <2>2, <1>3
    <3>. QED BY <2>1, <2>2, <3>1
  <2>3. CASE j = i
    <3>1. Amount(copy[j], k) = Amount(rs[j + 1], k) /\ Amount(rs[j], k) = v
      BY <2>3, <1>3
    <3>. QED BY <2>1, <2>3, <3>1, <1>2, SMTT(30)
  <2>4. CASE j > i
    <3>1. Amount(copy[j], k) = Amount(rs[j + 1], k)
      BY <2>4, <1>3
    <3>. QED BY <2>1, <2>4, <3>1, <1>2, SMTT(30)
  <2>. QED BY <2>2, <2>3, <2>4
<1>6. \A j \in Nat : j \in S
  <2>. HIDE DEF S
  <2>. QED BY <1>4, <1>5, TotalLoop!SetInduction
<1>7. C[n - 1] = T[n] - v /\ T[n] \in Nat
  <2>1. n - 1 \in Nat /\ n - 1 \in S /\ (n - 1) + 1 = n
    BY <1>6
  <2>2. T[n] = T[n - 1] + Amount(rs[n - 1], k) /\ T[n - 1] \in Nat
    <3>1. T[(n - 1) + 1] = T[n - 1] + Amount(rs[n - 1], k)
      BY <2>1, <1>1
    <3>. QED BY <2>1, <3>1, <1>2
  <2>3. CASE i = n - 1
    <3>1. C[n - 1] = T[n - 1] /\ Amount(rs[n - 1], k) = v
      BY <2>1, <2>3, <1>3
    <3>. QED BY <2>2, <3>1, <1>2
  <2>4. CASE i < n - 1
    BY <2>1, <2>4, <1>2
  <2>. QED BY <2>3, <2>4
<1>8. IntegerTotal(copy, k) = C[n - 1] /\ IntegerTotal(rs, k) = T[n]
  <2>1. n - 1 \in Nat /\ DOMAIN copy = 0 .. (n - 1) - 1
    OBVIOUS
  <2>. QED BY <2>1, TotalOfEntries DEF T, C, Entries
<1>. QED BY <1>7, <1>8 DEF k, v

\* A record that comes again is counted again.
LEMMA DuplicatedTotal ==
  ASSUME NEW n \in Nat, NEW rs, Entries(rs, n),
         NEW i \in 0 .. n - 1,
         NEW copy, DOMAIN copy = 0 .. n,
         \A j \in 0 .. n - 1 : copy[j] = rs[j],
         copy[n] = rs[i]
  PROVE  /\ IntegerTotal(rs, rs[i].kind) \in Nat
         /\ IntegerTotal(copy, rs[i].kind) = IntegerTotal(rs, rs[i].kind) + rs[i].value
<1>. DEFINE k == rs[i].kind
            v == rs[i].value
            T == RunningTotal(rs, k)
            C == RunningTotal(copy, k)
            S == {j \in Nat : j <= n => C[j] = T[j]}
<1>1. /\ T[0] = 0 /\ \A j \in Nat : T[j + 1] = T[j] + Amount(rs[j], k)
      /\ C[0] = 0 /\ \A j \in Nat : C[j + 1] = C[j] + Amount(copy[j], k)
  <2>. HIDE DEF k
  <2>1. T[0] = 0 /\ \A j \in Nat : T[j + 1] = T[j] + Amount(rs[j], k)
    BY RunningTotals
  <2>2. C[0] = 0 /\ \A j \in Nat : C[j + 1] = C[j] + Amount(copy[j], k)
    BY RunningTotals
  <2>. QED BY <2>1, <2>2
<1>2. \A j \in 0 .. n : T[j] \in Nat
  <2>1. \A j \in 0 .. n - 1 : rs[j].value \in Nat
    BY DrawsArePositive DEF Entries
  <2>. QED BY <2>1, TotalsNatural
<1>3. Amount(copy[n], k) = v
  BY DEF Amount
<1>. HIDE DEF T, C, k, v
<1>4. 0 \in S
  BY <1>1
<1>5. \A j \in Nat : j \in S => j + 1 \in S
  <2>. SUFFICES ASSUME NEW j \in Nat, j + 1 <= n, C[j] = T[j]
                PROVE  C[j + 1] = T[j + 1]
    OBVIOUS
  <2>1. copy[j] = rs[j]
    OBVIOUS
  <2>. QED BY <2>1, <1>1
<1>6. \A j \in Nat : j \in S
  <2>. HIDE DEF S
  <2>. QED BY <1>4, <1>5, TotalLoop!SetInduction
<1>7. C[n + 1] = T[n] + v /\ T[n] \in Nat
  <2>1. C[n] = T[n] /\ T[n] \in Nat
    BY <1>2, <1>6
  <2>. QED BY <2>1, <1>1, <1>3
<1>8. IntegerTotal(copy, k) = C[n + 1] /\ IntegerTotal(rs, k) = T[n]
  <2>1. n + 1 \in Nat /\ DOMAIN copy = 0 .. (n + 1) - 1
    OBVIOUS
  <2>. QED BY <2>1, TotalOfEntries DEF T, C, Entries
<1>. QED BY <1>7, <1>8 DEF k, v

-------------------------------------------------------------------------------
(***************************************************************************)
(* No single fault on the records leaves all totals as they were.          *)
(***************************************************************************)
LEMMA Remainder ==
  ASSUME NEW a \in Nat, NEW q \in Nat \ {0}
  PROVE  a \div q \in Nat /\ a % q \in Nat /\ a = (a \div q) * q + (a % q)
OBVIOUS

\* Words that differ by less than their number are different words.
LEMMA WordsDiffer ==
  ASSUME NEW a \in Nat, NEW b \in Nat, a < b, b - a <= WordMax
  PROVE  Wrapped(a) # Wrapped(b)
<1>. DEFINE w == WordMax + 1
            qa == a \div w
            qb == b \div w
<1>1. w \in Nat \ {0} /\ b - a < w
  BY DrawsArePositive
<1>2. ASSUME NEW x \in Nat PROVE x = (x \div w) * w + (x % w) /\ x \div w \in Nat /\ x % w \in Nat
  <2>. HIDE DEF w
  <2>. QED BY <1>1, Remainder
<1>3. /\ a = qa * w + (a % w) /\ qa \in Nat /\ a % w \in Nat
      /\ b = qb * w + (b % w) /\ qb \in Nat /\ b % w \in Nat
  BY <1>2
<1>4. ASSUME a % w = b % w PROVE FALSE
  <2>. DEFINE pa == qa * w
              pb == qb * w
  <2>1. pa \in Nat /\ pb \in Nat /\ pb - pa = b - a
    <3>. HIDE DEF w, qa, qb
    <3>. QED BY <1>1, <1>3, <1>4, Products
  <2>2. qb <= qa => pb <= pa
    BY <1>1, <1>3, Products
  <2>3. qa < qb => pa + w <= pb
    BY <1>1, <1>3, Products
  <2>. HIDE DEF w, qa, qb, pa, pb
  <2>. QED BY <1>1, <1>3, <2>1, <2>2, <2>3
<1>. QED BY <1>4 DEF Wrapped, w

\* Books whose totals are those of the records reject a copy with another total.
LEMMA OtherTotalRefused ==
  ASSUME NEW rs, NEW copy, NEW s, NEW k \in 1 .. 4,
         s.totals = [l \in 1 .. 4 |-> Total(rs, l)],
         Total(copy, k) # Total(rs, k)
  PROVE  ~ roll_forward_holds(copy, s)
BY DEF roll_forward_holds, Tallied

LEMMA FaultsRefused ==
  ASSUME NEW n \in Nat, Entries(records, n),
         summary.totals = [l \in 1 .. 4 |-> Total(records, l)],
         NEW i \in 0 .. n - 1
  PROVE  /\ \A value \in 0 .. WordMax \ {records[i].value} :
              ~ RecordFaultMissed(Altered(i, value))
         /\ ~ RecordFaultMissed(Omitted(i))
         /\ ~ RecordFaultMissed(Duplicated(i))
<1>. DEFINE k == records[i].kind
            v == records[i].value
            T == IntegerTotal(records, k)
<1>1. k \in 1 .. 4 /\ v \in 1 .. WordMax /\ WordMax \in Nat
  BY DrawsArePositive DEF Entries
<1>2. DOMAIN records = 0 .. n - 1 /\ m = n
  <2>1. DOMAIN records = 0 .. n - 1
    BY DEF Entries
  <2>2. Cardinality(0 .. n - 1) = n
    BY FS_Interval
  <2>. QED BY <2>1, <2>2 DEF m, Count
<1>3. ASSUME NEW value \in 0 .. WordMax \ {v}
      PROVE  ~ RecordFaultMissed(Altered(i, value))
  <2>. DEFINE copy == Altered(i, value)
  <2>1. /\ DOMAIN copy = 0 .. n - 1
        /\ copy[i].kind = k /\ copy[i].value = value
        /\ \A j \in 0 .. n - 1 : j # i => copy[j] = records[j]
    BY <1>2 DEF Altered
  <2>2. value \in Nat
    OBVIOUS
  <2>. HIDE DEF copy
  <2>3. T \in Nat /\ IntegerTotal(copy, k) = T - v + value
    <3>1. \A j \in 0 .. n - 1 : records[j].value \in Nat
      BY DrawsArePositive DEF Entries
    <3>2. Amount(records[i], k) = v /\ Amount(copy[i], k) = value
      BY <2>1 DEF Amount
    <3>3. Numbered(records, n) /\ Numbered(copy, n) /\ SameBut(copy, records, n, i)
      BY <1>2, <2>1, <2>2, <3>1 DEF Numbered, SameBut
    <3>4. /\ T \in Nat
          /\ IntegerTotal(copy, k) = T - Amount(records[i], k) + Amount(copy[i], k)
      BY <3>3, AlteredTotal
    <3>. QED BY <3>2, <3>4
  <2>4. IntegerTotal(copy, k) \in Nat
    <3>1. \A j \in 0 .. n - 1 : copy[j].value \in Nat
      <4>1. \A j \in 0 .. n - 1 : j # i => copy[j].value \in Nat
        BY <2>1, DrawsArePositive DEF Entries
      <4>. QED BY <2>1, <2>2, <4>1
    <3>2. RunningTotal(copy, k)[n] \in Nat
      BY <3>1, TotalsNatural
    <3>3. IntegerTotal(copy, k) = RunningTotal(copy, k)[n]
      BY <2>1, TotalOfEntries
    <3>. QED BY <3>2, <3>3
  <2>5. Total(copy, k) # Total(records, k)
    <3>. DEFINE C == IntegerTotal(copy, k)
    <3>. HIDE DEF T, C, k, v
    <3>1. \/ T < C /\ C - T <= WordMax
          \/ C < T /\ T - C <= WordMax
      BY <1>1, <2>3, <2>4 DEF C
    <3>2. Wrapped(C) # Wrapped(T)
      BY <3>1, <2>3, <2>4, WordsDiffer DEF C
    <3>. QED BY <3>2 DEF Total, C, T
  <2>. HIDE DEF T, k, v
  <2>6. ~ roll_forward_holds(copy, summary)
    BY <1>1, <2>5, OtherTotalRefused
  <2>. QED BY <2>6 DEF RecordFaultMissed, copy
<1>4. ~ RecordFaultMissed(Omitted(i))
  <2>. DEFINE copy == Omitted(i)
  <2>1. /\ DOMAIN copy = 0 .. n - 2
        /\ \A j \in 0 .. n - 2 : copy[j] = records[IF j < i THEN j ELSE j + 1]
    BY <1>2 DEF Omitted
  <2>. HIDE DEF copy
  <2>3. T \in Nat /\ IntegerTotal(copy, k) = T - v
    BY <2>1, OmittedTotal
  <2>4. IntegerTotal(copy, k) \in Nat
    <3>1. \A j \in 0 .. n - 1 : records[j].value \in Nat
      BY DrawsArePositive DEF Entries
    <3>2. \A j \in 0 .. n - 2 : copy[j].value \in Nat
      <4>. SUFFICES ASSUME NEW j \in 0 .. n - 2 PROVE copy[j].value \in Nat
        OBVIOUS
      <4>1. CASE j < i
        BY <4>1, <2>1, <3>1
      <4>2. CASE ~ (j < i)
        <5>1. j + 1 \in 0 .. n - 1 /\ copy[j] = records[j + 1]
          BY <4>2, <2>1
        <5>. QED BY <5>1, <3>1
      <4>. QED BY <4>1, <4>2
    <3>3. n - 1 \in Nat /\ DOMAIN copy = 0 .. (n - 1) - 1
          /\ \A j \in 0 .. (n - 1) - 1 : copy[j].value \in Nat
      BY <2>1, <3>2
    <3>. DEFINE q == n - 1
    <3>4. /\ q \in Nat /\ q \in 0 .. q /\ DOMAIN copy = 0 .. q - 1
          /\ \A j \in 0 .. q - 1 : copy[j].value \in Nat
      BY <3>3
    <3>. HIDE DEF q, k
    <3>5. RunningTotal(copy, k)[q] \in Nat
      BY <3>4, TotalsNatural
    <3>6. IntegerTotal(copy, k) = RunningTotal(copy, k)[q]
      BY <3>4, TotalOfEntries
    <3>. QED BY <3>5, <3>6
  <2>5. Total(copy, k) # Total(records, k)
    <3>. DEFINE C == IntegerTotal(copy, k)
    <3>. HIDE DEF T, C, k, v
    <3>1. C < T /\ T - C <= WordMax
      BY <1>1, <2>3, <2>4 DEF C
    <3>2. Wrapped(C) # Wrapped(T)
      BY <3>1, <2>3, <2>4, WordsDiffer DEF C
    <3>. QED BY <3>2 DEF Total, C, T
  <2>. HIDE DEF T, k, v
  <2>6. ~ roll_forward_holds(copy, summary)
    BY <1>1, <2>5, OtherTotalRefused
  <2>. QED BY <2>6 DEF RecordFaultMissed, copy
<1>5. ~ RecordFaultMissed(Duplicated(i))
  <2>. DEFINE copy == Duplicated(i)
  <2>1. /\ DOMAIN copy = 0 .. n
        /\ \A j \in 0 .. n - 1 : copy[j] = records[j]
        /\ copy[n] = records[i]
    BY <1>2 DEF Duplicated
  <2>. HIDE DEF copy
  <2>3. T \in Nat /\ IntegerTotal(copy, k) = T + v
    BY <2>1, DuplicatedTotal
  <2>5. Total(copy, k) # Total(records, k)
    <3>. DEFINE C == IntegerTotal(copy, k)
    <3>. HIDE DEF T, C, k, v
    <3>1. C \in Nat /\ T < C /\ C - T <= WordMax
      BY <1>1, <2>3 DEF C
    <3>2. Wrapped(C) # Wrapped(T)
      BY <3>1, <2>3, WordsDiffer
    <3>. QED BY <3>2 DEF Total, C, T
  <2>. HIDE DEF T, k, v
  <2>6. ~ roll_forward_holds(copy, summary)
    BY <1>1, <2>5, OtherTotalRefused
  <2>. QED BY <2>6 DEF RecordFaultMissed, copy
<1>. QED BY <1>3, <1>4, <1>5

-------------------------------------------------------------------------------
(***************************************************************************)
(* The records are entries, and the summary has their totals.              *)
(***************************************************************************)
LEMMA KindsAreKinds ==
  ASSUME NEW n \in Nat, NEW id \in 0 .. n - 1
  PROVE  KindAt(n, id) \in 1 .. 4
<1>. DEFINE K == {k \in 1 .. 4 : id < KindEnd(n, k)}
<1>1. K \subseteq 1 .. 4 /\ 4 \in K
  BY DEF KindEnd
<1>. HIDE DEF K
<1>2. \E k \in K : \A l \in K : k <= l
  <2>1. CASE 1 \in K
    BY <1>1, <2>1
  <2>2. CASE 1 \notin K /\ 2 \in K
    BY <1>1, <2>2
  <2>3. CASE 1 \notin K /\ 2 \notin K /\ 3 \in K
    BY <1>1, <2>3
  <2>4. CASE 1 \notin K /\ 2 \notin K /\ 3 \notin K
    BY <1>1, <2>4
  <2>. QED BY <2>1, <2>2, <2>3, <2>4
<1>3. Min(K) \in K
  BY <1>2 DEF Min
<1>. QED BY <1>1, <1>3 DEF KindAt, K

LEMMA PopulationsAreEntries ==
  ASSUME NEW n \in Sizes, NEW opening \in Opening, NEW rs \in Populations(n)
  PROVE  Entries(rs, n)
<1>1. n \in Nat /\ WordMax \in Nat /\ opening \in Nat
  BY SizesAreNumbers, DrawsArePositive
<1>2. PICK value \in [0 .. n - 1 -> UNION {Draw[k] : k \in 1 .. 4}] :
        /\ \A id \in 0 .. n - 1 : value[id] \in Draw[KindAt(n, id)]
        /\ rs = [id \in 0 .. n - 1 |->
                   [id |-> id, kind |-> KindAt(n, id), value |-> value[id]]]
  BY DEF Populations
<1>3. ASSUME NEW id \in 0 .. n - 1
      PROVE  rs[id].kind \in 1 .. 4 /\ rs[id].value \in 1 .. WordMax
  <2>. DEFINE v == value[id]
  <2>1. KindAt(n, id) \in 1 .. 4
    BY <1>1, KindsAreKinds
  <2>2. v \in Nat \ {0} /\ opening + (n + 1) * v < WordMax
    BY <1>2, <2>1, DrawsArePositive, TotalsFit
  <2>3. v <= WordMax
    <3>. DEFINE nv == n * v
    <3>1. nv \in Nat /\ (n + 1) * v = nv + v
      BY <1>1, <2>2, Products
    <3>. HIDE DEF nv, v
    <3>. QED BY <1>1, <2>2, <3>1
  <2>4. rs[id].kind = KindAt(n, id) /\ rs[id].value = v
    BY <1>2
  <2>. QED BY <1>1, <2>1, <2>2, <2>3, <2>4
<1>. QED BY <1>2, <1>3 DEF Entries

TalliedInv ==
  /\ \E n \in Nat : Entries(records, n)
  /\ status \notin {"generating", "panicked"} =>
       summary.totals = [k \in 1 .. 4 |-> Total(records, k)]

LEMMA TalliedInit == Init => TalliedInv
BY PopulationsAreEntries, SizesAreNumbers DEF Init, TalliedInv

LEMMA TalliedNext == TalliedInv /\ [Next]_vars => TalliedInv'
<1>. SUFFICES ASSUME TalliedInv, [Next]_vars
              PROVE  TalliedInv'
  OBVIOUS
<1>1. ASSUME records' = records, summary' = summary,
             status' \in {"generating", "panicked"}
               \/ status \notin {"generating", "panicked"}
      PROVE  TalliedInv'
  <2>1. \E n \in Nat : Entries(records', n)
    BY <1>1 DEF TalliedInv
  <2>2. \A k \in 1 .. 4 : Total(records, k)' = Total(records, k)
    BY <1>1 DEF Total, IntegerTotal, RunningTotal, Count, Wrapped
  <2>. QED BY <1>1, <2>1, <2>2 DEF TalliedInv
<1>2. CASE GeneratePanics
  BY <1>1, <1>2 DEF GeneratePanics
<1>3. CASE Generate
  <2>1. /\ records' = records
        /\ summary'.totals = [k \in 1 .. 4 |-> Total(records, k)]
    BY <1>3 DEF Generate
  <2>2. \E n \in Nat : Entries(records', n)
    BY <2>1 DEF TalliedInv
  <2>3. \A k \in 1 .. 4 : Total(records, k)' = Total(records, k)
    BY <2>1 DEF Total, IntegerTotal, RunningTotal, Count, Wrapped
  <2>. QED BY <2>1, <2>2, <2>3 DEF TalliedInv
<1>4. CASE CheckClean
  BY <1>1, <1>4 DEF CheckClean
<1>5. CASE AnchorNext
  BY <1>1, <1>5 DEF AnchorNext
<1>6. CASE CheckSample
  BY <1>1, <1>6 DEF CheckSample
<1>7. CASE InjectFaults
  BY <1>1, <1>7 DEF InjectFaults
<1>8. CASE UNCHANGED vars
  BY <1>1, <1>8 DEF vars
<1>. QED BY <1>2, <1>3, <1>4, <1>5, <1>6, <1>7, <1>8 DEF Next

LEMMA TalliedDetects == TalliedInv => EverySingleFaultDetected
<1>. SUFFICES ASSUME TalliedInv, status = "injecting"
              PROVE  \A i \in DOMAIN records :
                       /\ \A value \in 0 .. WordMax \ {records[i].value} :
                            ~ RecordFaultMissed(Altered(i, value))
                       /\ ~ RecordFaultMissed(Omitted(i))
                       /\ ~ RecordFaultMissed(Duplicated(i))
  BY DEF EverySingleFaultDetected
<1>1. PICK n \in Nat : Entries(records, n)
  BY DEF TalliedInv
<1>2. summary.totals = [k \in 1 .. 4 |-> Total(records, k)]
  BY DEF TalliedInv
<1>3. DOMAIN records = 0 .. n - 1
  BY <1>1 DEF Entries
<1>. QED BY <1>1, <1>2, <1>3, FaultsRefused

\* In a population of any size, of any values that fit, the roll-forward check of
\* simstudy refuses every copy in which one record has another value, is left out
\* or is there twice.
THEOREM SingleFaultsDetected == Spec => []EverySingleFaultDetected
<1>1. Spec => []TalliedInv
  BY TalliedInit, TalliedNext, PTL DEF Spec
<1>. QED BY <1>1, TalliedDetects, PTL

-------------------------------------------------------------------------------
(***************************************************************************)
(* The checked additions of the roll-forward.                              *)
(***************************************************************************)
CheckedStep(items, j, x) == Books!CheckedAdd(x, items[j + 1])

CheckedLoop == INSTANCE Iteration WITH Step <- CheckedStep

LEMMA CheckedSumsEquations ==
  ASSUME NEW items
  PROVE  /\ Books!CheckedSums(items)[0] = 0
         /\ \A n \in Nat : Books!CheckedSums(items)[n + 1]
                             = Books!CheckedAdd(Books!CheckedSums(items)[n], items[n + 1])
<1>. DEFINE C == CheckedLoop!Iterates(items, 0)
<1>1. Books!CheckedSums(items) = C
  BY DEF Books!CheckedSums, CheckedLoop!Iterates, CheckedStep
<1>2. C[0] = 0 /\ \A n \in Nat : C[n + 1] = CheckedStep(items, n, C[n])
  BY CheckedLoop!IterationEquations
<1>. HIDE DEF C
<1>. QED BY <1>1, <1>2 DEF CheckedStep

CheckedOf(total) == IF total <= WordMax THEN total ELSE Books!Overflow

\* One more addition.
LEMMA CheckedOnce ==
  ASSUME NEW x \in Nat, NEW y \in Nat
  PROVE  Books!CheckedAdd(CheckedOf(x), y) = CheckedOf(x + y)
BY DrawsArePositive DEF CheckedOf, Books!CheckedAdd, Books!Overflow

LEMMA SumOfTwo ==
  ASSUME NEW a \in Nat, NEW b \in Nat
  PROVE  Books!CheckedSum(<<a, b>>) = CheckedOf(a + b)
<1>. DEFINE items == <<a, b>>
            C == Books!CheckedSums(items)
<1>1. C[0] = 0 /\ \A n \in Nat : C[n + 1] = Books!CheckedAdd(C[n], items[n + 1])
  BY CheckedSumsEquations
<1>2. C[0] = CheckedOf(0)
  BY <1>1, DrawsArePositive DEF CheckedOf
<1>3. C[1] = Books!CheckedAdd(C[0], a) /\ C[2] = Books!CheckedAdd(C[1], b)
  <2>. HIDE DEF C
  <2>1. C[0 + 1] = Books!CheckedAdd(C[0], items[0 + 1])
        /\ C[1 + 1] = Books!CheckedAdd(C[1], items[1 + 1])
    BY <1>1
  <2>. QED BY <2>1
<1>. HIDE DEF C
<1>4. C[1] = CheckedOf(a)
  BY <1>2, <1>3, CheckedOnce
<1>5. C[2] = CheckedOf(a + b)
  BY <1>3, <1>4, CheckedOnce
<1>. QED BY <1>5 DEF C, Books!CheckedSum

LEMMA SumOfFour ==
  ASSUME NEW a \in Nat, NEW b \in Nat, NEW c \in Nat, NEW d \in Nat
  PROVE  Books!CheckedSum(<<a, b, c, d>>) = CheckedOf(a + b + c + d)
<1>. DEFINE items == <<a, b, c, d>>
            C == Books!CheckedSums(items)
<1>1. C[0] = 0 /\ \A n \in Nat : C[n + 1] = Books!CheckedAdd(C[n], items[n + 1])
  BY CheckedSumsEquations
<1>2. C[0] = CheckedOf(0)
  BY <1>1, DrawsArePositive DEF CheckedOf
<1>3. /\ C[1] = Books!CheckedAdd(C[0], a) /\ C[2] = Books!CheckedAdd(C[1], b)
      /\ C[3] = Books!CheckedAdd(C[2], c) /\ C[4] = Books!CheckedAdd(C[3], d)
  <2>. HIDE DEF C
  <2>1. /\ C[0 + 1] = Books!CheckedAdd(C[0], items[0 + 1])
        /\ C[1 + 1] = Books!CheckedAdd(C[1], items[1 + 1])
        /\ C[2 + 1] = Books!CheckedAdd(C[2], items[2 + 1])
        /\ C[3 + 1] = Books!CheckedAdd(C[3], items[3 + 1])
    BY <1>1
  <2>. QED BY <2>1
<1>. HIDE DEF C
<1>4. C[1] = CheckedOf(a)
  BY <1>2, <1>3, CheckedOnce
<1>5. C[2] = CheckedOf(a + b)
  BY <1>3, <1>4, CheckedOnce
<1>6. C[3] = CheckedOf(a + b + c)
  <2>1. a + b \in Nat
    OBVIOUS
  <2>. QED BY <1>3, <1>5, <2>1, CheckedOnce
<1>7. C[4] = CheckedOf(a + b + c + d)
  <2>1. a + b + c \in Nat
    OBVIOUS
  <2>. QED BY <1>3, <1>6, <2>1, CheckedOnce
<1>. QED BY <1>7 DEF C, Books!CheckedSum

\* The roll-forward holds when the two sides are equal and fit a word.
LEMMA RollForwardVerdict ==
  ASSUME NEW s, s.ar_open \in Nat, s.ar_close \in Nat,
         \A k \in 1 .. 4 : s.totals[k] \in Nat
  PROVE  Books!Verdict(RollForward(s)) = "Ok" <=>
           /\ s.ar_open + s.totals[1] <= WordMax
           /\ s.ar_open + s.totals[1]
                = s.ar_close + s.totals[2] + s.totals[3] + s.totals[4]
<1>. DEFINE r == RollForward(s)
            left == s.ar_open + s.totals[1]
            right == s.ar_close + s.totals[2] + s.totals[3] + s.totals[4]
<1>1. /\ Books!LeftSide(r) = <<s.ar_open, s.totals[1]>>
      /\ Books!RightSide(r) = <<s.ar_close, s.totals[2], s.totals[3], s.totals[4]>>
  BY SMTT(30) DEF RollForward, Books!LeftSide, Books!RightSide
<1>2. /\ s.totals[1] \in Nat /\ s.totals[2] \in Nat
      /\ s.totals[3] \in Nat /\ s.totals[4] \in Nat
  OBVIOUS
<1>3. Books!CheckedSum(Books!LeftSide(r)) = CheckedOf(left)
  BY <1>1, <1>2, SumOfTwo
<1>4. Books!CheckedSum(Books!RightSide(r)) = CheckedOf(right)
  BY <1>1, <1>2, SumOfFour
<1>5. left \in Nat /\ right \in Nat
  BY <1>2
<1>. HIDE DEF r, left, right
<1>6. Books!Verdict(r) = Books!Tally(Books!LeftSide(r), Books!RightSide(r))
  BY DEF Books!Verdict
<1>7. Books!Verdict(r) = "Ok" <=>
        /\ CheckedOf(left) # Books!Overflow
        /\ CheckedOf(right) # Books!Overflow
        /\ CheckedOf(left) = CheckedOf(right)
  BY <1>3, <1>4, <1>6 DEF Books!Tally
<1>8. Books!Verdict(r) = "Ok" <=> left <= WordMax /\ left = right
  BY <1>5, <1>7, DrawsArePositive DEF CheckedOf, Books!Overflow
<1>. QED BY <1>8 DEF r, left, right

-------------------------------------------------------------------------------
(***************************************************************************)
(* Opening balance and records together fit a word.                        *)
(***************************************************************************)
AllTotals(rs, j) ==
  RunningTotal(rs, 1)[j] + RunningTotal(rs, 2)[j] + RunningTotal(rs, 3)[j]
    + RunningTotal(rs, 4)[j]

LEMMA AllTotalsBounded ==
  ASSUME NEW n \in Nat, NEW rs, Entries(rs, n), NEW top \in Nat,
         \A i \in 0 .. n - 1 : rs[i].value <= top
  PROVE  /\ \A k \in 1 .. 4 : RunningTotal(rs, k)[n] \in Nat
         /\ AllTotals(rs, n) <= n * top
<1>. DEFINE T(k) == RunningTotal(rs, k)
            S == {j \in Nat : j <= n => AllTotals(rs, j) <= j * top}
<1>1. \A k : T(k)[0] = 0 /\ \A j \in Nat : T(k)[j + 1] = T(k)[j] + Amount(rs[j], k)
  BY RunningTotals
<1>2. \A i \in 0 .. n - 1 : rs[i].value \in Nat /\ rs[i].kind \in 1 .. 4
  BY DrawsArePositive DEF Entries
<1>3. \A k : \A j \in 0 .. n : T(k)[j] \in Nat
  BY <1>2, TotalsNatural
<1>4. 0 \in S
  <2>1. AllTotals(rs, 0) = 0 /\ 0 * top = 0
    BY <1>1 DEF AllTotals
  <2>. QED BY <2>1
<1>5. \A j \in Nat : j \in S => j + 1 \in S
  <2>. SUFFICES ASSUME NEW j \in Nat, j + 1 <= n, AllTotals(rs, j) <= j * top
                PROVE  AllTotals(rs, j + 1) <= (j + 1) * top
    OBVIOUS
  <2>. DEFINE a(k) == Amount(rs[j], k)
              v == rs[j].value
              jt == j * top
  <2>1. jt \in Nat /\ (j + 1) * top = jt + top
    BY Products
  <2>2. j \in 0 .. n - 1 /\ j \in 0 .. n
    OBVIOUS
  <2>3. v \in Nat /\ v <= top /\ rs[j].kind \in 1 .. 4
    BY <1>2, <2>2
  <2>4. /\ a(1) \in Nat /\ a(2) \in Nat /\ a(3) \in Nat /\ a(4) \in Nat
        /\ a(1) + a(2) + a(3) + a(4) = v
    BY <2>3 DEF Amount
  <2>5. /\ T(1)[j] \in Nat /\ T(2)[j] \in Nat /\ T(3)[j] \in Nat /\ T(4)[j] \in Nat
    BY <1>3, <2>2
  <2>6. /\ T(1)[j + 1] = T(1)[j] + a(1) /\ T(2)[j + 1] = T(2)[j] + a(2)
        /\ T(3)[j + 1] = T(3)[j] + a(3) /\ T(4)[j + 1] = T(4)[j] + a(4)
    BY <1>1
  <2>7. /\ AllTotals(rs, j) = T(1)[j] + T(2)[j] + T(3)[j] + T(4)[j]
        /\ AllTotals(rs, j + 1) = T(1)[j + 1] + T(2)[j + 1] + T(3)[j + 1] + T(4)[j + 1]
    BY DEF AllTotals
  <2>8. AllTotals(rs, j) <= jt
    OBVIOUS
  <2>. HIDE DEF T, a, v, jt
  <2>9. AllTotals(rs, j + 1) = AllTotals(rs, j) + v /\ AllTotals(rs, j) \in Nat
    BY <2>4, <2>5, <2>6, <2>7
  <2>. QED BY <2>1, <2>3, <2>8, <2>9
<1>6. \A j \in Nat : j \in S
  <2>. HIDE DEF S
  <2>. QED BY <1>4, <1>5, TotalLoop!SetInduction
<1>. QED BY <1>3, <1>6

\* What the assumption on the values drawn says of their sum.
LEMMA BalanceFits ==
  ASSUME NEW n \in Sizes, NEW opening \in Opening, NEW rs \in Populations(n)
  PROVE  /\ \A k \in 1 .. 4 : IntegerTotal(rs, k) \in Nat
         /\ opening + IntegerTotal(rs, 1) + IntegerTotal(rs, 2) + IntegerTotal(rs, 3)
              + IntegerTotal(rs, 4) <= WordMax
<1>1. /\ n \in Nat /\ WordMax \in Nat
      /\ opening \in Nat /\ opening <= WordMax
  BY SizesAreNumbers, DrawsArePositive
<1>2. Entries(rs, n)
  BY PopulationsAreEntries
<1>. DEFINE room == WordMax - opening
            top == room \div (n + 1)
            nt == n * top
<1>3. room \in Nat /\ n + 1 \in Nat \ {0}
  BY <1>1
<1>4. top \in Nat /\ top * (n + 1) <= room /\ room < top * (n + 1) + (n + 1)
  <2>. HIDE DEF room
  <2>. QED BY <1>3, Quotient
<1>5. ASSUME NEW i \in 0 .. n - 1 PROVE rs[i].value <= top
  <2>. DEFINE v == rs[i].value
  <2>1. v \in Nat
    BY <1>2, <1>1 DEF Entries
  <2>2. opening + (n + 1) * v < WordMax
    <3>1. PICK value \in [0 .. n - 1 -> UNION {Draw[k] : k \in 1 .. 4}] :
            /\ \A id \in 0 .. n - 1 : value[id] \in Draw[KindAt(n, id)]
            /\ rs = [id \in 0 .. n - 1 |->
                       [id |-> id, kind |-> KindAt(n, id), value |-> value[id]]]
      BY DEF Populations
    <3>2. KindAt(n, i) \in 1 .. 4
      BY <1>1, KindsAreKinds
    <3>3. v \in Draw[KindAt(n, i)]
      BY <3>1
    <3>. QED BY <3>2, <3>3, TotalsFit
  <2>3. v * (n + 1) \in Nat /\ (n + 1) * v = v * (n + 1)
    <3>. HIDE DEF v
    <3>. QED BY <1>3, <2>1, Products
  <2>4. top < v => top * (n + 1) + (n + 1) <= v * (n + 1)
    <3>. HIDE DEF top, v
    <3>. QED BY <1>3, <1>4, <2>1, Products
  <2>. DEFINE p == v * (n + 1)
              q == top * (n + 1)
  <2>6. (top < v => q + (n + 1) <= p) /\ room < q + (n + 1) /\ opening + p < WordMax
    BY <1>4, <2>2, <2>3, <2>4
  <2>7. p \in Nat /\ q \in Int
    BY <1>3, <1>4, <2>3
  <2>8. room = WordMax - opening
    OBVIOUS
  <2>9. top \in Nat
    BY <1>4
  <2>. HIDE DEF p, q, top, v, room
  <2>10. v <= top
    BY <1>1, <2>1, <2>6, <2>7, <2>8, <2>9
  <2>. QED BY <2>10 DEF v
<1>6. /\ \A k \in 1 .. 4 : RunningTotal(rs, k)[n] \in Nat
      /\ AllTotals(rs, n) <= nt
  <2>. HIDE DEF top
  <2>. QED BY <1>1, <1>2, <1>4, <1>5, AllTotalsBounded
<1>7. nt \in Nat /\ nt <= room
  <2>. HIDE DEF top, room
  <2>1. nt \in Nat /\ top * (n + 1) = nt + top
    BY <1>1, <1>4, Products
  <2>. HIDE DEF nt
  <2>. QED BY <1>3, <1>4, <2>1
<1>8. DOMAIN rs = 0 .. n - 1
  BY <1>2 DEF Entries
<1>9. \A k \in 1 .. 4 : IntegerTotal(rs, k) = RunningTotal(rs, k)[n]
  BY <1>1, <1>8, TotalOfEntries
<1>. HIDE DEF nt, top
<1>10. AllTotals(rs, n) <= room
  <2>1. AllTotals(rs, n) \in Nat
    BY <1>6 DEF AllTotals
  <2>. QED BY <1>3, <1>6, <1>7, <2>1
<1>. QED BY <1>1, <1>6, <1>9, <1>10 DEF AllTotals

-------------------------------------------------------------------------------
(***************************************************************************)
(* The clean population.                                                   *)
(***************************************************************************)
\* A number of a word is its own remainder, and every remainder is a number.
LEMMA WordsStay ==
  /\ \A x \in Int : Wrapped(x) \in Nat
  /\ \A x \in 0 .. WordMax : Wrapped(x) = x
<1>. DEFINE w == WordMax + 1
<1>1. w \in Nat \ {0}
  BY DrawsArePositive
<1>2. ASSUME NEW x \in Int PROVE x % w \in Nat
  <2>. HIDE DEF w
  <2>. QED BY <1>1
<1>3. ASSUME NEW x \in 0 .. WordMax PROVE x % w = x
  <2>. DEFINE q == x \div w
              qw == q * w
  <2>1. x \in Nat /\ x < w
    BY DrawsArePositive
  <2>2. q \in Nat /\ x % w \in Nat /\ x = qw + (x % w)
    <3>. HIDE DEF w
    <3>. QED BY <1>1, <2>1, Remainder
  <2>3. 1 <= q => 1 * w <= qw
    <3>. HIDE DEF w, q
    <3>. QED BY <1>1, <2>2, Products
  <2>4. q = 0 => qw = 0
    BY <1>1
  <2>5. qw \in Nat
    <3>. HIDE DEF w, q
    <3>. QED BY <1>1, <2>2, Products
  <2>. HIDE DEF w, q, qw
  <2>. QED BY <1>1, <2>1, <2>2, <2>3, <2>4, <2>5
<1>. QED BY <1>2, <1>3 DEF Wrapped, w

Past == status \notin {"generating", "panicked"}

BalancedInv ==
  /\ ar_open \in Nat
  /\ \A k \in 1 .. 4 : IntegerTotal(records, k) \in Nat
  /\ ar_open + IntegerTotal(records, 1) + IntegerTotal(records, 2)
       + IntegerTotal(records, 3) + IntegerTotal(records, 4) <= WordMax
  /\ Past => summary = [ar_open |-> ar_open,
                        totals |-> [k \in 1 .. 4 |-> Total(records, k)],
                        ar_close |-> Wrapped(ExactClose)]
  /\ status = "rejected" => ExactClose < 0
  /\ status = "panicked" => ExactClose < 0 \/ m = 0
  /\ status \in {"anchoring", "injecting", "done", "failed"} => 0 <= ExactClose

\* Of clean books the check is that the closing balance is none below zero.
LEMMA CleanVerdict ==
  ASSUME BalancedInv, Past
  PROVE  /\ ExactClose \in Int /\ ExactClose <= WordMax
         /\ roll_forward_holds(records, summary) <=> 0 <= ExactClose
<1>. DEFINE t(k) == IntegerTotal(records, k)
            close == ExactClose
<1>1. /\ ar_open \in Nat /\ WordMax \in Nat
      /\ t(1) \in Nat /\ t(2) \in Nat /\ t(3) \in Nat /\ t(4) \in Nat
      /\ ar_open + t(1) + t(2) + t(3) + t(4) <= WordMax
      /\ close = ar_open + t(1) - t(2) - t(3) - t(4)
  BY DrawsArePositive DEF BalancedInv, ExactClose, Invoice, Receipt, CreditNote, WriteOff
<1>2. /\ summary.ar_open = ar_open
      /\ summary.totals = [k \in 1 .. 4 |-> Total(records, k)]
      /\ summary.ar_close = Wrapped(close)
  BY DEF BalancedInv
<1>3. ASSUME NEW k \in 1 .. 4 PROVE Total(records, k) = t(k)
  <2>1. k = 1 \/ k = 2 \/ k = 3 \/ k = 4
    OBVIOUS
  <2>2. t(k) \in 0 .. WordMax
    <3>. HIDE DEF t, close
    <3>. QED BY <1>1, <2>1
  <2>. QED BY <2>2, WordsStay DEF Total
<1>4. Tallied(records, summary)
  BY <1>2 DEF Tallied
<1>5. close \in Int /\ close <= WordMax
  <2>. HIDE DEF t, close
  <2>. QED BY <1>1
<1>6. Wrapped(close) \in Nat /\ (0 <= close => Wrapped(close) = close)
  <2>. HIDE DEF close
  <2>1. Wrapped(close) \in Nat
    BY <1>5, WordsStay
  <2>2. 0 <= close => close \in 0 .. WordMax
    BY <1>1, <1>5
  <2>. QED BY <2>1, <2>2, WordsStay
<1>7. /\ summary.totals[1] = t(1) /\ summary.totals[2] = t(2)
      /\ summary.totals[3] = t(3) /\ summary.totals[4] = t(4)
  BY <1>2, <1>3
<1>. HIDE DEF t, close
<1>8. Books!Verdict(RollForward(summary)) = "Ok" <=>
        /\ summary.ar_open + summary.totals[1] <= WordMax
        /\ summary.ar_open + summary.totals[1]
             = summary.ar_close + summary.totals[2] + summary.totals[3]
               + summary.totals[4]
  <2>1. \A k \in 1 .. 4 : summary.totals[k] \in Nat
    BY <1>1, <1>7
  <2>2. summary.ar_open \in Nat /\ summary.ar_close \in Nat
    BY <1>1, <1>2, <1>6
  <2>. QED BY <2>1, <2>2, RollForwardVerdict
<1>9. Books!Verdict(RollForward(summary)) = "Ok" <=>
        /\ ar_open + t(1) <= WordMax
        /\ ar_open + t(1) = Wrapped(close) + t(2) + t(3) + t(4)
  BY <1>2, <1>7, <1>8
<1>10. Books!Verdict(RollForward(summary)) = "Ok" <=> 0 <= close
  BY <1>1, <1>5, <1>6, <1>9
<1>. QED BY <1>4, <1>5, <1>10 DEF roll_forward_holds, close

\* So the clean population passes also when it is checked again, with the faults.
LEMMA StaysClean ==
  ASSUME BalancedInv, status \in {"injecting", "done"}
  PROVE  /\ roll_forward_holds(records, summary) = TRUE
         /\ \A fault : FalsePositives(fault) = 0
<1>1. Past /\ 0 <= ExactClose
  BY DEF BalancedInv, Past
<1>2. roll_forward_holds(records, summary)
  BY <1>1, CleanVerdict
<1>3. roll_forward_holds(records, summary) \in BOOLEAN
  BY DEF roll_forward_holds, Tallied
<1>. QED BY <1>2, <1>3 DEF FalsePositives

LEMMA BalancedInit == Init => BalancedInv
<1>. SUFFICES ASSUME Init PROVE BalancedInv
  OBVIOUS
<1>1. PICK n \in Sizes : records \in Populations(n)
  BY DEF Init
<1>2. ar_open \in Opening /\ ar_open \in Nat /\ status = "generating"
  BY DrawsArePositive DEF Init
<1>. QED BY <1>1, <1>2, BalanceFits DEF BalancedInv, Past

LEMMA BalancedNext == BalancedInv /\ [Next]_vars => BalancedInv'
<1>. SUFFICES ASSUME BalancedInv, [Next]_vars
              PROVE  BalancedInv'
  OBVIOUS
<1>1. records' = records /\ ar_open' = ar_open
  BY DEF Next, GeneratePanics, Generate, CheckClean, AnchorNext, CheckSample,
         InjectFaults, vars
<1>2. \A k : IntegerTotal(records, k)' = IntegerTotal(records, k)
  BY <1>1 DEF IntegerTotal, RunningTotal, Count
<1>3. ExactClose' = ExactClose /\ m' = m
  BY <1>1, <1>2 DEF ExactClose, m, Count
<1>4. /\ Wrapped(ExactClose)' = Wrapped(ExactClose)
      /\ \A k \in 1 .. 4 : Total(records, k)' = Total(records, k)
  BY <1>2, <1>3 DEF Total, Wrapped
<1>5. /\ ar_open' \in Nat
      /\ \A k \in 1 .. 4 : IntegerTotal(records, k)' \in Nat
      /\ (ar_open + IntegerTotal(records, 1) + IntegerTotal(records, 2)
            + IntegerTotal(records, 3) + IntegerTotal(records, 4))' <= WordMax
  BY <1>1, <1>2 DEF BalancedInv
<1>. DEFINE clean == [ar_open |-> ar_open,
                      totals |-> [k \in 1 .. 4 |-> Total(records, k)],
                      ar_close |-> Wrapped(ExactClose)]
<1>6. clean' = clean
  BY <1>1, <1>4
<1>7. ASSUME Past' => summary' = clean,
             status' = "rejected" => ExactClose < 0,
             status' = "panicked" => ExactClose < 0 \/ m = 0,
             status' \in {"anchoring", "injecting", "done", "failed"} => 0 <= ExactClose
      PROVE  BalancedInv'
  <2>1. /\ Past' => summary' = clean'
        /\ status' = "rejected" => ExactClose' < 0
        /\ status' = "panicked" => ExactClose' < 0 \/ m' = 0
        /\ status' \in {"anchoring", "injecting", "done", "failed"} => 0 <= ExactClose'
    BY <1>3, <1>6, <1>7
  <2>. QED BY <1>5, <2>1 DEF BalancedInv
<1>8. /\ Past => summary = clean
      /\ status = "rejected" => ExactClose < 0
      /\ status = "panicked" => ExactClose < 0 \/ m = 0
      /\ status \in {"anchoring", "injecting", "done", "failed"} => 0 <= ExactClose
  BY DEF BalancedInv
<1>9. ExactClose < 0 <=> ~ (0 <= ExactClose)
  <2>1. ExactClose \in Int
    BY DEF BalancedInv, ExactClose, Invoice, Receipt, CreditNote, WriteOff
  <2>. QED BY <2>1
<1>10. CASE GeneratePanics
  <2>1. status' = "panicked" /\ ExactClose < 0
    BY <1>10 DEF GeneratePanics
  <2>. QED BY <1>7, <2>1 DEF Past
<1>11. CASE Generate
  <2>1. status' = "checking" /\ summary' = clean
    BY <1>11 DEF Generate
  <2>. QED BY <1>7, <2>1
<1>12. CASE CheckClean
  <2>1. /\ summary' = summary /\ Past
        /\ status' = IF roll_forward_holds(records, summary) THEN "anchoring" ELSE "rejected"
    BY <1>12 DEF CheckClean, Past
  <2>2. roll_forward_holds(records, summary) <=> 0 <= ExactClose
    BY <2>1, CleanVerdict
  <2>. QED BY <1>7, <1>8, <1>9, <2>1, <2>2
<1>13. CASE AnchorNext
  <2>1. status' = status /\ summary' = summary
    BY <1>13 DEF AnchorNext
  <2>. QED BY <1>7, <1>8, <2>1 DEF Past
<1>14. CASE CheckSample
  <2>1. /\ status = "anchoring" /\ status' \in {"injecting", "failed"}
        /\ summary' = summary
    BY <1>14 DEF CheckSample
  <2>. QED BY <1>7, <1>8, <2>1 DEF Past
<1>15. CASE InjectFaults
  <2>1. /\ status = "injecting" /\ summary' = summary
        /\ status' \in {"done", "failed"} \/ (status' = "panicked" /\ m = 0)
    BY <1>15 DEF InjectFaults
  <2>. QED BY <1>7, <1>8, <2>1 DEF Past
<1>16. CASE UNCHANGED vars
  <2>1. status' = status /\ summary' = summary
    BY <1>16 DEF vars
  <2>. QED BY <1>7, <1>8, <2>1 DEF Past
<1>. QED
  BY <1>10, <1>11, <1>12, <1>13, <1>14, <1>15, <1>16 DEF Next

LEMMA BalancedClean == BalancedInv => CleanUnlessUnderflow
<1>. SUFFICES ASSUME BalancedInv PROVE CleanUnlessUnderflow
  OBVIOUS
<1>1. /\ status = "rejected" => ExactClose < 0
      /\ status = "panicked" => ExactClose < 0 \/ m = 0
  BY DEF BalancedInv
<1>2. ASSUME status \in {"anchoring", "injecting", "done", "failed"}
      PROVE  summary.ar_close = ExactClose
  <2>1. Past /\ 0 <= ExactClose /\ summary.ar_close = Wrapped(ExactClose)
    BY <1>2 DEF BalancedInv, Past
  <2>2. ExactClose \in 0 .. WordMax
    BY <2>1, CleanVerdict, DrawsArePositive
  <2>. QED BY <2>1, <2>2, WordsStay
<1>. QED BY <1>1, <1>2 DEF CleanUnlessUnderflow

\* Whatever the sizes, draws and opening balances that fit a word: a population is
\* refused, or panics the study, only when its closing balance would be below zero
\* or it is empty, and a balance that wrapped is always refused.
THEOREM CleanPopulationsPass == Spec => []CleanUnlessUnderflow
<1>1. Spec => []BalancedInv
  BY BalancedInit, BalancedNext, PTL DEF Spec
<1>. QED BY <1>1, BalancedClean, PTL

-------------------------------------------------------------------------------
(***************************************************************************)
(* What four totals cannot see.                                            *)
(***************************************************************************)
\* The copy in which a unit of value moves from record i to record j.
Moved(i, j) == [Altered(i, records[i].value - 1) EXCEPT ![j].value = records[j].value + 1]

LEMMA MovedTotals ==
  ASSUME NEW n \in Nat, Entries(records, n),
         NEW i \in 0 .. n - 1, NEW j \in 0 .. n - 1, i # j, NEW k
  PROVE  /\ IntegerTotal(records, k) \in Nat
         /\ IntegerTotal(Moved(i, j), k)
              = IntegerTotal(records, k)
                - (IF records[i].kind = k THEN 1 ELSE 0)
                + (IF records[j].kind = k THEN 1 ELSE 0)
         /\ IntegerTotal(Moved(i, j), k) \in Nat
<1>. DEFINE half == Altered(i, records[i].value - 1)
            copy == Moved(i, j)
            vi == records[i].value
            vj == records[j].value
<1>1. /\ DOMAIN records = 0 .. n - 1
      /\ \A l \in 0 .. n - 1 : records[l].value \in 1 .. WordMax
      /\ WordMax \in Nat
  BY DrawsArePositive DEF Entries
<1>2. Numbered(records, n)
  BY <1>1 DEF Numbered
<1>3. /\ DOMAIN half = 0 .. n - 1
      /\ half[i].kind = records[i].kind /\ half[i].value = vi - 1
      /\ \A l \in 0 .. n - 1 : l # i => half[l] = records[l]
  BY <1>1 DEF Altered
<1>4. Numbered(half, n) /\ SameBut(half, records, n, i)
  <2>. HIDE DEF half
  <2>1. ASSUME NEW l \in 0 .. n - 1 PROVE half[l].value \in Nat
    <3>1. CASE l = i
      BY <1>1, <1>3, <3>1
    <3>2. CASE l # i
      BY <1>1, <1>3, <3>2
    <3>. QED BY <3>1, <3>2
  <2>. QED BY <1>3, <2>1 DEF Numbered, SameBut
<1>5. /\ DOMAIN copy = 0 .. n - 1
      /\ copy[j].kind = half[j].kind /\ copy[j].value = vj + 1
      /\ \A l \in 0 .. n - 1 : l # j => copy[l] = half[l]
  <2>1. copy = [half EXCEPT ![j].value = vj + 1]
    BY DEF Moved
  <2>. HIDE DEF half, copy, vj
  <2>. QED BY <1>3, <2>1
<1>. HIDE DEF half, copy
<1>6. Numbered(copy, n) /\ SameBut(copy, half, n, j)
  <2>1. ASSUME NEW l \in 0 .. n - 1 PROVE copy[l].value \in Nat
    <3>1. CASE l = j
      BY <1>1, <1>5, <3>1
    <3>2. CASE l # j
      BY <1>4, <1>5, <3>2 DEF Numbered
    <3>. QED BY <3>1, <3>2
  <2>. QED BY <1>5, <2>1 DEF Numbered, SameBut
<1>7. /\ IntegerTotal(records, k) \in Nat
      /\ IntegerTotal(half, k)
           = IntegerTotal(records, k) - Amount(records[i], k) + Amount(half[i], k)
  BY <1>2, <1>4, AlteredTotal
<1>8. /\ IntegerTotal(half, k) \in Nat
      /\ IntegerTotal(copy, k)
           = IntegerTotal(half, k) - Amount(half[j], k) + Amount(copy[j], k)
  BY <1>4, <1>6, AlteredTotal
<1>9. half[j] = records[j]
  BY <1>3
<1>10. /\ vi \in Nat /\ vj \in Nat /\ 1 <= vi
       /\ Amount(records[i], k) = IF records[i].kind = k THEN vi ELSE 0
       /\ Amount(half[i], k) = IF records[i].kind = k THEN vi - 1 ELSE 0
       /\ Amount(half[j], k) = IF records[j].kind = k THEN vj ELSE 0
       /\ Amount(copy[j], k) = IF records[j].kind = k THEN vj + 1 ELSE 0
  BY <1>1, <1>3, <1>5, <1>9 DEF Amount
<1>11. Amount(copy[j], k) - Amount(half[j], k) \in Nat
  BY <1>10
<1>12. IntegerTotal(copy, k) \in Nat
  <2>1. Amount(copy[j], k) \in Nat /\ Amount(half[j], k) \in Nat
    BY <1>10
  <2>. QED BY <1>8, <1>11, <2>1
<1>. HIDE DEF vi, vj
<1>13. IntegerTotal(copy, k) = IntegerTotal(records, k)
                - (IF records[i].kind = k THEN 1 ELSE 0)
                + (IF records[j].kind = k THEN 1 ELSE 0)
  BY <1>7, <1>8, <1>10
<1>. QED BY <1>7, <1>12, <1>13 DEF copy

LEMMA MoveMissed ==
  ASSUME NEW n \in Nat, Entries(records, n),
         summary.totals = [l \in 1 .. 4 |-> Total(records, l)],
         roll_forward_holds(records, summary),
         NEW i \in 0 .. n - 1, NEW j \in 0 .. n - 1, i # j
  PROVE  records[i].kind = records[j].kind <=> RecordFaultMissed(Moved(i, j))
<1>. DEFINE k == records[i].kind
<1>1. k \in 1 .. 4 /\ 1 <= WordMax /\ WordMax \in Nat
  <2>1. records[i].value \in 1 .. WordMax /\ WordMax \in Nat
    BY DrawsArePositive DEF Entries
  <2>. QED BY <2>1 DEF Entries
<1>2. ASSUME k = records[j].kind PROVE RecordFaultMissed(Moved(i, j))
  <2>1. ASSUME NEW l \in 1 .. 4 PROVE Total(Moved(i, j), l) = summary.totals[l]
    <3>1. IntegerTotal(Moved(i, j), l) = IntegerTotal(records, l)
      BY <1>2, MovedTotals
    <3>. QED BY <3>1 DEF Total
  <2>2. Tallied(Moved(i, j), summary)
    BY <2>1 DEF Tallied
  <2>. QED BY <2>2 DEF RecordFaultMissed, roll_forward_holds
<1>3. ASSUME k # records[j].kind PROVE ~ RecordFaultMissed(Moved(i, j))
  <2>. DEFINE T == IntegerTotal(records, k)
              C == IntegerTotal(Moved(i, j), k)
  <2>1. T \in Nat /\ C \in Nat /\ C = T - 1
    <3>1. /\ T \in Nat /\ C \in Nat
          /\ C = T - (IF records[i].kind = k THEN 1 ELSE 0)
                   + (IF records[j].kind = k THEN 1 ELSE 0)
      BY MovedTotals
    <3>2. (IF records[i].kind = k THEN 1 ELSE 0) = 1
          /\ (IF records[j].kind = k THEN 1 ELSE 0) = 0
      BY <1>3
    <3>. HIDE DEF T, C, k
    <3>. QED BY <3>1, <3>2
  <2>2. Wrapped(C) # Wrapped(T)
    <3>. HIDE DEF T, C
    <3>1. C < T /\ T - C <= WordMax
      BY <1>1, <2>1
    <3>. QED BY <2>1, <3>1, WordsDiffer
  <2>3. Total(Moved(i, j), k) # Total(records, k)
    BY <2>2 DEF Total
  <2>. HIDE DEF k
  <2>. QED BY <1>1, <2>3, OtherTotalRefused DEF RecordFaultMissed
<1>. QED BY <1>2, <1>3

\* The two entries of the false origin have the totals of its books.
LEMMA OriginMissed ==
  ASSUME NEW claimed \in Nat, ar_open \in Nat, ar_open + claimed <= WordMax
  PROVE  OriginDetected(claimed) = 0
<1>. DEFINE books == [ar_open |-> ar_open, ar_close |-> ar_open,
                      totals |-> <<claimed, claimed, 0, 0>>]
            entries == [i \in 0 .. 1 |-> [id |-> i, kind |-> i + 1, value |-> claimed]]
<1>1. claimed \in 0 .. WordMax /\ 0 \in 0 .. WordMax /\ WordMax \in Nat
  BY DrawsArePositive
<1>2. ASSUME NEW k \in 1 .. 4 PROVE Total(entries, k) = books.totals[k]
  <2>. DEFINE T == RunningTotal(entries, k)
  <2>1. T[0] = 0 /\ \A n \in Nat : T[n + 1] = T[n] + Amount(entries[n], k)
    BY RunningTotals
  <2>2. /\ Amount(entries[0], k) = IF k = 1 THEN claimed ELSE 0
        /\ Amount(entries[1], k) = IF k = 2 THEN claimed ELSE 0
    BY DEF Amount
  <2>. HIDE DEF T
  <2>3. T[0 + 1] = T[0] + Amount(entries[0], k) /\ T[1 + 1] = T[1] + Amount(entries[1], k)
    BY <2>1
  <2>4. T[2] = IF k = 1 \/ k = 2 THEN claimed ELSE 0
    BY <2>1, <2>2, <2>3
  <2>5. IntegerTotal(entries, k) = T[2]
    <3>1. 2 \in Nat /\ DOMAIN entries = 0 .. 2 - 1
      OBVIOUS
    <3>. HIDE DEF entries
    <3>. QED BY <3>1, TotalOfEntries DEF T
  <2>6. Total(entries, k) = IF k = 1 \/ k = 2 THEN claimed ELSE 0
    BY <1>1, <2>4, <2>5, WordsStay DEF Total
  <2>. QED BY <2>6
<1>3. Tallied(entries, books)
  <2>. HIDE DEF entries, books
  <2>. QED BY <1>2 DEF Tallied
<1>4. Books!Verdict(RollForward(books)) = "Ok"
  <2>1. /\ books.ar_open = ar_open /\ books.ar_close = ar_open
        /\ books.totals[1] = claimed /\ books.totals[2] = claimed
        /\ books.totals[3] = 0 /\ books.totals[4] = 0
    OBVIOUS
  <2>2. \A k \in 1 .. 4 : books.totals[k] \in Nat
    OBVIOUS
  <2>. HIDE DEF books
  <2>. QED BY <2>1, <2>2, RollForwardVerdict
<1>5. roll_forward_holds(entries, books)
  <2>. HIDE DEF entries, books
  <2>. QED BY <1>3, <1>4 DEF roll_forward_holds
<1>. QED BY <1>5 DEF OriginDetected

\* The falsehood at origin is injected into books whose opening balance leaves room.
OriginInv ==
  /\ ar_open \in Nat
  /\ m # 0 => \A truth \in Draw[Invoice] : ar_open + truth + 1 <= WordMax
  /\ origin_detected = 0

LEMMA OriginInit == Init => OriginInv
<1>. SUFFICES ASSUME Init PROVE OriginInv
  OBVIOUS
<1>1. PICK n \in Sizes : records \in Populations(n)
  BY DEF Init
<1>2. n \in Nat /\ ar_open \in Opening /\ ar_open \in Nat /\ WordMax \in Nat
  BY SizesAreNumbers, DrawsArePositive DEF Init
<1>3. ASSUME NEW truth \in Draw[Invoice] PROVE ar_open + truth + 1 <= WordMax
  <2>1. /\ truth \in Nat /\ ar_open + (n + 1) * truth < WordMax
    BY <1>2, DrawsArePositive, TotalsFit DEF Invoice
  <2>. DEFINE nt == n * truth
  <2>2. nt \in Nat /\ (n + 1) * truth = nt + truth
    BY <1>2, <2>1, Products
  <2>. HIDE DEF nt
  <2>. QED BY <1>2, <2>1, <2>2
<1>. QED BY <1>2, <1>3 DEF OriginInv, Init

LEMMA OriginNext == OriginInv /\ [Next]_vars => OriginInv'
<1>. SUFFICES ASSUME OriginInv, [Next]_vars
              PROVE  OriginInv'
  OBVIOUS
<1>1. records' = records /\ ar_open' = ar_open
  BY DEF Next, GeneratePanics, Generate, CheckClean, AnchorNext, CheckSample,
         InjectFaults, vars
<1>2. m' = m
  BY <1>1 DEF m, Count
<1>3. origin_detected' = 0
  <2>1. CASE InjectFaults
    <3>1. CASE m = 0
      BY <2>1, <3>1 DEF InjectFaults, OriginInv
    <3>2. CASE m # 0
      <4>1. PICK truth \in Draw[Invoice] : origin_detected' = OriginDetected(truth + 1)
        BY <2>1, <3>2 DEF InjectFaults
      <4>2. truth + 1 \in Nat /\ ar_open \in Nat /\ ar_open + (truth + 1) <= WordMax
        <5>1. truth \in Nat /\ ar_open \in Nat /\ ar_open + truth + 1 <= WordMax
          BY <3>2, DrawsArePositive DEF OriginInv, Invoice
        <5>. QED BY <5>1, DrawsArePositive
      <4>. QED BY <4>1, <4>2, OriginMissed
    <3>. QED BY <3>1, <3>2
  <2>2. CASE ~ InjectFaults
    BY <2>2 DEF Next, GeneratePanics, Generate, CheckClean, AnchorNext, CheckSample,
                vars, OriginInv
  <2>. QED BY <2>1, <2>2
<1>. QED BY <1>1, <1>2, <1>3 DEF OriginInv

LEMMA FalsehoodsMissed ==
  TalliedInv /\ BalancedInv /\ OriginInv => ConsistentFalsehoodMissed
<1>. SUFFICES ASSUME TalliedInv, BalancedInv, OriginInv
              PROVE  ConsistentFalsehoodMissed
  OBVIOUS
<1>1. origin_detected = 0
  BY DEF OriginInv
<1>2. ASSUME status = "injecting",
             NEW i \in DOMAIN records, NEW j \in DOMAIN records, i # j
      PROVE  records[i].kind = records[j].kind <=> RecordFaultMissed(Moved(i, j))
  <2>1. PICK n \in Nat : Entries(records, n)
    BY DEF TalliedInv
  <2>2. summary.totals = [k \in 1 .. 4 |-> Total(records, k)]
    BY <1>2 DEF TalliedInv
  <2>3. Past /\ 0 <= ExactClose
    BY <1>2 DEF BalancedInv, Past
  <2>4. roll_forward_holds(records, summary)
    BY <2>3, CleanVerdict
  <2>5. i \in 0 .. n - 1 /\ j \in 0 .. n - 1
    BY <2>1 DEF Entries
  <2>. QED BY <1>2, <2>1, <2>2, <2>4, <2>5, MoveMissed
<1>. QED BY <1>1, <1>2 DEF ConsistentFalsehoodMissed, Moved

\* In a population of any size a unit of value that moves between two records is
\* missed exactly when they are of one kind, and the falsehood at origin always is.
THEOREM FalsehoodsAlwaysMissed == Spec => []ConsistentFalsehoodMissed
<1>1. Spec => []TalliedInv
  BY TalliedInit, TalliedNext, PTL DEF Spec
<1>2. Spec => []BalancedInv
  BY BalancedInit, BalancedNext, PTL DEF Spec
<1>3. Spec => []OriginInv
  BY OriginInit, OriginNext, PTL DEF Spec
<1>. QED BY <1>1, <1>2, <1>3, FalsehoodsMissed, PTL

-------------------------------------------------------------------------------
\* What verify_with_assistance asks.
Meets(leaf, stored, assistance) ==
  LET labels == assistance.node_labels
      k == Least(assistance.predetermined_level, VecLen(LowerSiblings(stored)))
      lower == [leaf_index |-> stored.leaf_index, siblings |-> LowerSiblings(stored)]
  IN  /\ Shifted(stored.leaf_index)[k] < VecLen(labels)
      /\ labels[Shifted(stored.leaf_index)[k]] = Walk(lower, leaf)[k]
      /\ MerkleRoot(labels) = stored.expected_root

(***************************************************************************)
(* The sample in the store.  The operators of the store are those of       *)
(* Shards and MerkleTree, in an instance.                                  *)
(***************************************************************************)
LEMMA SameStore ==
  /\ \A v : Store!VecLen(v) = VecLen(v)
  /\ \A i, j : Store!Least(i, j) = Least(i, j)
  /\ \A s, level : Store!ShardProof(s, level) = ShardProof(s, level)
  /\ \A v : Store!MerkleRoot(v) = MerkleRoot(v)
  /\ \A v, index : Store!MerkleProof(v, index) = MerkleProof(v, index)
  /\ \A index : Store!Shifted(index) = Shifted(index)
  /\ \A v, level : Store!Assistance(v, level) = Assistance(v, level)
  /\ \A leaf, stored :
       Store!Verify(leaf, stored) = "Ok"
         <=> Verifies(Reassemble(stored), leaf, stored.expected_root)
  /\ \A leaf, stored :
       Store!VerifyWithAssistance(leaf, stored) = "Ok"
         <=> /\ stored.expected_root \in DOMAIN assistance_by_root
             /\ Meets(leaf, stored, assistance_by_root[stored.expected_root])
<1>1. \A S : Store!Cardinality(S) = Cardinality(S)
  BY DEF Store!Cardinality, Cardinality
<1>2. \A v : Store!VecLen(v) = VecLen(v)
  BY <1>1 DEF Store!VecLen, VecLen
<1>3. \A i, j : Store!Least(i, j) = Least(i, j)
  BY DEF Store!Least, Least
<1>4. \A s, level : Store!ShardProof(s, level) = ShardProof(s, level)
  <2>1. \A s, from, to : Store!Shard(s, from, to) = Shard(s, from, to)
    BY DEF Store!Shard, Shard
  <2>. QED BY <1>2, <1>3, <2>1 DEF Store!ShardProof, ShardProof
<1>5. \A v : Store!Pad(v) = Pad(v)
  BY <1>2 DEF Store!Pad, Pad
<1>6. \A v : Store!Levels(v) = Levels(v)
  <2>1. \A v : Store!NextLevel(v) = NextLevel(v)
    BY <1>2, <1>5 DEF Store!NextLevel, NextLevel
  <2>. QED BY <2>1 DEF Store!Levels, Levels
<1>7. \A v : Store!Height(v) = Height(v)
  <2>1. \A v, d : Store!IsHeight(v, d) <=> IsHeight(v, d)
    BY <1>2, <1>6 DEF Store!IsHeight, IsHeight
  <2>. QED BY <1>2, <2>1 DEF Store!Height, Height
<1>8. \A v : Store!MerkleRoot(v) = MerkleRoot(v)
  BY <1>6, <1>7 DEF Store!MerkleRoot, MerkleRoot
<1>9. \A index : Store!Shifted(index) = Shifted(index)
  BY DEF Store!Shifted, Shifted
<1>10. \A v, index : Store!MerkleProof(v, index) = MerkleProof(v, index)
  <2>1. \A i : Store!SiblingIndex(i) = SiblingIndex(i)
    BY DEF Store!SiblingIndex, SiblingIndex
  <2>2. \A v, index : Store!SiblingsOf(v, index) = SiblingsOf(v, index)
    BY <1>5, <1>6, <1>7, <1>9, <2>1 DEF Store!SiblingsOf, SiblingsOf
  <2>. QED BY <2>2 DEF Store!MerkleProof, MerkleProof
<1>11. \A v, level : Store!Assistance(v, level) = Assistance(v, level)
  BY <1>3, <1>6, <1>7 DEF Store!Assistance, Assistance
<1>12. \A proof, leaf : Store!Walk(proof, leaf) = Walk(proof, leaf)
  <2>1. \A idx, x, y : Store!HashUp(idx, x, y) = HashUp(idx, x, y)
    BY DEF Store!HashUp, HashUp
  <2>. QED BY <1>9, <2>1 DEF Store!Walk, Walk
<1>13. \A leaf, stored :
         Store!Verify(leaf, stored) = "Ok"
           <=> Verifies(Reassemble(stored), leaf, stored.expected_root)
  <2>1. \A proof, leaf, root :
          Store!Verifies(proof, leaf, root) <=> Verifies(proof, leaf, root)
    BY <1>2, <1>12 DEF Store!Verifies, Verifies,
                       Store!ReconstructRoot, ReconstructRoot
  <2>2. \A v, w : Store!Extend(v, w) = Extend(v, w)
    BY <1>2 DEF Store!Extend, Extend
  <2>3. \A shards : Store!Concatenations(shards) = Concatenations(shards)
    BY <2>2 DEF Store!Concatenations, Concatenations
  <2>4. \A s : Store!Len(s) = Len(s)
    OBVIOUS
  <2>5. \A stored : Store!Reassemble(stored) = Reassemble(stored)
    BY <2>3, <2>4 DEF Store!Reassemble, Reassemble,
                      Store!Concatenated, Concatenated
  <2>. QED BY <2>1, <2>5 DEF Store!Verify
<1>14. \A leaf, stored :
         Store!VerifyWithAssistance(leaf, stored) = "Ok"
           <=> /\ stored.expected_root \in DOMAIN assistance_by_root
               /\ Meets(leaf, stored, assistance_by_root[stored.expected_root])
  <2>1. \A stored : Store!LowerSiblings(stored) = LowerSiblings(stored)
    BY DEF Store!LowerSiblings, LowerSiblings
  <2>2. \A leaf, stored, assistance :
          /\ Store!LabelMatches(leaf, stored, assistance)
          /\ MerkleRoot(assistance.node_labels) = stored.expected_root
          <=> Meets(leaf, stored, assistance)
    BY <1>2, <1>3, <1>9, <1>12, <2>1
      DEF Store!LabelMatches, Store!LevelReached,
          Store!LowerProof, Meets
  <2>. QED BY <1>8, <2>2 DEF Store!VerifyWithAssistance
<1>. QED BY <1>2, <1>3, <1>4, <1>8, <1>9, <1>10, <1>11, <1>13, <1>14

\* What the study anchors under a key.
Entry(key, i) ==
  [key |-> key, leaf_index |-> i,
   shards |-> ShardProof(SiblingsOf(leaves, i), predetermined_level),
   expected_root |-> MerkleRoot(leaves)]

LEMMA AnchorStores ==
  ASSUME AnchorNext, NEW i, i = Head(todo), NEW key, key = key_for(i, leaves[i])
  PROVE  /\ i < VecLen(leaves)
         /\ predetermined_level' = predetermined_level
         /\ DOMAIN storage' = DOMAIN storage \cup {key}
         /\ storage'[key] = Entry(key, i)
         /\ \A x \in DOMAIN storage : x # key => storage'[x] = storage[x]
<1>1. i < VecLen(leaves)
  BY SameStore DEF AnchorNext, Store!Anchor, Store!InRange
<1>2. predetermined_level' = predetermined_level
  BY DEF AnchorNext, Store!Anchor
<1>3. storage' = Store!Insert(storage, key, Entry(key, i))
  <2>1. MerkleProof(leaves, i).siblings = SiblingsOf(leaves, i)
    BY DEF MerkleProof
  <2>. QED BY <2>1, SameStore DEF AnchorNext, Store!Anchor, Entry
<1>4. /\ DOMAIN storage' = DOMAIN storage \cup {key}
      /\ storage'[key] = Entry(key, i)
      /\ \A x \in DOMAIN storage : x # key => storage'[x] = storage[x]
  BY <1>3 DEF Store!Insert
<1>. QED BY <1>1, <1>2, <1>4

-------------------------------------------------------------------------------
\* One level of a tree is as wide as the last index shifted, and one.
LEMMA WidthByShift ==
  ASSUME NEW n \in Nat \ {0}, NEW v, DOMAIN v = 0 .. n - 1
  PROVE  \A j \in Nat : /\ Shifted(n - 1)[j] \in Nat
                        /\ VecLen(Levels(v)[j]) = Shifted(n - 1)[j] + 1
<1>. DEFINE W == [j \in Nat |-> VecLen(Levels(v)[j])]
            I == Shifted(n - 1)
            S == {j \in Nat : I[j] \in Nat /\ W[j] = I[j] + 1}
<1>0. /\ VecLen(Levels(v)[0]) = n
      /\ \A j \in Nat : /\ VecLen(Levels(v)[j]) \in Nat \ {0}
                        /\ VecLen(Levels(v)[j + 1]) = (VecLen(Levels(v)[j]) + 1) \div 2
  <2>1. Levels(v)[0] = v /\ VecLen(v) = n
    BY LevelsEquations, VecLenOfDomain
  <2>. QED BY <2>1, LevelWidths
<1>1. W[0] = n /\ \A j \in Nat : W[j] \in Nat \ {0} /\ W[j + 1] = (W[j] + 1) \div 2
  <2>1. \A j \in Nat : W[j] = VecLen(Levels(v)[j]) /\ j + 1 \in Nat
    OBVIOUS
  <2>. HIDE DEF W
  <2>. QED BY <1>0, <2>1
<1>2. I[0] = n - 1 /\ \A j \in Nat : I[j + 1] = I[j] \div 2
  BY ShiftedEquations
<1>. HIDE DEF W, I
<1>3. 0 \in S
  <2>1. n - 1 \in Nat /\ n = (n - 1) + 1
    OBVIOUS
  <2>. QED BY <1>1, <1>2, <2>1
<1>4. ASSUME NEW j \in Nat, j \in S PROVE j + 1 \in S
  <2>1. \A x \in Nat : ((x + 1) + 1) \div 2 = x \div 2 + 1 /\ x \div 2 \in Nat
    OBVIOUS
  <2>. PICK x \in Nat : I[j] = x /\ W[j] = x + 1
    BY <1>4
  <2>2. I[j + 1] = x \div 2 /\ W[j + 1] = ((x + 1) + 1) \div 2
    BY <1>1, <1>2
  <2>. QED BY <2>1, <2>2
<1>5. \A j \in Nat : j \in S
  <2>. HIDE DEF S
  <2>. QED BY <1>3, <1>4, ShiftLoop!SetInduction
<1>. QED BY <1>5 DEF W, I

\* The depth by the logarithm is the height of the tree.
LEMMA DepthIsHeight ==
  ASSUME NEW n \in Nat \ {0}, NEW v, DOMAIN v = 0 .. n - 1
  PROVE  depth(n) = Height(v)
<1>. DEFINE H == Height(v)
            I == Shifted(n - 1)
            Log(e) == e \in 0 .. n - 1 /\ I[e] = 1
<1>1. Height(v) \in 0 .. n
  BY HeightShape, ZenonT(40)
<1>2. VecLen(Levels(v)[H]) = 1 /\ \A j \in 0 .. H - 1 : VecLen(Levels(v)[j]) > 1
  BY HeightShape DEF IsHeight
<1>0. I[0] = n - 1 /\ \A j \in Nat : I[j + 1] = I[j] \div 2
  BY ShiftedEquations
<1>3. /\ H \in Nat /\ H <= n
      /\ \A j \in Nat : I[j] \in Nat
      /\ I[H] = 0 /\ \A j \in 0 .. H - 1 : I[j] > 0
  <2>1. \A j \in Nat : I[j] \in Nat /\ VecLen(Levels(v)[j]) = I[j] + 1
    BY WidthByShift
  <2>3. H \in Nat /\ H <= n
    BY <1>1
  <2>. HIDE DEF I, H
  <2>4. I[H] = 0
    <3>1. \A x \in Nat : x + 1 = 1 => x = 0
      OBVIOUS
    <3>. QED BY <1>2, <2>1, <2>3, <3>1
  <2>5. ASSUME NEW j \in 0 .. H - 1 PROVE I[j] > 0
    <3>1. I[j] \in Nat /\ I[j] + 1 > 1
      BY <1>2, <2>1, <2>3
    <3>. QED BY <3>1
  <2>. QED BY <2>1, <2>3, <2>4, <2>5
<1>4. depth(n) = IF n <= 1 THEN 0 ELSE (CHOOSE e : Log(e)) + 1
  BY DEF depth, ilog2
<1>. HIDE DEF I, H
<1>5. CASE n = 1
  <2>1. H = 0
    <3>1. I[0] = 0
      BY <1>0, <1>5
    <3>2. H # 0 => 0 \in 0 .. H - 1
      BY <1>3
    <3>. QED BY <1>3, <3>1, <3>2
  <2>. QED BY <1>4, <1>5, <2>1 DEF H
<1>6. CASE n > 1
  <2>1. \A j \in Nat : I[H + j] = 0
    <3>. DEFINE S == {j \in Nat : I[H + j] = 0}
    <3>0. H \in Nat
      BY <1>3
    <3>1. 0 \in S
      BY <1>3, <3>0
    <3>2. ASSUME NEW j \in Nat, j \in S PROVE j + 1 \in S
      <4>1. H + j \in Nat /\ (H + j) + 1 = H + (j + 1) /\ 0 \div 2 = 0
        BY <3>0
      <4>2. I[(H + j) + 1] = I[H + j] \div 2
        BY <1>0, <4>1
      <4>. QED BY <3>2, <4>1, <4>2
    <3>. HIDE DEF S
    <3>3. \A j \in Nat : j \in S
      BY <3>1, <3>2, ShiftLoop!SetInduction
    <3>. QED BY <3>3 DEF S
  <2>2. H \in Nat /\ H # 0 /\ H <= n
    <3>1. H = 0 => n - 1 = 0
      BY <1>0, <1>3
    <3>. QED BY <1>3, <1>6, <3>1
  <2>3. Log(H - 1)
    <3>1. H - 1 \in 0 .. H - 1 /\ H - 1 \in 0 .. n - 1 /\ (H - 1) + 1 = H
      BY <2>2
    <3>2. I[H - 1] \in Nat /\ I[H - 1] > 0 /\ I[H - 1] \div 2 = 0
      <4>. PICK a \in Nat : a = H - 1
        BY <3>1
      <4>1. I[a + 1] = I[a] \div 2
        BY <1>0
      <4>2. a + 1 = H /\ I[a] \in Nat /\ I[a] > 0
        BY <1>3, <3>1
      <4>. QED BY <1>3, <4>1, <4>2
    <3>3. \A x \in Nat : x > 0 /\ x \div 2 = 0 => x = 1
      OBVIOUS
    <3>. QED BY <3>1, <3>2, <3>3
  <2>4. ASSUME NEW e, Log(e) PROVE e = H - 1
    <3>1. e \in Nat /\ I[e] = 1 /\ I[e + 1] = 0
      <4>1. 1 \div 2 = 0 /\ e \in Nat
        BY <2>4
      <4>2. I[e + 1] = I[e] \div 2
        BY <1>0, <4>1
      <4>. QED BY <2>4, <4>1, <4>2
    <3>2. ~ (e >= H)
      <4>. SUFFICES ASSUME e >= H PROVE FALSE
        OBVIOUS
      <4>1. e - H \in Nat /\ H + (e - H) = e
        BY <2>2, <3>1
      <4>. QED BY <2>1, <3>1, <4>1
    <3>3. ~ (e + 1 < H)
      <4>. SUFFICES ASSUME e + 1 < H PROVE FALSE
        OBVIOUS
      <4>1. e + 1 \in 0 .. H - 1
        BY <2>2, <3>1
      <4>. QED BY <1>3, <3>1, <4>1
    <3>. QED BY <2>2, <3>1, <3>2, <3>3
  <2>5. (CHOOSE e : Log(e)) = H - 1
    <3>. HIDE DEF Log
    <3>. QED BY <2>3, <2>4
  <2>6. depth(n) = H
    <3>. HIDE DEF Log
    <3>1. depth(n) = (CHOOSE e : Log(e)) + 1
      BY <1>4, <1>6
    <3>2. (H - 1) + 1 = H
      BY <2>2
    <3>. QED BY <2>5, <3>1, <3>2, Zenon
  <2>. QED BY <2>6 DEF H
<1>. QED BY <1>5, <1>6

\* It is a number for every length, and so is half of it.
LEMMA LevelNatural == \A n \in Nat : depth(n) \in Nat /\ depth(n) \div 2 \in Nat
<1>. SUFFICES ASSUME NEW n \in Nat PROVE depth(n) \in Nat /\ depth(n) \div 2 \in Nat
  OBVIOUS
<1>1. depth(n) \in Nat
  <2>1. CASE n = 0
    BY <2>1 DEF depth
  <2>2. CASE n # 0
    <3>. PICK v : v = [i \in 0 .. n - 1 |-> 0]
      OBVIOUS
    <3>1. n \in Nat \ {0} /\ DOMAIN v = 0 .. n - 1
      BY <2>2
    <3>2. Height(v) \in 0 .. n
      BY <3>1, HeightShape, ZenonT(40)
    <3>3. depth(n) = Height(v)
      BY <3>1, DepthIsHeight
    <3>. QED BY <3>2, <3>3
  <2>. QED BY <2>1, <2>2
<1>. HIDE DEF depth
<1>2. \A x \in Nat : x \div 2 \in Nat
  OBVIOUS
<1>. QED BY <1>1, <1>2

-------------------------------------------------------------------------------
(***************************************************************************)
(* The records are numbered, and their leaves are hashes of their own.     *)
(***************************************************************************)
StudyRecord == [id : Nat, kind : 1 .. 4, value : 0 .. WordMax]

LeavesApart ==
  /\ \A r, other \in StudyRecord : RecordLeaf(r) = RecordLeaf(other) => r = other
  /\ \A r \in StudyRecord : RecordLeaf(r) # Junk

RecordsInOrder(n) ==
  /\ DOMAIN records = 0 .. n - 1
  /\ \A i \in 0 .. n - 1 : records[i] \in StudyRecord /\ records[i].id = i

LeavesOfRecords == leaves = [i \in DOMAIN records |-> RecordLeaf(records[i])]

LEMMA LeavesDiffer ==
  ASSUME LeavesApart, NEW n \in Nat, RecordsInOrder(n), LeavesOfRecords
  PROVE  /\ DOMAIN leaves = 0 .. n - 1
         /\ \A i \in 0 .. n - 1 : leaves[i] = RecordLeaf(records[i])
         /\ \A i \in 0 .. n - 1 : leaves[i] # Junk
         /\ \A i, j \in 0 .. n - 1 : leaves[i] = leaves[j] => i = j
<1>1. /\ DOMAIN leaves = 0 .. n - 1
      /\ \A i \in 0 .. n - 1 : leaves[i] = RecordLeaf(records[i])
  BY DEF RecordsInOrder, LeavesOfRecords
<1>2. \A i \in 0 .. n - 1 : leaves[i] # Junk
  BY <1>1 DEF RecordsInOrder, LeavesApart
<1>3. ASSUME NEW i \in 0 .. n - 1, NEW j \in 0 .. n - 1, leaves[i] = leaves[j]
      PROVE  i = j
  <2>1. records[i] = records[j]
    BY <1>1, <1>3 DEF RecordsInOrder, LeavesApart
  <2>. QED BY <2>1 DEF RecordsInOrder
<1>. QED BY <1>1, <1>2, <1>3

\* A root is a leaf or the hash of a pair.
LEMMA RootIsNoJunk ==
  ASSUME NoPair(Junk), NEW n \in Nat \ {0}, NEW v, DOMAIN v = 0 .. n - 1,
         \A i \in 0 .. n - 1 : v[i] # Junk
  PROVE  MerkleRoot(v) # Junk
<1>. DEFINE H == Height(v)
<1>1. H \in Nat /\ MerkleRoot(v) = Levels(v)[H][0] /\ VecLen(Levels(v)[H]) = 1
  BY HeightShape DEF MerkleRoot, IsHeight
<1>2. CASE H = 0
  <2>1. Levels(v)[0] = v /\ 0 \in 0 .. n - 1
    BY LevelsEquations
  <2>. QED BY <1>1, <1>2, <2>1
<1>3. CASE H # 0
  <2>. DEFINE j == H - 1
  <2>1. j \in Nat /\ j + 1 = H
    BY <1>1, <1>3
  <2>. HIDE DEF j, H
  <2>2. 0 \in 0 .. VecLen(Levels(v)[j + 1]) - 1
    BY <1>1, <2>1
  <2>3. \A i \in 0 .. VecLen(Levels(v)[j + 1]) - 1 :
          Levels(v)[j + 1][i] = HashPair(Pad(Levels(v)[j])[2 * i], Pad(Levels(v)[j])[2 * i + 1])
    BY <2>1, NodeOfPair
  <2>. QED BY <1>1, <2>1, <2>2, <2>3 DEF NoPair
<1>. QED BY <1>2, <1>3

-------------------------------------------------------------------------------
(***************************************************************************)
(* Every position of the sample waits to be anchored or is stored with its *)
(* own proof.                                                              *)
(***************************************************************************)
Awaits(i) == \E q \in DOMAIN todo : todo[q] = i

Anchored(i) ==
  /\ key_for(i, leaves[i]) \in DOMAIN storage
  /\ Stored(i) = Entry(key_for(i, leaves[i]), i)

AnchoredInv ==
  /\ \E n \in Nat : RecordsInOrder(n)
  /\ predetermined_level \in Nat
  /\ indices \in Seq(Nat)
  /\ todo \in Seq(Nat)
  /\ status \in {"generating", "checking"} => todo = indices
  /\ status \in {"anchoring", "injecting", "done"} =>
       /\ LeavesOfRecords
       /\ \A p \in DOMAIN indices : Awaits(indices[p]) \/ Anchored(indices[p])
  /\ status \in {"injecting", "done"} => todo = <<>>
  /\ status = "done" => missed = {}
  /\ status # "failed"

LEMMA IndicesNatural ==
  ASSUME NEW n \in Nat, NEW sample \in Nat
  PROVE  InclusionIndices(n, sample) \in Seq(Nat)
<1>. DEFINE q == Least(sample, n)
            indexed == InclusionIndices(n, sample)
<1>1. q \in Nat /\ DOMAIN indexed = 1 .. q
  BY DEF Least, InclusionIndices
<1>2. \A i \in 1 .. q : indexed[i] \in Nat
  BY <1>1, IndicesIncrease
<1>3. indexed = [i \in 1 .. q |-> indexed[i]]
  BY DEF InclusionIndices
<1>. HIDE DEF q, indexed
<1>4. indexed \in Seq(Nat)
  BY <1>1, <1>2, <1>3
<1>. QED BY <1>4 DEF indexed

LEMMA PopulationsInOrder ==
  ASSUME NEW n \in Sizes, NEW opening \in Opening, records \in Populations(n)
  PROVE  RecordsInOrder(n)
<1>1. Entries(records, n) /\ n \in Nat /\ WordMax \in Nat
  BY PopulationsAreEntries, SizesAreNumbers, DrawsArePositive
<1>2. PICK value :
        records = [id \in 0 .. n - 1 |->
                     [id |-> id, kind |-> KindAt(n, id), value |-> value[id]]]
  BY DEF Populations
<1>3. ASSUME NEW i \in 0 .. n - 1
      PROVE  records[i] \in StudyRecord /\ records[i].id = i
  <2>1. records[i] = [id |-> i, kind |-> KindAt(n, i), value |-> value[i]]
    BY <1>2
  <2>2. records[i].kind \in 1 .. 4 /\ records[i].value \in 1 .. WordMax
    BY <1>1 DEF Entries
  <2>3. KindAt(n, i) \in 1 .. 4 /\ value[i] \in 0 .. WordMax
    BY <1>1, <2>1, <2>2
  <2>. QED BY <1>1, <2>1, <2>3 DEF StudyRecord
<1>. QED BY <1>1, <1>3 DEF RecordsInOrder, Entries

LEMMA AnchoredInit == Init => AnchoredInv
<1>. SUFFICES ASSUME Init PROVE AnchoredInv
  OBVIOUS
<1>1. PICK n \in Sizes, sample \in Samples :
        /\ records \in Populations(n)
        /\ indices = InclusionIndices(n, sample)
        /\ predetermined_level = depth(n) \div 2
  BY DEF Init
<1>2. n \in Nat /\ sample \in Nat
  BY SizesAreNumbers
<1>3. RecordsInOrder(n)
  BY <1>1, PopulationsInOrder DEF Init
<1>4. predetermined_level \in Nat
  BY <1>1, <1>2, LevelNatural
<1>5. indices \in Seq(Nat)
  BY <1>1, <1>2, IndicesNatural
<1>6. todo = indices /\ status = "generating"
  BY DEF Init
<1>. QED BY <1>2, <1>3, <1>4, <1>5, <1>6 DEF AnchoredInv

\* A copy of a record at a position of the sample, once the store holds it.
LEMMA SampleVerifies ==
  ASSUME AnchoredInv, SampledInv, status \in {"anchoring", "injecting"}, todo = <<>>,
         NEW p \in DOMAIN indices
  PROVE  LET i == indices[p] IN
         /\ i \in DOMAIN records
         /\ Reassemble(Stored(i)) = MerkleProof(leaves, i)
         /\ Stored(i).expected_root = MerkleRoot(leaves)
         /\ Stored(i).leaf_index = i
         /\ Store!Verify(leaves[i], Stored(i)) = "Ok"
<1>. DEFINE i == indices[p]
<1>. PICK n \in Nat : RecordsInOrder(n)
  BY DEF AnchoredInv
<1>1. i \in 0 .. n - 1 /\ n \in Nat \ {0} /\ i \in DOMAIN records
  BY SampledSpreads DEF SampleSpreads, RecordsInOrder
<1>2. DOMAIN leaves = 0 .. n - 1
  BY DEF AnchoredInv, LeavesOfRecords, RecordsInOrder
<1>3. Anchored(i)
  BY DEF AnchoredInv, Awaits
<1>. HIDE DEF i
<1>4. /\ Stored(i).leaf_index = i
      /\ Stored(i).shards = ShardProof(SiblingsOf(leaves, i), predetermined_level)
      /\ Stored(i).expected_root = MerkleRoot(leaves)
  BY <1>3 DEF Anchored, Entry
<1>5. Reassemble(Stored(i)) = MerkleProof(leaves, i)
  BY <1>1, <1>2, <1>4, StoredReassembles DEF AnchoredInv
<1>6. Store!Verify(leaves[i], Stored(i)) = "Ok"
  BY <1>1, <1>2, <1>4, <1>5, SameStore, MerkleRoundTrip
<1>. QED BY <1>1, <1>4, <1>5, <1>6 DEF i

-------------------------------------------------------------------------------
\* The three faults on records are refused (FaultsRefused), and the three on
\* proofs by the tree, when the hash never collides.
LEMMA FaultsFound ==
  ASSUME CollisionFree, LeavesApart, NoPair(Junk),
         AnchoredInv, SampledInv, TalliedInv, status = "injecting", m # 0
  PROVE  Missed = {}
<1>. PICK n \in Nat : RecordsInOrder(n)
  BY DEF AnchoredInv
<1>1. DOMAIN records = 0 .. n - 1 /\ n \in Nat \ {0} /\ 0 \in 0 .. n - 1
  <2>1. DOMAIN records = 0 .. n - 1
    BY DEF RecordsInOrder
  <2>2. m = n
    BY <2>1, FS_Interval DEF m, Count
  <2>. QED BY <2>1, <2>2
<1>2. /\ DOMAIN leaves = 0 .. n - 1
      /\ \A i \in 0 .. n - 1 : leaves[i] # Junk
      /\ \A i, j \in 0 .. n - 1 : leaves[i] = leaves[j] => i = j
  BY LeavesDiffer DEF AnchoredInv
<1>3. /\ \A p \in DOMAIN indices : indices[p] \in 0 .. n - 1
      /\ \A p, q \in DOMAIN indices : indices[p] = indices[q] => p = q
  BY <1>1, SampledSpreads DEF SampleSpreads
<1>4. /\ indices # <<>> => 1 \in DOMAIN indices
      /\ Len(indices) >= 2 => 1 \in DOMAIN indices /\ 2 \in DOMAIN indices
  BY DEF AnchoredInv
<1>5. /\ ~ RecordFaultMissed(Altered(0, Wrapped(records[0].value + 1)))
      /\ ~ RecordFaultMissed(Omitted(0))
      /\ ~ RecordFaultMissed(Duplicated(0))
  <2>1. Entries(records, n)
    <3>1. PICK k \in Nat : Entries(records, k)
      BY DEF TalliedInv
    <3>. QED BY <1>1, <3>1 DEF Entries
  <2>2. summary.totals = [k \in 1 .. 4 |-> Total(records, k)]
    BY DEF TalliedInv
  <2>3. Wrapped(records[0].value + 1) \in 0 .. WordMax \ {records[0].value}
    <3>. DEFINE value == records[0].value
    <3>1. value \in 1 .. WordMax /\ WordMax \in Nat
      BY <1>1, <2>1, DrawsArePositive DEF Entries
    <3>. HIDE DEF value
    <3>2. CASE value = WordMax
      <4>1. Wrapped(value + 1) = 0
        BY <3>1, <3>2 DEF Wrapped
      <4>. QED BY <3>1, <4>1 DEF value
    <3>3. CASE value # WordMax
      <4>1. value + 1 \in 0 .. WordMax
        BY <3>1, <3>3
      <4>2. Wrapped(value + 1) = value + 1
        BY <4>1, WordsStay
      <4>. QED BY <3>1, <4>1, <4>2 DEF value
    <3>. QED BY <3>2, <3>3
  <2>. QED BY <1>1, <2>1, <2>2, <2>3, FaultsRefused
<1>6. ~ TamperedLeafMissed
  <2>. SUFFICES ASSUME TamperedLeafMissed PROVE FALSE
    OBVIOUS
  <2>. DEFINE i == indices[1]
              proof == MerkleProof(leaves, i)
  <2>1. 1 \in DOMAIN indices /\ i \in 0 .. n - 1 /\ Store!Verify(Junk, Stored(i)) = "Ok"
    BY <1>3, <1>4 DEF TamperedLeafMissed
  <2>2. Reassemble(Stored(i)) = proof /\ Stored(i).expected_root = MerkleRoot(leaves)
    BY <2>1, SampleVerifies DEF AnchoredInv
  <2>3. Verifies(proof, Junk, MerkleRoot(leaves))
    BY <2>1, <2>2, SameStore
  <2>4. proof.leaf_index = i /\ VecLen(proof.siblings) = Height(leaves)
    BY <1>1, <1>2, HeightShape, SiblingsShape DEF MerkleProof
  <2>5. ~ Collides(leaves, proof, Junk)
    BY NoCollision
  <2>. HIDE DEF proof, i
  <2>6. Junk = leaves[proof.leaf_index]
    BY <1>1, <1>2, <2>1, <2>3, <2>4, <2>5, MerkleSoundness
  <2>. QED BY <1>2, <2>1, <2>4, <2>6
<1>7. ~ WrongIndexMissed
  <2>. SUFFICES ASSUME WrongIndexMissed PROVE FALSE
    OBVIOUS
  <2>. DEFINE i == indices[1]
              j == indices[2]
              wrong == [MerkleProof(leaves, i) EXCEPT !.leaf_index = j]
  <2>1. /\ 1 \in DOMAIN indices /\ 2 \in DOMAIN indices
        /\ Verifies(wrong, leaves[i], MerkleRoot(leaves))
    BY <1>4 DEF WrongIndexMissed
  <2>2. i \in 0 .. n - 1 /\ j \in 0 .. n - 1 /\ i # j
    BY <1>3, <2>1
  <2>3. wrong.leaf_index = j /\ VecLen(wrong.siblings) = Height(leaves)
    <3>1. wrong.leaf_index = j /\ wrong.siblings = SiblingsOf(leaves, i)
      BY DEF MerkleProof
    <3>. QED BY <1>1, <1>2, <3>1, HeightShape, SiblingsShape
  <2>4. ~ Collides(leaves, wrong, leaves[i])
    BY NoCollision
  <2>. HIDE DEF wrong, i, j
  <2>5. leaves[i] = leaves[wrong.leaf_index]
    BY <1>1, <1>2, <2>1, <2>2, <2>3, <2>4, MerkleSoundness
  <2>. QED BY <1>2, <2>2, <2>3, <2>5
<1>8. ~ WrongRootMissed
  <2>. SUFFICES ASSUME WrongRootMissed PROVE FALSE
    OBVIOUS
  <2>. DEFINE i == indices[1]
  <2>1. i \in 0 .. n - 1 /\ Verifies(MerkleProof(leaves, i), leaves[i], Junk)
    BY <1>3, <1>4 DEF WrongRootMissed
  <2>. HIDE DEF i
  <2>2. Verifies(MerkleProof(leaves, i), leaves[i], MerkleRoot(leaves))
    BY <1>1, <1>2, <2>1, MerkleRoundTrip
  <2>3. MerkleRoot(leaves) = Junk
    BY <2>1, <2>2 DEF Verifies
  <2>. QED BY <1>1, <1>2, <2>3, RootIsNoJunk
<1>. QED BY <1>5, <1>6, <1>7, <1>8 DEF Missed, RecordFaults

\* The sample as it is before a step and after it, when the leaves stay.
LEMMA AnchoringKept ==
  ASSUME NEW i, leaves' = leaves, predetermined_level' = predetermined_level
  PROVE  /\ storage' = storage /\ Anchored(i) => Anchored(i)'
         /\ todo' = todo /\ Awaits(i) => Awaits(i)'
         /\ \A key, p : Entry(key, p)' = Entry(key, p)
         /\ \A p, leaf : key_for(p, leaf)' = key_for(p, leaf)
<1>1. \A key, p : Entry(key, p)' = Entry(key, p)
  BY DEF Entry, ShardProof, SiblingsOf, MerkleRoot
<1>2. \A p, leaf : key_for(p, leaf)' = key_for(p, leaf)
  BY DEF key_for, Least
<1>3. ASSUME storage' = storage, Anchored(i) PROVE Anchored(i)'
  BY <1>1, <1>2, <1>3 DEF Anchored, Stored
<1>4. ASSUME todo' = todo, Awaits(i) PROVE Awaits(i)'
  BY <1>4 DEF Awaits
<1>. QED BY <1>1, <1>2, <1>3, <1>4

\* One more position is stored, and those that were stay so, as their keys differ.
LEMMA AnchoringAdds ==
  ASSUME LeavesApart, AnchoredInv, SampledInv, AnchorNext, NEW p \in DOMAIN indices
  PROVE  Awaits(indices[p])' \/ Anchored(indices[p])'
<1>. PICK n \in Nat : RecordsInOrder(n)
  BY DEF AnchoredInv
<1>. PICK i, j, key : i = Head(todo) /\ j = indices[p] /\ key = key_for(i, leaves[i])
  OBVIOUS
<1>1. /\ status = "anchoring" /\ todo # <<>> /\ todo' = Tail(todo)
      /\ leaves' = leaves /\ indices' = indices
  BY DEF AnchorNext
<1>2. /\ todo \in Seq(Nat) /\ i = todo[1] /\ i \in Nat
      /\ \A q \in DOMAIN todo : q = 1 \/ (q - 1 \in DOMAIN todo' /\ todo'[q - 1] = todo[q])
  <2>1. todo \in Seq(Nat) /\ todo # <<>>
    BY <1>1 DEF AnchoredInv
  <2>2. i = todo[1] /\ i \in Nat
    BY <2>1
  <2>3. /\ DOMAIN todo = 1 .. Len(todo) /\ Len(todo) \in Nat
        /\ DOMAIN Tail(todo) = 1 .. Len(todo) - 1
        /\ \A q \in 1 .. Len(todo) - 1 : Tail(todo)[q] = todo[q + 1]
    BY <2>1
  <2>4. ASSUME NEW q \in DOMAIN todo, q # 1
        PROVE  q - 1 \in DOMAIN todo' /\ todo'[q - 1] = todo[q]
    <3>1. q - 1 \in 1 .. Len(todo) - 1 /\ (q - 1) + 1 = q
      BY <2>3, <2>4
    <3>. QED BY <1>1, <2>3, <3>1
  <2>. QED BY <2>1, <2>2, <2>4
<1>3. /\ DOMAIN leaves = 0 .. n - 1
      /\ \A a, b \in 0 .. n - 1 : leaves[a] = leaves[b] => a = b
  BY <1>1, LeavesDiffer DEF AnchoredInv
<1>4. /\ i < VecLen(leaves)
      /\ predetermined_level' = predetermined_level
      /\ DOMAIN storage' = DOMAIN storage \cup {key}
      /\ storage'[key] = Entry(key, i)
      /\ \A x \in DOMAIN storage : x # key => storage'[x] = storage[x]
  BY AnchorStores
<1>5. i \in 0 .. n - 1 /\ j \in 0 .. n - 1
  <2>1. VecLen(leaves) = n
    BY <1>3, VecLenOfDomain
  <2>2. j \in DOMAIN records /\ DOMAIN records = 0 .. n - 1
    BY SampledSpreads DEF SampleSpreads, RecordsInOrder
  <2>. QED BY <1>2, <1>4, <2>1, <2>2
<1>6. /\ \A k, q : Entry(k, q)' = Entry(k, q)
      /\ \A q, leaf : key_for(q, leaf)' = key_for(q, leaf)
  BY <1>1, <1>4, AnchoringKept
<1>7. Anchored(i)'
  BY <1>1, <1>4, <1>6 DEF Anchored, Stored
<1>8. CASE Awaits(j)
  <2>1. PICK q \in DOMAIN todo : todo[q] = j
    BY <1>8 DEF Awaits
  <2>2. CASE q = 1
    BY <1>1, <1>2, <1>7, <2>1, <2>2
  <2>3. CASE q # 1
    BY <1>1, <1>2, <2>1, <2>3 DEF Awaits
  <2>. QED BY <2>2, <2>3
<1>9. CASE Anchored(j)
  <2>1. CASE i = j
    BY <1>1, <1>7, <2>1
  <2>2. CASE i # j
    <3>1. key_for(j, leaves[j]) # key
      BY <1>3, <1>5, <2>2 DEF key_for
    <3>2. Anchored(j)'
      BY <1>1, <1>4, <1>6, <1>9, <3>1 DEF Anchored, Stored
    <3>. QED BY <1>1, <3>2
  <2>. QED BY <2>1, <2>2
<1>10. Awaits(j) \/ Anchored(j)
  BY <1>1 DEF AnchoredInv
<1>. QED BY <1>8, <1>9, <1>10

LEMMA AnchoredNext ==
  ASSUME CollisionFree, LeavesApart, NoPair(Junk),
         AnchoredInv, SampledInv, TalliedInv, BalancedInv, [Next]_vars
  PROVE  AnchoredInv'
<1>1. records' = records /\ indices' = indices
  BY DEF Next, GeneratePanics, Generate, CheckClean, AnchorNext, CheckSample,
         InjectFaults, vars
<1>2. \E n \in Nat : RecordsInOrder(n)'
  BY <1>1 DEF AnchoredInv, RecordsInOrder, StudyRecord
<1>3. indices' \in Seq(Nat)
  BY <1>1 DEF AnchoredInv
<1>4. ASSUME UNCHANGED <<leaves, todo, predetermined_level, storage>>,
             status' = status \/ status' \in {"checking", "panicked", "rejected"}
               \/ (status = "anchoring" /\ status' = "injecting" /\ todo = <<>>)
               \/ (status = "injecting" /\ status' = "done"),
             status' = "checking" => status \in {"generating", "checking"},
             status' = "done" => missed' = {}
      PROVE  AnchoredInv'
  <2>1. predetermined_level' \in Nat /\ todo' \in Seq(Nat)
    BY <1>4 DEF AnchoredInv
  <2>2. status' \in {"generating", "checking"} => todo' = indices'
    BY <1>1, <1>4 DEF AnchoredInv
  <2>3. ASSUME status' \in {"anchoring", "injecting", "done"}
        PROVE  LeavesOfRecords' /\ \A p \in DOMAIN indices' :
                                     Awaits(indices[p])' \/ Anchored(indices[p])'
    <3>1. status \in {"anchoring", "injecting", "done"}
      BY <1>4, <2>3
    <3>2. LeavesOfRecords'
      BY <1>1, <1>4, <3>1 DEF AnchoredInv, LeavesOfRecords
    <3>3. ASSUME NEW p \in DOMAIN indices
          PROVE  Awaits(indices[p])' \/ Anchored(indices[p])'
      <4>. PICK i : i = indices[p]
        OBVIOUS
      <4>1. Awaits(i) \/ Anchored(i)
        BY <3>1 DEF AnchoredInv
      <4>2. Awaits(i)' \/ Anchored(i)'
        BY <1>4, <4>1, AnchoringKept
      <4>3. indices[p]' = i
        BY <1>1
      <4>. QED BY <4>2, <4>3
    <3>. QED BY <1>1, <3>2, <3>3
  <2>4. status' \in {"injecting", "done"} => todo' = <<>>
    BY <1>4 DEF AnchoredInv
  <2>5. status' # "failed"
    BY <1>4 DEF AnchoredInv
  <2>. QED BY <1>2, <1>3, <1>4, <2>1, <2>2, <2>3, <2>4, <2>5 DEF AnchoredInv
<1>5. CASE GeneratePanics
  BY <1>4, <1>5 DEF GeneratePanics, store
<1>6. CASE Generate
  BY <1>4, <1>6 DEF Generate, store
<1>7. CASE CheckClean
  <2>1. CASE ~ roll_forward_holds(records, summary)
    BY <1>4, <1>7, <2>1 DEF CheckClean, store
  <2>2. CASE roll_forward_holds(records, summary)
    <3>1. /\ status = "checking" /\ status' = "anchoring"
          /\ todo' = todo /\ predetermined_level' = predetermined_level
          /\ LeavesOfRecords'
      BY <1>1, <1>7, <2>2 DEF CheckClean, store, LeavesOfRecords
    <3>2. todo' = indices' /\ todo' \in Seq(Nat) /\ predetermined_level' \in Nat
      BY <1>1, <3>1 DEF AnchoredInv
    <3>3. \A p \in DOMAIN indices' : Awaits(indices[p])'
      BY <3>2 DEF Awaits
    <3>. QED BY <1>2, <1>3, <3>1, <3>2, <3>3 DEF AnchoredInv
  <2>. QED BY <2>1, <2>2
<1>8. CASE AnchorNext
  <2>1. /\ status = "anchoring" /\ status' = status
        /\ todo # <<>> /\ todo' = Tail(todo)
        /\ leaves' = leaves
    BY <1>8 DEF AnchorNext
  <2>2. predetermined_level' \in Nat /\ todo' \in Seq(Nat)
    <3>. PICK i, key : i = Head(todo) /\ key = key_for(i, leaves[i])
      OBVIOUS
    <3>1. predetermined_level' = predetermined_level
      BY <1>8, AnchorStores
    <3>. QED BY <2>1, <3>1 DEF AnchoredInv
  <2>3. LeavesOfRecords'
    BY <1>1, <2>1 DEF AnchoredInv, LeavesOfRecords
  <2>4. \A p \in DOMAIN indices' : Awaits(indices[p])' \/ Anchored(indices[p])'
    BY <1>1, <1>8, AnchoringAdds
  <2>. QED BY <1>2, <1>3, <2>1, <2>2, <2>3, <2>4 DEF AnchoredInv
<1>9. CASE CheckSample
  <2>1. status = "anchoring" /\ todo = <<>>
    BY <1>9 DEF CheckSample
  <2>2. \A p \in DOMAIN indices :
          Store!Verify(leaves[indices[p]], Stored(indices[p])) = "Ok"
    BY <2>1, SampleVerifies
  <2>3. status' = "injecting"
    BY <1>9, <2>2 DEF CheckSample
  <2>. QED BY <1>4, <1>9, <2>1, <2>3 DEF CheckSample, store
<1>10. CASE InjectFaults
  <2>1. CASE m = 0
    BY <1>4, <1>10, <2>1 DEF InjectFaults, store
  <2>2. CASE m # 0
    <3>1. status = "injecting" /\ missed' = Missed
      BY <1>10, <2>2 DEF InjectFaults
    <3>2. missed' = {}
      BY <2>2, <3>1, FaultsFound
    <3>3. status' = "done"
      <4>1. todo = <<>>
        BY <3>1 DEF AnchoredInv
      <4>2. \A p \in DOMAIN indices : Stored(indices[p]).leaf_index = indices[p]
        BY <3>1, <4>1, SampleVerifies
      <4>3. Disclosed = DOMAIN indices
        BY <4>2 DEF Disclosed
      <4>4. \A fault \in Injected : FalsePositives(fault) = 0
        BY <3>1, StaysClean
      <4>. QED BY <1>10, <2>2, <3>2, <4>3, <4>4 DEF InjectFaults
    <3>. QED BY <1>4, <1>10, <3>1, <3>2, <3>3 DEF InjectFaults, store
  <2>. QED BY <2>1, <2>2
<1>11. CASE UNCHANGED vars
  <2>1. UNCHANGED <<leaves, todo, predetermined_level, storage, status, missed>>
    BY <1>11 DEF vars, store
  <2>. QED BY <1>4, <2>1 DEF AnchoredInv
<1>. QED BY <1>5, <1>6, <1>7, <1>8, <1>9, <1>10, <1>11 DEF Next

LEMMA AnchoredAlways ==
  ASSUME CollisionFree, LeavesApart, NoPair(Junk)
  PROVE  Spec => [](AnchoredInv /\ SampledInv /\ TalliedInv /\ BalancedInv)
<1>. DEFINE Inv == AnchoredInv /\ SampledInv /\ TalliedInv /\ BalancedInv
<1>1. Init => Inv
  BY AnchoredInit, SampledInit, TalliedInit, BalancedInit
<1>2. Inv /\ [Next]_vars => Inv'
  BY AnchoredNext, SampledNext, TalliedNext, BalancedNext
<1>. QED BY <1>1, <1>2, PTL DEF Spec

(***************************************************************************)
(* For populations of any size and values that fit, and any sample: when   *)
(* the hash never collides and tells records apart, and its value for      *)
(* nothing is neither that of a record nor of a pair, every record main of *)
(* simstudy anchors verifies at its own position, and each of the six      *)
(* faults it injects is detected.                                          *)
(***************************************************************************)
THEOREM HonestStudiesPass ==
  ASSUME CollisionFree, LeavesApart, NoPair(Junk)
  PROVE  Spec => []HonestStudyPasses
<1>1. AnchoredInv => HonestStudyPasses
  BY DEF AnchoredInv, HonestStudyPasses
<1>. QED BY <1>1, AnchoredAlways, PTL

-------------------------------------------------------------------------------
(***************************************************************************)
(* The vector that is written.                                             *)
(***************************************************************************)
LEMMA Options ==
  \A x, d : unwrap(Some(x)) = x /\ unwrap_or(Some(x), d) = x /\ Some(x) # None
<1>. SUFFICES ASSUME NEW x, NEW d
              PROVE  unwrap(Some(x)) = x /\ unwrap_or(Some(x), d) = x /\ Some(x) # None
  OBVIOUS
<1>1. (CHOOSE y \in {x} : TRUE) = x
  OBVIOUS
<1>. QED BY <1>1 DEF unwrap, unwrap_or, Some, None

\* A set that lists n things without repeating one has n elements.
LEMMA ListedOnce ==
  ASSUME NEW n \in Nat, NEW f, DOMAIN f = 1 .. n,
         \A i, j \in 1 .. n : f[i] = f[j] => i = j
  PROVE  Cardinality({f[i] : i \in 1 .. n}) = n
<1>. DEFINE S == {f[i] : i \in 1 .. n}
            g == [i \in 1 .. n |-> f[i]]
<1>1. g \in [1 .. n -> S]
  OBVIOUS
<1>2. IsInjective(g)
  BY DEF IsInjective
<1>3. \A s \in S : \E i \in 1 .. n : g[i] = s
  OBVIOUS
<1>4. g \in Bijection(1 .. n, S)
  <2>. HIDE DEF g, S
  <2>. QED BY <1>1, <1>2, <1>3 DEF Bijection, Injection, Surjection
<1>5. ExistsBijection(1 .. n, S)
  BY <1>4 DEF ExistsBijection
<1>. HIDE DEF S
<1>. QED BY <1>5, FS_CountingElements DEF S

\* The faults in the order they are injected.
Fault == <<"altered_record_value", "omitted_record", "duplicated_record",
           "tampered_merkle_leaf", "wrong_root", "wrong_index">>

LEMMA FaultsDiffer == \A i, j \in 1 .. 6 : Fault[i] = Fault[j] => i = j
<1>1. /\ Fault[1] = "altered_record_value" /\ Fault[2] = "omitted_record"
      /\ Fault[3] = "duplicated_record" /\ Fault[4] = "tampered_merkle_leaf"
      /\ Fault[5] = "wrong_root" /\ Fault[6] = "wrong_index"
  BY DEF Fault
<1>2. \A i \in 1 .. 6 : i = 1 \/ i = 2 \/ i = 3 \/ i = 4 \/ i = 5 \/ i = 6
  OBVIOUS
<1>. QED BY <1>1, <1>2

\* Three faults are injected without a sample, five with one record, or all six.
LEMMA InjectedFaults ==
  ASSUME indices \in Seq(Nat)
  PROVE  \E n \in {3, 5, 6} : /\ Injected = {Fault[i] : i \in 1 .. n}
                              /\ n = 6 <=> Len(indices) > 1
<1>1. /\ Fault[1] = "altered_record_value" /\ Fault[2] = "omitted_record"
      /\ Fault[3] = "duplicated_record" /\ Fault[4] = "tampered_merkle_leaf"
      /\ Fault[5] = "wrong_root" /\ Fault[6] = "wrong_index"
  BY DEF Fault
<1>2. Len(indices) \in Nat /\ (indices = <<>> <=> Len(indices) = 0)
  OBVIOUS
<1>. DEFINE Listed(n) == {Fault[i] : i \in 1 .. n}
<1>3. \A n \in Nat : \A x : x \in Listed(n) <=> \E i \in 1 .. n : x = Fault[i]
  OBVIOUS
<1>4. CASE Len(indices) = 0
  <2>1. Injected = Listed(3)
    <3>1. \A i : i \in 1 .. 3 <=> i = 1 \/ i = 2 \/ i = 3
      OBVIOUS
    <3>2. \A x : x \in Listed(3) <=> x \in {Fault[1], Fault[2], Fault[3]}
      BY <3>1
    <3>. HIDE DEF Listed
    <3>. QED BY <1>1, <1>2, <1>4, <3>2 DEF Injected, RecordFaults
  <2>. QED BY <1>4, <2>1
<1>5. CASE Len(indices) = 1
  <2>1. Injected = Listed(5)
    <3>1. \A i : i \in 1 .. 5 <=> i = 1 \/ i = 2 \/ i = 3 \/ i = 4 \/ i = 5
      OBVIOUS
    <3>2. \A x : x \in Listed(5)
                   <=> x \in {Fault[1], Fault[2], Fault[3], Fault[4], Fault[5]}
      BY <3>1
    <3>. HIDE DEF Listed
    <3>. QED BY <1>1, <1>2, <1>5, <3>2 DEF Injected, RecordFaults
  <2>. QED BY <1>5, <2>1
<1>6. CASE Len(indices) > 1
  <2>1. Injected = Listed(6)
    <3>1. \A i : i \in 1 .. 6 <=> i = 1 \/ i = 2 \/ i = 3 \/ i = 4 \/ i = 5 \/ i = 6
      OBVIOUS
    <3>2. \A x : x \in Listed(6)
                   <=> x \in {Fault[1], Fault[2], Fault[3], Fault[4], Fault[5], Fault[6]}
      BY <3>1
    <3>3. indices # <<>> /\ ~ (Len(indices) < 2)
      BY <1>2, <1>6
    <3>. HIDE DEF Listed
    <3>. QED BY <1>1, <3>2, <3>3 DEF Injected, RecordFaults
  <2>. QED BY <1>6, <2>1
<1>7. Len(indices) = 0 \/ Len(indices) = 1 \/ Len(indices) > 1
  <2>1. \A n \in Nat : n = 0 \/ n = 1 \/ n > 1
    OBVIOUS
  <2>2. Len(indices) \in Nat
    BY <1>2
  <2>. HIDE DEF Listed
  <2>. QED BY <2>1, <2>2, Zenon
<1>. HIDE DEF Listed
<1>. QED BY <1>4, <1>5, <1>6, <1>7

LEMMA WrittenMatches ==
  ASSUME AnchoredInv, OriginInv, BalancedInv, status = "done"
  PROVE  PopulationMatches(VectorOut)
<1>. DEFINE entry(fault) == [name |-> fault,
                             injected |-> Some(1),
                             detected |-> Some(IF fault \in missed THEN 0 ELSE 1),
                             false_positives_clean |-> Some(FalsePositives(fault))]
            faults == {entry(fault) : fault \in Injected}
<1>1. /\ VectorOut.m_records = Some(m)
      /\ VectorOut.roll_forward_holds = Some(roll_forward_holds(records, summary))
      /\ VectorOut.faults = Some(faults)
      /\ VectorOut.origin_falsehood_detected = Some(origin_detected)
  BY DEF VectorOut
<1>6. VectorOut.roll_forward_holds = Some(TRUE)
  <2>1. roll_forward_holds(records, summary) = TRUE
    BY StaysClean
  <2>. QED BY <1>1, <2>1, Zenon
<1>2. ASSUME NEW f \in faults PROVE FaultMatches(f)
  <2>1. missed = {}
    BY DEF AnchoredInv
  <2>2. /\ f.injected = Some(1) /\ f.detected = Some(1)
        /\ f.false_positives_clean = Some(0)
    BY <2>1, StaysClean
  <2>. QED BY <2>2, Options DEF FaultMatches
<1>3. unwrap(VectorOut.faults) = faults /\ VectorOut.faults # None
  BY <1>1, Options
<1>4. VectorOut.m_records # None
  BY <1>1, Options
<1>5. unwrap_or(VectorOut.origin_falsehood_detected, 99) = 0
  BY <1>1, Options DEF OriginInv
<1>. HIDE DEF faults
<1>. QED BY <1>1, <1>2, <1>3, <1>4, <1>5, <1>6 DEF PopulationMatches

LEMMA FaultsCounted ==
  ASSUME indices \in Seq(Nat)
  PROVE  Cardinality(unwrap(VectorOut.faults)) = 6 <=> Len(indices) > 1
<1>. DEFINE entry(fault) == [name |-> fault,
                             injected |-> Some(1),
                             detected |-> Some(IF fault \in missed THEN 0 ELSE 1),
                             false_positives_clean |-> Some(FalsePositives(fault))]
            faults == {entry(fault) : fault \in Injected}
<1>1. unwrap(VectorOut.faults) = faults
  BY Options DEF VectorOut
<1>2. PICK n \in {3, 5, 6} : /\ Injected = {Fault[i] : i \in 1 .. n}
                             /\ n = 6 <=> Len(indices) > 1
  BY InjectedFaults
<1>. DEFINE list == [i \in 1 .. n |-> entry(Fault[i])]
<1>3. \A i, j \in 1 .. n : list[i] = list[j] => i = j
  <2>1. \A i \in 1 .. n : list[i].name = Fault[i] /\ i \in 1 .. 6
    BY <1>2
  <2>. HIDE DEF list
  <2>. QED BY <2>1, FaultsDiffer
<1>4. faults = {list[i] : i \in 1 .. n}
  BY <1>2
<1>5. DOMAIN list = 1 .. n /\ n \in Nat
  BY <1>2
<1>. HIDE DEF list, faults
<1>6. Cardinality(faults) = n
  BY <1>3, <1>4, <1>5, ListedOnce
<1>. QED BY <1>1, <1>2, <1>6

(***************************************************************************)
(* Under the same hypotheses whatever vector the study writes is accepted  *)
(* by vaa reproduce, and has all six faults exactly when the sample has    *)
(* two records.                                                            *)
(***************************************************************************)
THEOREM WrittenVectorsReproduce ==
  ASSUME CollisionFree, LeavesApart, NoPair(Junk)
  PROVE  Spec => []WrittenVectorReproduces
<1>1. AnchoredInv /\ OriginInv /\ BalancedInv => WrittenVectorReproduces
  BY WrittenMatches, FaultsCounted DEF AnchoredInv, WrittenVectorReproduces
<1>2. Spec => []OriginInv
  BY OriginInit, OriginNext, PTL DEF Spec
<1>. QED BY <1>1, <1>2, AnchoredAlways, PTL

-------------------------------------------------------------------------------
(***************************************************************************)
(* The storage study, over the variables the two studies have in common    *)
(* and its report.                                                         *)
(***************************************************************************)
\* A set of numbers that is not empty has a least one.
LEMMA LeastMember ==
  ASSUME NEW S, S \subseteq Nat, S # {}
  PROVE  Min(S) \in S
<1>. DEFINE Less == OpToRel(<, Nat)
<1>1. IsWellFoundedOn(Less, Nat)
  BY NatLessThanWellFounded
<1>2. PICK x \in S : \A y \in S : ~ (<<y, x>> \in Less)
  <2>. HIDE DEF Less
  <2>. QED BY <1>1, WFMin
<1>3. ASSUME NEW y \in S PROVE x <= y
  <2>1. x \in Nat /\ y \in Nat /\ (y < x => <<y, x>> \in Less)
    BY DEF OpToRel
  <2>2. ~ (<<y, x>> \in Less)
    BY <1>2
  <2>. HIDE DEF Less
  <2>. QED BY <2>1, <2>2
<1>. QED BY <1>3 DEF Min

\* The two studies compute one depth.
LEMMA SameDepth == \A n : ceil_log2(n) = depth(n)
BY DEF ceil_log2, depth

LEMMA DepthNatural ==
  ASSUME VecLen(leaves) \in Nat
  PROVE  tree_depth \in Nat /\ tree_depth \div 2 \in Nat
<1>1. tree_depth = depth(VecLen(leaves))
  BY SameDepth DEF tree_depth
<1>. QED BY <1>1, LevelNatural

(***************************************************************************)
(* Every position of the sample waits to be anchored, or is stored under   *)
(* its key with its own proof, and the labels of the tree are published.   *)
(***************************************************************************)
Kept(i) ==
  /\ key_for(i, leaves[i]) \in DOMAIN storage
  /\ Stored(i) = Entry(key_for(i, leaves[i]), i)
  /\ MerkleRoot(leaves) \in DOMAIN assistance_by_root
  /\ assistance_by_root[MerkleRoot(leaves)] = Assistance(leaves, predetermined_level)

KeptInv ==
  /\ leaves \in Tree
  /\ predetermined_level \in Nat
  /\ indices \subseteq DOMAIN leaves /\ todo \subseteq indices
  /\ \A i \in indices \ todo : Kept(i)
  /\ status \in {"measured", "done"} => todo = {}
  /\ report # <<>> => status \in {"measured", "done"}
  /\ status = "panicked" => indices = {}
  /\ status # "failed"

LEMMA KeptInit ==
  ASSUME StorageInit
  PROVE  KeptInv
<1>1. leaves \in Tree /\ VecLen(leaves) \in Nat
  BY PopulationAssumption DEF StorageInit
<1>2. predetermined_level \in Nat
  BY <1>1, DepthNatural, SizesAreNatural DEF StorageInit
<1>. QED BY <1>1, <1>2 DEF StorageInit, KeptInv

\* The step that anchors the next position.
LEMMA KeptAnchor ==
  ASSUME KeptInv, AnchorIndex
  PROVE  KeptInv'
<1>. PICK i, key : i = Min(todo) /\ key = key_for(i, leaves[i])
  OBVIOUS
<1>1. /\ status = "anchoring" /\ todo # {} /\ todo' = todo \ {i}
      /\ leaves' = leaves /\ indices' = indices /\ report' = report /\ status' = status
      /\ predetermined_level' = predetermined_level
  BY DEF AnchorIndex, Store!Anchor
<1>2. storage' = Store!Insert(storage, key, Entry(key, i))
  <2>1. MerkleProof(leaves, i).siblings = SiblingsOf(leaves, i)
    BY DEF MerkleProof
  <2>. QED BY <2>1, SameStore DEF AnchorIndex, Store!Anchor, Entry
<1>3. assistance_by_root'
        = Store!Insert(assistance_by_root, MerkleRoot(leaves),
                       Assistance(leaves, predetermined_level))
  BY SameStore DEF AnchorIndex, Store!Anchor, Store!PublishLabels
<1>4. /\ DOMAIN storage' = DOMAIN storage \cup {key}
      /\ storage'[key] = Entry(key, i)
      /\ \A x \in DOMAIN storage : x # key => storage'[x] = storage[x]
  BY <1>2 DEF Store!Insert
<1>5. /\ MerkleRoot(leaves) \in DOMAIN assistance_by_root'
      /\ assistance_by_root'[MerkleRoot(leaves)] = Assistance(leaves, predetermined_level)
  BY <1>3 DEF Store!Insert
<1>6. /\ DOMAIN leaves \subseteq Nat
      /\ \A a, b \in DOMAIN leaves : leaves[a] = leaves[b] => a = b
  BY PopulationAssumption DEF KeptInv
<1>7. i \in todo /\ i \in DOMAIN leaves
  BY <1>1, <1>6, LeastMember DEF KeptInv
<1>8. /\ \A k, q : Entry(k, q)' = Entry(k, q)
      /\ \A q, leaf : key_for(q, leaf)' = key_for(q, leaf)
      /\ MerkleRoot(leaves)' = MerkleRoot(leaves)
      /\ Assistance(leaves, predetermined_level)' = Assistance(leaves, predetermined_level)
  BY <1>1 DEF Entry, ShardProof, SiblingsOf, MerkleRoot, Assistance, key_for, Least
<1>9. ASSUME NEW j \in indices \ todo' PROVE Kept(j)'
  <2>1. CASE j = i
    <3>1. key_for(j, leaves[j])' = key
      BY <1>1, <1>8, <2>1
    <3>. QED BY <1>1, <1>4, <1>5, <1>8, <2>1, <3>1 DEF Kept, Stored
  <2>2. CASE j # i
    <3>1. j \in indices \ todo /\ j \in DOMAIN leaves
      BY <1>1, <2>2 DEF KeptInv
    <3>2. key_for(j, leaves[j]) # key
      BY <1>6, <1>7, <2>2, <3>1 DEF key_for
    <3>3. Kept(j)
      BY <3>1 DEF KeptInv
    <3>4. key_for(j, leaves[j])' = key_for(j, leaves[j])
      BY <1>1, <1>8
    <3>. QED BY <1>1, <1>4, <1>5, <1>8, <3>2, <3>3, <3>4 DEF Kept, Stored
  <2>. QED BY <2>1, <2>2
<1>. QED BY <1>1, <1>9 DEF KeptInv

\* What is kept verifies both ways.
LEMMA KeptVerifies ==
  ASSUME KeptInv, NEW i \in indices \ todo
  PROVE  /\ VecLen(leaves) \in Nat \ {0} /\ DOMAIN leaves = 0 .. VecLen(leaves) - 1
         /\ i \in 0 .. VecLen(leaves) - 1
         /\ Stored(i).leaf_index = i
         /\ Stored(i).shards = ShardProof(SiblingsOf(leaves, i), predetermined_level)
         /\ Stored(i).expected_root = MerkleRoot(leaves)
         /\ Store!Verify(leaves[i], Stored(i)) = "Ok"
         /\ Store!VerifyWithAssistance(leaves[i], Stored(i)) = "Ok"
<1>. PICK n, stored : n = VecLen(leaves) /\ stored = Stored(i)
  OBVIOUS
<1>1. /\ n \in Nat /\ DOMAIN leaves = 0 .. n - 1
      /\ i \in 0 .. n - 1 /\ predetermined_level \in Nat /\ Kept(i)
  BY PopulationAssumption DEF KeptInv
<1>2. n \in Nat \ {0}
  BY <1>1
<1>3. /\ stored.leaf_index = i
      /\ stored.shards = ShardProof(SiblingsOf(leaves, i), predetermined_level)
      /\ stored.expected_root = MerkleRoot(leaves)
  BY <1>1 DEF Kept, Entry
<1>4. Store!Verify(leaves[i], stored) = "Ok"
  <2>1. Reassemble(stored) = MerkleProof(leaves, i)
    BY <1>1, <1>2, <1>3, StoredReassembles
  <2>2. Verifies(MerkleProof(leaves, i), leaves[i], MerkleRoot(leaves))
    BY <1>1, <1>2, MerkleRoundTrip
  <2>. QED BY <1>3, <2>1, <2>2, SameStore
<1>5. Store!VerifyWithAssistance(leaves[i], stored) = "Ok"
  <2>. PICK assistance : assistance = Assistance(leaves, predetermined_level)
    OBVIOUS
  <2>1. Meets(leaves[i], stored, assistance)
    BY <1>1, <1>2, <1>3, LabelsComplete DEF Meets
  <2>. QED BY <1>1, <1>3, <2>1, SameStore DEF Kept
<1>. QED BY <1>1, <1>2, <1>3, <1>4, <1>5

LEMMA KeptNext ==
  ASSUME KeptInv, [StorageNext]_storage_vars
  PROVE  KeptInv'
<1>1. ASSUME UNCHANGED <<leaves, indices, todo, predetermined_level, storage,
                         assistance_by_root>>,
             status' \in {"measured", "done"} => todo = {},
             report' # <<>> => status' \in {"measured", "done"},
             status' = "panicked" => indices = {},
             status' # "failed"
      PROVE  KeptInv'
  <2>1. ASSUME NEW i, Kept(i) PROVE Kept(i)'
    <3>1. /\ key_for(i, leaves[i])' = key_for(i, leaves[i])
          /\ Entry(key_for(i, leaves[i]), i)'
               = Entry(key_for(i, leaves[i]), i)
          /\ MerkleRoot(leaves)' = MerkleRoot(leaves)
          /\ Assistance(leaves, predetermined_level)'
               = Assistance(leaves, predetermined_level)
      BY <1>1 DEF Entry, ShardProof, SiblingsOf, MerkleRoot, Assistance,
                  key_for, Least
    <3>. QED BY <1>1, <2>1, <3>1 DEF Kept, Stored
  <2>. QED BY <1>1, <2>1 DEF KeptInv
<1>2. CASE RejectEmpty
  BY <1>1, <1>2 DEF RejectEmpty, store, KeptInv
<1>3. CASE AnchorIndex
  BY <1>3, KeptAnchor
<1>4. CASE Measure
  BY <1>1, <1>4 DEF Measure, store, KeptInv
<1>5. CASE VerifyAll
  <2>1. status = "measured" /\ todo = {}
    BY <1>5 DEF VerifyAll, KeptInv
  <2>2. \A i \in indices :
          /\ Store!Verify(leaves[i], Stored(i)) = "Ok"
          /\ Store!VerifyWithAssistance(leaves[i], Stored(i)) = "Ok"
    BY <2>1, KeptVerifies
  <2>3. status' = "done"
    BY <1>5, <2>2 DEF VerifyAll
  <2>. QED BY <1>1, <1>5, <2>1, <2>3 DEF VerifyAll, store
<1>6. CASE UNCHANGED storage_vars
  BY <1>1, <1>6 DEF storage_vars, store, KeptInv
<1>. QED BY <1>2, <1>3, <1>4, <1>5, <1>6 DEF StorageNext

LEMMA KeptAlways == StorageSpec => []KeptInv
BY KeptInit, KeptNext, PTL DEF StorageSpec

(***************************************************************************)
(* For populations of any size, of different leaves, any sample and any    *)
(* level: every position main of simstore has anchored keeps a proof of    *)
(* its own, also beyond 32 bits.                                           *)
(***************************************************************************)
THEOREM KeysStayApart == StorageSpec => []KeysApart
<1>1. KeptInv => KeysApart
  BY DEF KeptInv, Kept, Entry, KeysApart
<1>. QED BY <1>1, KeptAlways, PTL

(***************************************************************************)
(* Whatever the hash, no proof the storage study stored fails to verify,   *)
(* by its siblings or by the labels, and only an empty sample stops it.    *)
(***************************************************************************)
THEOREM StorageStudiesPass == StorageSpec => []StorageStudyPasses
<1>1. KeptInv => StorageStudyPasses
  BY DEF KeptInv, StorageStudyPasses
<1>. QED BY <1>1, KeptAlways, PTL

-------------------------------------------------------------------------------
\* The empty shards, and those of one shard.
LEMMA ShardsAsFunctions ==
  ASSUME NEW shards
  PROVE  /\ [n \in {} |-> shards[n]] = <<>>
         /\ [n \in {1} |-> shards[n]] = <<shards[1]>>
OBVIOUS

\* What is below the level, and what is not, in a proof of d siblings.
LEMMA ShardsByLevel ==
  ASSUME NEW d \in Nat, NEW s, IsVec(s, d), NEW level \in Nat
  PROVE  LET k == Least(level, d)
             shards == ShardProof(s, level)
             lower == {n \in DOMAIN shards : shards[n].from_level < level}
             upper == {n \in DOMAIN shards : ~ (shards[n].from_level < level)}
         IN  /\ k \in 0 .. d /\ k <= level
             /\ \/ d = 0 /\ DOMAIN shards = {}
                \/ k = d /\ d > 0 /\ DOMAIN shards = {1}
                \/ k = 0 /\ d > 0 /\ DOMAIN shards = {1}
                \/ 0 < k /\ k < d /\ DOMAIN shards = {1, 2}
             /\ k = 0 => lower = {}
             /\ k > 0 => lower = {1} /\ shards[1] = Shard(s, 0, k)
             /\ k = d => upper = {}
             /\ k < d => \E b \in {1, 2} : /\ upper = {b} /\ shards[b] = Shard(s, k, d)
                                           /\ k > 0 => b = 2
                                           /\ k = 0 => b = 1
<1>. DEFINE k == Least(level, d)
            shards == ShardProof(s, level)
            lower == {n \in DOMAIN shards : shards[n].from_level < level}
            upper == {n \in DOMAIN shards : ~ (shards[n].from_level < level)}
<1>1. DOMAIN s = 0 .. d - 1
  BY VecShape
<1>2. /\ k \in 0 .. d /\ k <= level /\ (k < d => k = level)
      /\ d = 0 => shards = <<>>
      /\ d > 0 /\ k \in {0, d} => shards = <<Shard(s, 0, d)>>
      /\ 0 < k /\ k < d => shards = <<Shard(s, 0, k), Shard(s, k, d)>>
  <2>1. k \in 0 .. d /\ k <= level /\ (k < d => k = level)
    BY DEF Least
  <2>. QED BY <1>1, <2>1, ShardCases
<1>. HIDE DEF k, shards
<1>3. CASE d = 0
  <2>1. k = 0 /\ DOMAIN shards = {} /\ lower = {} /\ upper = {}
    BY <1>2, <1>3
  <2>. QED BY <1>2, <1>3, <2>1 DEF k, shards
<1>4. CASE d > 0 /\ k = 0
  <2>1. DOMAIN shards = {1} /\ shards[1] = Shard(s, k, d)
        /\ shards[1].from_level = 0 /\ level = 0
    BY <1>2, <1>4, ShardFields
  <2>2. lower = {} /\ upper = {1}
    BY <2>1
  <2>. QED BY <1>2, <1>4, <2>1, <2>2 DEF k, shards
<1>5. CASE d > 0 /\ k = d
  <2>1. DOMAIN shards = {1} /\ shards[1] = Shard(s, 0, k)
        /\ shards[1].from_level = 0 /\ level > 0
    BY <1>2, <1>5, ShardFields
  <2>2. lower = {1} /\ upper = {}
    BY <2>1
  <2>. QED BY <1>2, <1>5, <2>1, <2>2 DEF k, shards
<1>6. CASE 0 < k /\ k < d
  <2>1. DOMAIN shards = {1, 2} /\ shards[1] = Shard(s, 0, k) /\ shards[2] = Shard(s, k, d)
        /\ shards[1].from_level = 0 /\ shards[2].from_level = level /\ level > 0
    BY <1>2, <1>6, ShardFields
  <2>2. lower = {1} /\ upper = {2}
    BY <2>1
  <2>. QED BY <1>2, <1>6, <2>1, <2>2 DEF k, shards
<1>. QED BY <1>2, <1>3, <1>4, <1>5, <1>6

\* Without the upper shards, what is stored is the split of the siblings below
\* the level; there is an upper shard unless the level is as high as the proof.
LEMMA LowerOnlyShards ==
  ASSUME NEW d \in Nat, NEW s, IsVec(s, d), predetermined_level \in Nat,
         NEW key, NEW i, NEW root, NEW stored,
         stored = [key |-> key, leaf_index |-> i,
                   shards |-> ShardProof(s, predetermined_level),
                   expected_root |-> root]
  PROVE  LET k == Least(predetermined_level, d)
             t == [j \in 0 .. k - 1 |-> s[j]]
         IN  /\ k \in 0 .. d
             /\ LowerOnly(stored).shards = ShardProof(t, predetermined_level)
             /\ LowerOnly(stored).leaf_index = i
             /\ LowerOnly(stored).expected_root = root
             /\ UpperSiblings(stored) = {} <=> k = d
<1>. PICK level : level = predetermined_level
  OBVIOUS
<1>. DEFINE k == Least(level, d)
            t == [j \in 0 .. k - 1 |-> s[j]]
            shards == ShardProof(s, level)
            lower == {n \in DOMAIN shards : shards[n].from_level < level}
            upper == {n \in DOMAIN shards : ~ (shards[n].from_level < level)}
<1>1. /\ k \in 0 .. d /\ k <= level
      /\ k = 0 => lower = {}
      /\ k > 0 => lower = {1} /\ shards[1] = Shard(s, 0, k)
      /\ upper = {} <=> k = d
  <2>. HIDE DEF shards
  <2>. QED BY ShardsByLevel DEF shards
<1>2. /\ LowerOnly(stored).shards = [n \in lower |-> shards[n]]
      /\ LowerOnly(stored).leaf_index = i
      /\ LowerOnly(stored).expected_root = root
  BY DEF LowerOnly, IsLower
<1>3. UpperSiblings(stored) = {} <=> upper = {}
  BY DEF UpperSiblings, IsLower
<1>4. /\ k = 0 => ShardProof(t, level) = <<>>
      /\ k > 0 => ShardProof(t, level) = <<Shard(s, 0, k)>>
  <2>1. Least(level, k) = k
    BY <1>1 DEF Least
  <2>2. Shard(t, 0, k) = Shard(s, 0, k)
    <3>1. \A j \in 0 .. k - 0 - 1 : t[0 + j] = s[0 + j]
      BY <1>1
    <3>. HIDE DEF t, k
    <3>. QED BY <3>1 DEF Shard
  <2>3. k \in Nat /\ DOMAIN t = 0 .. k - 1
    BY <1>1
  <2>. HIDE DEF t, k
  <2>. QED BY <1>1, <2>1, <2>2, <2>3, ShardCases
<1>5. [n \in lower |-> shards[n]] = ShardProof(t, level)
  <2>. HIDE DEF k, t, shards, lower
  <2>1. CASE k = 0
    BY <1>1, <1>4, <2>1, ShardsAsFunctions
  <2>2. CASE k > 0
    BY <1>1, <1>4, <2>2, ShardsAsFunctions
  <2>. QED BY <1>1, <2>1, <2>2
<1>. QED BY <1>1, <1>2, <1>3, <1>5

\* The leaves of the storage study are 32 random bytes, not hashes of pairs.
LeavesNoPair == \A v \in Tree : \A i \in DOMAIN v : NoPair(v[i])

LEMMA LowerSuffices ==
  ASSUME CollisionFree, LeavesNoPair, KeptInv,
         NEW i \in indices \ todo
  PROVE  LET low == LowerOnly(Stored(i)) IN
         /\ Store!VerifyWithAssistance(leaves[i], low) = "Ok"
         /\ Store!Verify(leaves[i], low) = "Ok"
              <=> UpperSiblings(Stored(i)) = {}
<1>. PICK n, stored, level, low :
       /\ n = VecLen(leaves) /\ stored = Stored(i)
       /\ level = predetermined_level /\ low = LowerOnly(stored)
  OBVIOUS
<1>. DEFINE H == Height(leaves)
            s == SiblingsOf(leaves, i)
            k == Least(level, H)
            t == [j \in 0 .. k - 1 |-> s[j]]
<1>1. /\ n \in Nat \ {0} /\ DOMAIN leaves = 0 .. n - 1 /\ i \in 0 .. n - 1
      /\ level \in Nat /\ Kept(i)
  BY KeptVerifies DEF KeptInv
<1>2. \A q \in 0 .. n - 1 : NoPair(leaves[q])
  BY <1>1 DEF KeptInv, LeavesNoPair
<1>3. Height(leaves) \in 0 .. n
  BY <1>1, HeightShape, ZenonT(40)
<1>4. H \in Nat /\ IsVec(s, H)
  BY <1>1, <1>3, SiblingsShape
<1>5. /\ k \in 0 .. H
      /\ low.shards = ShardProof(t, level)
      /\ low.leaf_index = i
      /\ low.expected_root = MerkleRoot(leaves)
      /\ UpperSiblings(stored) = {} <=> k = H
  <2>1. stored = [key |-> key_for(i, leaves[i]), leaf_index |-> i,
                  shards |-> ShardProof(s, level), expected_root |-> MerkleRoot(leaves)]
    BY <1>1 DEF Kept, Entry
  <2>. HIDE DEF H, s
  <2>. QED BY <1>1, <1>4, <2>1, LowerOnlyShards
<1>6. k \in Nat /\ Least(level, k) = k /\ IsVec(t, k) /\ VecLen(t) = k
      /\ \A j \in 0 .. k - 1 : t[j] = s[j]
  <2>1. k \in Nat /\ Least(level, k) = k
    BY <1>1, <1>4 DEF Least
  <2>2. IsVec(t, k)
    BY DEF IsVec
  <2>. HIDE DEF k
  <2>3. VecLen(t) = k
    <3>. HIDE DEF t
    <3>. QED BY <2>1, <2>2, VecShape
  <2>. QED BY <2>1, <2>2, <2>3
<1>. HIDE DEF t
<1>7. Store!VerifyWithAssistance(leaves[i], low) = "Ok"
  <2>1. /\ Least(k, VecLen(LowerSiblings(low))) = k
        /\ \A j \in 0 .. k - 1 : LowerSiblings(low)[j] = s[j]
    <3>. HIDE DEF k, s
    <3>1. /\ Least(k, VecLen(LowerSiblings(low))) = k
          /\ \A j \in 0 .. k - 1 : LowerSiblings(low)[j] = t[j]
      BY <1>1, <1>5, <1>6, LowerOfShards
    <3>. QED BY <1>6, <3>1
  <2>. PICK assistance : assistance = Assistance(leaves, level)
    OBVIOUS
  <2>2. Meets(leaves[i], low, assistance)
    BY <1>1, <1>5, <2>1, LabelsMeet DEF Meets
  <2>. QED BY <1>1, <1>5, <2>2, SameStore DEF Kept
<1>. PICK proof : proof = [leaf_index |-> i, siblings |-> t]
  OBVIOUS
<1>8. Store!Verify(leaves[i], low) = "Ok"
        <=> Verifies(proof, leaves[i], MerkleRoot(leaves))
  <2>1. Concatenated(low.shards) = t
    <3>. HIDE DEF k
    <3>. QED BY <1>1, <1>5, <1>6, ConcatenatedShards
  <2>2. Reassemble(low) = proof
    BY <1>5, <2>1 DEF Reassemble
  <2>. QED BY <1>5, <2>2, SameStore
<1>9. ASSUME k = H PROVE Verifies(proof, leaves[i], MerkleRoot(leaves))
  <2>1. t = s
    <3>. HIDE DEF s, H, k
    <3>. QED BY <1>4, <1>6, <1>9, VecExtensional
  <2>2. proof = MerkleProof(leaves, i)
    BY <2>1 DEF MerkleProof
  <2>. QED BY <1>1, <2>2, MerkleRoundTrip
<1>10. ASSUME Verifies(proof, leaves[i], MerkleRoot(leaves)) PROVE k = H
  <2>1. VecLen(proof.siblings) = k /\ VecLen(proof.siblings) \in Nat
    BY <1>6
  <2>2. NoPair(leaves[i])
    BY <1>1, <1>2
  <2>3. VecLen(proof.siblings) = Height(leaves)
    BY <1>1, <1>2, <1>10, <2>1, <2>2, AcceptedHeight
  <2>. QED BY <2>1, <2>3
<1>. QED BY <1>5, <1>7, <1>8, <1>9, <1>10

(***************************************************************************)
(* The minimum the storage study calls viable is: without the upper shards *)
(* every sampled leaf still verifies by the labels and, with a hash that   *)
(* never collides, no longer by its siblings unless none was dropped.      *)
(***************************************************************************)
THEOREM MinimumSuffices ==
  ASSUME CollisionFree, LeavesNoPair
  PROVE  StorageSpec => []MinimumViableSuffices
<1>1. KeptInv => MinimumViableSuffices
  <2>1. ASSUME KeptInv, report # <<>> PROVE \A i \in indices : i \in indices \ todo
    BY <2>1 DEF KeptInv
  <2>. QED BY <2>1, LowerSuffices DEF MinimumViableSuffices
<1>. QED BY <1>1, KeptAlways, PTL

-------------------------------------------------------------------------------
(***************************************************************************)
(* Sums over finite sets: the fold of the community modules has its        *)
(* recursive function, by iteration over the sizes of the subsets.         *)
(***************************************************************************)
Chosen(s) == CHOOSE x \in s : TRUE

FoldStep(f, n, g) ==
  [s \in SUBSET DOMAIN f |->
     IF s = {} THEN 0
     ELSE f[Chosen(s)] + g[s \ {Chosen(s)}]]

FoldLoop == INSTANCE Iteration WITH Step <- FoldStep

\* Taking an element of a finite set leaves one less.
LEMMA TakeOne ==
  ASSUME NEW s, IsFiniteSet(s), s # {}
  PROVE  /\ Chosen(s) \in s
         /\ IsFiniteSet(s \ {Chosen(s)})
         /\ Cardinality(s) \in Nat \ {0}
         /\ Cardinality(s \ {Chosen(s)}) = Cardinality(s) - 1
<1>. PICK x : x = Chosen(s)
  OBVIOUS
<1>1. x \in s
  BY DEF Chosen
<1>2. IsFiniteSet(s \ {x}) /\ Cardinality(s \ {x}) = Cardinality(s) - 1
  BY <1>1, FS_RemoveElement
<1>3. Cardinality(s) \in Nat /\ Cardinality(s) # 0
  BY FS_CardinalityType, FS_EmptySet
<1>. QED BY <1>1, <1>2, <1>3

LEMMA SumEquations ==
  ASSUME NEW f, IsFiniteSet(DOMAIN f)
  PROVE  \E g : /\ SumFunction(f) = g[DOMAIN f]
                /\ g[{}] = 0
                /\ \A s \in (SUBSET DOMAIN f) \ {{}} :
                     g[s] = f[Chosen(s)] + g[s \ {Chosen(s)}]
<1>. DEFINE D == DOMAIN f
            T == FoldLoop!Iterates(f, <<>>)
            Settled(n) == \A s \in SUBSET D :
                            Cardinality(s) <= n => T[n + 1][s] = T[n + 2][s]
            S == {n \in Nat : Settled(n)}
            IsFold(g) == g = FoldStep(f, 0, g)
<1>1. \A n \in Nat : T[n + 1] = FoldStep(f, n, T[n])
  BY FoldLoop!IterationEquations
<1>. HIDE DEF T
<1>2. \A n \in Nat : \A s \in SUBSET D :
        /\ s = {} => T[n + 1][s] = 0
        /\ s # {} => T[n + 1][s] = f[Chosen(s)] + T[n][s \ {Chosen(s)}]
  BY <1>1 DEF FoldStep
<1>3. \A s \in SUBSET D : IsFiniteSet(s) /\ Cardinality(s) \in Nat
                          /\ Cardinality(s) <= Cardinality(D)
  BY FS_Subset, FS_CardinalityType
<1>4. 0 \in S
  <2>. SUFFICES ASSUME NEW s \in SUBSET D, Cardinality(s) <= 0
                PROVE  T[0 + 1][s] = T[0 + 2][s]
    OBVIOUS
  <2>1. s = {}
    BY <1>3, FS_EmptySet
  <2>2. T[0 + 1][s] = 0 /\ T[1 + 1][s] = 0
    BY <1>2, <2>1
  <2>. QED BY <2>2
<1>5. ASSUME NEW n \in Nat, n \in S PROVE n + 1 \in S
  <2>. SUFFICES ASSUME NEW s \in SUBSET D, Cardinality(s) <= n + 1
                PROVE  T[(n + 1) + 1][s] = T[(n + 1) + 2][s]
    OBVIOUS
  <2>0. n + 1 \in Nat /\ n + 2 \in Nat /\ (n + 1) + 2 = (n + 2) + 1 /\ (n + 1) + 1 = n + 2
    OBVIOUS
  <2>1. CASE s = {}
    <3>1. T[(n + 1) + 1][s] = 0
      BY <1>2, <2>0, <2>1, ZenonT(20)
    <3>2. T[(n + 2) + 1][s] = 0
      BY <1>2, <2>0, <2>1, ZenonT(20)
    <3>. QED BY <2>0, <3>1, <3>2
  <2>2. CASE s # {}
    <3>. PICK x : x = Chosen(s)
      OBVIOUS
    <3>1. s \ {x} \in SUBSET D /\ Cardinality(s \ {x}) <= n
      <4>1. Cardinality(s \ {x}) = Cardinality(s) - 1 /\ Cardinality(s) \in Nat
        BY <1>3, <2>2, TakeOne
      <4>. QED BY <4>1
    <3>2. T[n + 1][s \ {x}] = T[n + 2][s \ {x}]
      BY <1>5, <3>1
    <3>3. T[(n + 1) + 1][s] = f[x] + T[n + 1][s \ {x}]
      BY <1>2, <2>0, <2>2
    <3>4. T[(n + 2) + 1][s] = f[x] + T[n + 2][s \ {x}]
      BY <1>2, <2>0, <2>2
    <3>. QED BY <2>0, <3>2, <3>3, <3>4
  <2>. QED BY <2>1, <2>2
<1>6. \A n \in Nat : n \in S
  <2>. HIDE DEF S
  <2>. QED BY <1>4, <1>5, FoldLoop!SetInduction
<1>7. \E g : IsFold(g)
  <2>. PICK N : N = Cardinality(D)
    OBVIOUS
  <2>1. N \in Nat /\ Settled(N)
    BY <1>3, <1>6, FS_CardinalityType
  <2>2. N + 1 \in Nat /\ (N + 1) + 1 = N + 2
    BY <2>1
  <2>. DEFINE g == T[N + 1]
  <2>3. g = FoldStep(f, N, T[N]) /\ T[N + 2] = FoldStep(f, N + 1, g)
    BY <1>1, <2>1, <2>2
  <2>4. \A s \in SUBSET D : g[s] = T[N + 2][s]
    BY <1>3, <2>1
  <2>. HIDE DEF g
  <2>5. g = [s \in SUBSET D |-> g[s]]
    BY <2>3 DEF FoldStep
  <2>6. T[N + 2] = [s \in SUBSET D |-> T[N + 2][s]]
    BY <2>3 DEF FoldStep
  <2>7. g = T[N + 2]
    BY <2>4, <2>5, <2>6
  <2>8. FoldStep(f, N + 1, g) = FoldStep(f, 0, g)
    BY DEF FoldStep
  <2>. QED BY <2>3, <2>7, <2>8
<1>. PICK g : g = CHOOSE h : IsFold(h)
  OBVIOUS
<1>8. IsFold(g)
  BY <1>7
<1>9. SumFunction(f) = g[D]
  BY DEF SumFunction, SumFunctionOnSet, FoldFunctionOnSet,
         MapThenFoldSet, FoldStep, Chosen
<1>. HIDE DEF D
<1>10. g[{}] = 0
  BY <1>8 DEF FoldStep, D
<1>11. \A s \in (SUBSET D) \ {{}} :
         g[s] = f[Chosen(s)] + g[s \ {Chosen(s)}]
  BY <1>8 DEF FoldStep, D
<1>. QED BY <1>9, <1>10, <1>11 DEF D

\* A sum of equal terms.
LEMMA ConstantSum ==
  ASSUME NEW f, IsFiniteSet(DOMAIN f), NEW c \in Nat, \A x \in DOMAIN f : f[x] = c
  PROVE  SumFunction(f) = Cardinality(DOMAIN f) * c
<1>. PICK g : /\ SumFunction(f) = g[DOMAIN f]
              /\ g[{}] = 0
              /\ \A s \in (SUBSET DOMAIN f) \ {{}} :
                   g[s] = f[Chosen(s)] + g[s \ {Chosen(s)}]
  BY SumEquations
<1>. DEFINE Sums(n) == \A s \in SUBSET DOMAIN f : Cardinality(s) = n => g[s] = n * c
            S == {n \in Nat : Sums(n)}
<1>1. \A s \in SUBSET DOMAIN f : IsFiniteSet(s)
  BY FS_Subset
<1>2. 0 \in S
  <2>1. \A s \in SUBSET DOMAIN f : Cardinality(s) = 0 => s = {}
    BY <1>1, FS_EmptySet
  <2>2. 0 * c = 0
    OBVIOUS
  <2>. QED BY <2>1, <2>2
<1>3. ASSUME NEW n \in Nat, n \in S PROVE n + 1 \in S
  <2>. SUFFICES ASSUME NEW s \in SUBSET DOMAIN f, Cardinality(s) = n + 1
                PROVE  g[s] = (n + 1) * c
    OBVIOUS
  <2>1. s # {} /\ IsFiniteSet(s)
    BY <1>1, FS_EmptySet
  <2>. PICK x : x = Chosen(s)
    OBVIOUS
  <2>2. x \in s /\ Cardinality(s \ {x}) = Cardinality(s) - 1
    BY <2>1, TakeOne
  <2>3. g[s] = f[x] + g[s \ {x}] /\ f[x] = c
    BY <2>1, <2>2
  <2>4. g[s \ {x}] = n * c
    BY <1>3, <2>2
  <2>5. (n + 1) * c = c + n * c
    OBVIOUS
  <2>. QED BY <2>3, <2>4, <2>5
<1>4. \A n \in Nat : n \in S
  <2>. HIDE DEF S
  <2>. QED BY <1>2, <1>3, FoldLoop!SetInduction
<1>. QED BY <1>4, FS_CardinalityType

\* A sum of two terms.
LEMMA SumOfPair ==
  ASSUME NEW f, DOMAIN f = {1, 2}, f[1] \in Nat, f[2] \in Nat
  PROVE  SumFunction(f) = f[1] + f[2]
<1>1. IsFiniteSet({1, 2})
  <2>1. IsFiniteSet({1})
    BY FS_Singleton
  <2>2. IsFiniteSet({1} \cup {2})
    BY <2>1, FS_AddElement
  <2>3. {1} \cup {2} = {1, 2}
    OBVIOUS
  <2>. QED BY <2>2, <2>3
<1>. IsFiniteSet(DOMAIN f)
  BY <1>1
<1>. PICK g : /\ SumFunction(f) = g[DOMAIN f]
              /\ g[{}] = 0
              /\ \A s \in (SUBSET DOMAIN f) \ {{}} :
                   g[s] = f[Chosen(s)] + g[s \ {Chosen(s)}]
  BY SumEquations, ZenonT(60)
<1>2. ASSUME NEW a \in {1, 2} PROVE g[{a}] = f[a]
  <2>1. Chosen({a}) = a /\ {a} \ {a} = {} /\ {a} \in (SUBSET {1, 2}) \ {{}}
    BY DEF Chosen
  <2>2. g[{a}] = f[Chosen({a})] + g[{a} \ {Chosen({a})}]
    BY <2>1
  <2>3. g[{a}] = f[a] + 0
    BY <2>1, <2>2, Zenon
  <2>4. f[a] \in Nat
    OBVIOUS
  <2>. QED BY <2>3, <2>4
<1>. PICK x : x = Chosen({1, 2})
  OBVIOUS
<1>3. x \in {1, 2} /\ g[{1, 2}] = f[x] + g[{1, 2} \ {x}]
  <2>1. {1, 2} \in (SUBSET {1, 2}) \ {{}} /\ Chosen({1, 2}) \in {1, 2}
    BY DEF Chosen
  <2>. QED BY <2>1
<1>4. CASE x = 1
  <2>1. {1, 2} \ {x} = {2}
    BY <1>4
  <2>. QED BY <1>2, <1>3, <1>4, <2>1
<1>5. CASE x = 2
  <2>1. {1, 2} \ {x} = {1}
    BY <1>5
  <2>2. g[{1}] = f[1]
    BY <1>2
  <2>3. g[{1, 2}] = f[2] + f[1]
    BY <1>3, <1>5, <2>1, <2>2
  <2>4. f[2] + f[1] = f[1] + f[2]
    OBVIOUS
  <2>. QED BY <2>3, <2>4
<1>. QED BY <1>3, <1>4, <1>5

-------------------------------------------------------------------------------
(***************************************************************************)
(* The byte counts.                                                        *)
(***************************************************************************)
\* The bytes of a proof, those of its lower part, and the list of the upper
\* siblings, of which there is at most one.
LEMMA BytesOfShards ==
  ASSUME NEW d \in Nat, NEW s, IsVec(s, d), predetermined_level \in Nat,
         HASH_BYTES \in Nat,
         NEW stored, stored.shards = ShardProof(s, predetermined_level)
  PROVE  LET k == Least(predetermined_level, d) IN
         /\ k \in 0 .. d
         /\ ShardBytes(stored) = d * HASH_BYTES
         /\ LowerBytes(stored) = k * HASH_BYTES
         /\ k = d => UpperSiblings(stored) = {}
         /\ k < d => UpperSiblings(stored) = {Shard(s, k, d).siblings}
<1>. PICK level, c : level = predetermined_level /\ c = HASH_BYTES
  OBVIOUS
<1>. DEFINE k == Least(level, d)
            shards == ShardProof(s, level)
            lower == {n \in DOMAIN shards : shards[n].from_level < level}
            upper == {n \in DOMAIN shards : ~ (shards[n].from_level < level)}
            f == [n \in DOMAIN shards |-> VecLen(shards[n].siblings) * c]
            g == [n \in lower |-> VecLen(shards[n].siblings) * c]
<1>1. /\ k \in 0 .. d /\ k <= level
      /\ \/ d = 0 /\ DOMAIN shards = {}
         \/ k = d /\ d > 0 /\ DOMAIN shards = {1}
         \/ k = 0 /\ d > 0 /\ DOMAIN shards = {1}
         \/ 0 < k /\ k < d /\ DOMAIN shards = {1, 2}
      /\ k = 0 => lower = {}
      /\ k > 0 => lower = {1} /\ shards[1] = Shard(s, 0, k)
      /\ k = d => upper = {}
      /\ k < d => \E b \in {1, 2} : /\ upper = {b} /\ shards[b] = Shard(s, k, d)
                                    /\ k > 0 => b = 2
                                    /\ k = 0 => b = 1
  <2>. HIDE DEF shards
  <2>. QED BY ShardsByLevel DEF shards
<1>2. /\ ShardBytes(stored) = SumFunction(f)
      /\ LowerBytes(stored) = SumFunction(g)
      /\ UpperSiblings(stored) = {shards[n].siblings : n \in upper}
  BY DEF ShardBytes, LowerBytes, UpperSiblings, IsLower, Bytes
<1>3. /\ k > 0 => VecLen(shards[1].siblings) = k
      /\ \A b : shards[b] = Shard(s, k, d) => VecLen(shards[b].siblings) = d - k
  <2>. HIDE DEF k, lower, upper, shards
  <2>0. 0 \in Nat /\ k \in Nat /\ 0 <= k /\ k <= d /\ k - 0 = k
    BY <1>1
  <2>1. VecLen(Shard(s, 0, k).siblings) = k
    BY <2>0, ShardShape
  <2>2. VecLen(Shard(s, k, d).siblings) = d - k
    BY <2>0, ShardShape
  <2>. QED BY <1>1, <2>1, <2>2
<1>4. c \in Nat /\ 0 * c = 0 /\ k * c \in Nat /\ d * c \in Nat /\ (d - k) * c \in Nat
      /\ k * c + (d - k) * c = d * c
  <2>1. \A a, b \in Nat : a <= b => a * c \in Nat /\ b * c \in Nat
                            /\ (b - a) * c \in Nat /\ a * c + (b - a) * c = b * c
    OBVIOUS
  <2>. HIDE DEF k
  <2>. QED BY <1>1, <2>1
<1>. HIDE DEF k, lower, upper, shards
<1>5. DOMAIN f = DOMAIN shards /\ DOMAIN g = lower
      /\ (\A b \in DOMAIN shards : f[b] = VecLen(shards[b].siblings) * c)
      /\ (\A b \in lower : g[b] = VecLen(shards[b].siblings) * c)
  OBVIOUS
<1>. HIDE DEF f, g
<1>6. SumFunction(f) = d * c
  <2>1. CASE DOMAIN shards = {}
    <3>1. IsFiniteSet({}) /\ Cardinality({}) = 0
      BY FS_EmptySet
    <3>2. d = 0
      BY <1>1, <2>1
    <3>. QED BY <1>4, <1>5, <2>1, <3>1, <3>2, ConstantSum
  <2>2. CASE DOMAIN shards = {1}
    <3>1. IsFiniteSet({1}) /\ Cardinality({1}) = 1
      BY FS_Singleton
    <3>2. f[1] = d * c
      <4>1. VecLen(shards[1].siblings) = d
        BY <1>1, <1>3, <2>2
      <4>. QED BY <1>5, <2>2, <4>1
    <3>3. SumFunction(f) = 1 * (d * c)
      BY <1>4, <1>5, <2>2, <3>1, <3>2, ConstantSum
    <3>. QED BY <1>4, <3>3
  <2>3. CASE DOMAIN shards = {1, 2}
    <3>1. VecLen(shards[1].siblings) = k /\ VecLen(shards[2].siblings) = d - k
      BY <1>1, <1>3, <2>3
    <3>2. f[1] = k * c /\ f[2] = (d - k) * c
      BY <1>5, <2>3, <3>1
    <3>. QED BY <1>4, <1>5, <2>3, <3>2, SumOfPair
  <2>. QED BY <1>1, <2>1, <2>2, <2>3
<1>7. SumFunction(g) = k * c
  <2>1. CASE k = 0
    <3>1. IsFiniteSet({}) /\ Cardinality({}) = 0
      BY FS_EmptySet
    <3>2. DOMAIN g = {} /\ 0 \in Nat /\ \A x \in DOMAIN g : g[x] = 0
      BY <1>1, <1>5, <2>1
    <3>3. SumFunction(g) = 0 * 0
      BY <3>1, <3>2, ConstantSum
    <3>. QED BY <1>4, <2>1, <3>3
  <2>2. CASE k > 0
    <3>1. IsFiniteSet({1}) /\ Cardinality({1}) = 1
      BY FS_Singleton
    <3>2. g[1] = k * c
      BY <1>1, <1>3, <1>5, <2>2
    <3>3. DOMAIN g = {1} /\ k * c \in Nat /\ \A x \in DOMAIN g : g[x] = k * c
      BY <1>1, <1>4, <1>5, <2>2, <3>2
    <3>4. SumFunction(g) = 1 * (k * c)
      BY <3>1, <3>3, ConstantSum
    <3>. QED BY <1>4, <3>4
  <2>. QED BY <1>1, <2>1, <2>2
<1>8. /\ k = d => UpperSiblings(stored) = {}
      /\ k < d => UpperSiblings(stored) = {Shard(s, k, d).siblings}
  BY <1>1, <1>2
<1>. QED BY <1>1, <1>2, <1>6, <1>7, <1>8 DEF k

(***************************************************************************)
(* What the study reports, in the width and the height of the tree.        *)
(***************************************************************************)
ReportLevel == Least(predetermined_level, Height(leaves))

UpperOf(i) == Shard(SiblingsOf(leaves, i), ReportLevel, Height(leaves)).siblings

Uppers == IF ReportLevel < Height(leaves) THEN {UpperOf(i) : i \in indices} ELSE {}

Counts(rep) ==
  LET q == Cardinality(indices)
      H == Height(leaves)
      k == ReportLevel
      labels == VecLen(Levels(leaves)[k])
  IN  /\ rep.baseline_formula = q * H * HASH_BYTES
      /\ rep.baseline_realised = q * (H * HASH_BYTES)
      /\ rep.held.minimum_viable = q * (k * HASH_BYTES) + labels * HASH_BYTES
      /\ rep.held.upper_dedup
           = q * (k * HASH_BYTES) + Cardinality(Uppers) * ((H - k) * HASH_BYTES)
               + labels * HASH_BYTES

CountedInv ==
  /\ KeptInv
  /\ status \in {"measured", "done"} => report # <<>>
  /\ report # <<>> => indices # {} /\ Counts(report)

\* One position's part of the counts.
LEMMA CountsAt ==
  ASSUME HASH_BYTES \in Nat, KeptInv, NEW i \in indices \ todo
  PROVE  LET k == ReportLevel IN
         /\ Height(leaves) \in Nat /\ k \in 0 .. Height(leaves)
         /\ ShardBytes(Stored(i)) = Height(leaves) * HASH_BYTES
         /\ LowerBytes(Stored(i)) = k * HASH_BYTES
         /\ k = Height(leaves) => UpperSiblings(Stored(i)) = {}
         /\ k < Height(leaves) => UpperSiblings(Stored(i)) = {UpperOf(i)}
         /\ VecLen(UpperOf(i)) = Height(leaves) - k
<1>. PICK n, stored, H, s :
       /\ n = VecLen(leaves) /\ stored = Stored(i)
       /\ H = Height(leaves) /\ s = SiblingsOf(leaves, i)
  OBVIOUS
<1>1. /\ n \in Nat \ {0} /\ DOMAIN leaves = 0 .. n - 1
      /\ stored.shards = ShardProof(s, predetermined_level)
      /\ predetermined_level \in Nat
  BY KeptVerifies DEF KeptInv
<1>2. Height(leaves) \in 0 .. n
  BY <1>1, HeightShape, ZenonT(40)
<1>3. H \in Nat /\ IsVec(s, H)
  BY <1>1, <1>2, SiblingsShape
<1>. DEFINE k == Least(predetermined_level, H)
<1>4. /\ k \in 0 .. H
      /\ ShardBytes(stored) = H * HASH_BYTES
      /\ LowerBytes(stored) = k * HASH_BYTES
      /\ k = H => UpperSiblings(stored) = {}
      /\ k < H => UpperSiblings(stored) = {Shard(s, k, H).siblings}
  BY <1>1, <1>3, BytesOfShards
<1>. HIDE DEF k
<1>5. VecLen(Shard(s, k, H).siblings) = H - k
  <2>1. k \in Nat /\ k <= H
    BY <1>3, <1>4
  <2>. QED BY <1>3, <2>1, ShardShape
<1>. QED BY <1>3, <1>4, <1>5 DEF k, ReportLevel, UpperOf

LEMMA ReportCounts ==
  ASSUME HASH_BYTES \in Nat, KeptInv, todo = {}, indices # {}
  PROVE  Counts(Report)
<1>. PICK n, H, k, c, q :
       /\ n = VecLen(leaves) /\ H = Height(leaves) /\ k = ReportLevel
       /\ c = HASH_BYTES /\ q = Cardinality(indices)
  OBVIOUS
<1>1. /\ \A i \in indices : i \in indices \ todo
      /\ n \in Nat \ {0} /\ DOMAIN leaves = 0 .. n - 1 /\ indices \subseteq 0 .. n - 1
  <2>1. \A i \in indices : i \in indices \ todo
    OBVIOUS
  <2>2. n \in Nat \ {0} /\ DOMAIN leaves = 0 .. n - 1
    BY <2>1, KeptVerifies
  <2>. QED BY <2>1, <2>2 DEF KeptInv
<1>2. IsFiniteSet(indices) /\ q \in Nat
  <2>1. IsFiniteSet(0 .. n - 1)
    BY <1>1, FS_Interval
  <2>2. IsFiniteSet(indices)
    BY <1>1, <2>1, FS_Subset
  <2>. QED BY <2>2, FS_CardinalityType
<1>3. /\ H \in Nat /\ k \in 0 .. H /\ c \in Nat
      /\ H * c \in Nat /\ k * c \in Nat /\ (H - k) * c \in Nat
  <2>1. H \in Nat /\ k \in 0 .. H
    BY <1>1, CountsAt
  <2>2. \A a, b \in Nat : a <= b => a * c \in Nat /\ b * c \in Nat /\ (b - a) * c \in Nat
    OBVIOUS
  <2>. QED BY <2>1, <2>2
<1>4. \A i \in indices : /\ ShardBytes(Stored(i)) = H * c
                         /\ LowerBytes(Stored(i)) = k * c
  BY <1>1, CountsAt
<1>5. SumFunction([i \in indices |-> ShardBytes(Stored(i))])
        = q * (H * c)
  <2>. PICK f : f = [i \in indices |-> ShardBytes(Stored(i))]
    OBVIOUS
  <2>1. DOMAIN f = indices /\ \A i \in DOMAIN f : f[i] = H * c
    BY <1>4
  <2>2. SumFunction(f) = q * (H * c)
    BY <1>2, <1>3, <2>1, ConstantSum
  <2>. QED BY <2>2
<1>6. SumFunction([i \in indices |-> LowerBytes(Stored(i))])
        = q * (k * c)
  <2>. PICK f : f = [i \in indices |-> LowerBytes(Stored(i))]
    OBVIOUS
  <2>1. DOMAIN f = indices /\ \A i \in DOMAIN f : f[i] = k * c
    BY <1>4
  <2>2. SumFunction(f) = q * (k * c)
    BY <1>2, <1>3, <2>1, ConstantSum
  <2>. QED BY <2>2
<1>7. UniqueUpper = Uppers
  <2>1. CASE k = H
    <3>1. \A i \in indices : UpperSiblings(Stored(i)) = {}
      BY <1>1, <2>1, CountsAt
    <3>. QED BY <1>3, <2>1, <3>1 DEF UniqueUpper, Uppers
  <2>2. CASE k < H
    <3>1. \A i \in indices : UpperSiblings(Stored(i)) = {UpperOf(i)}
      BY <1>1, <2>2, CountsAt
    <3>. QED BY <2>2, <3>1 DEF UniqueUpper, Uppers
  <2>. QED BY <1>3, <2>1, <2>2
<1>8. SumFunction([siblings \in UniqueUpper |-> Bytes(siblings)])
        = Cardinality(Uppers) * ((H - k) * c)
  <2>. PICK f : f = [siblings \in UniqueUpper |-> Bytes(siblings)]
    OBVIOUS
  <2>1. DOMAIN f = Uppers /\ \A s \in Uppers : f[s] = VecLen(s) * c
    BY <1>7 DEF Bytes
  <2>2. \A i \in indices : VecLen(UpperOf(i)) = H - k
    BY <1>1, CountsAt
  <2>3. \A s \in DOMAIN f : f[s] = (H - k) * c
    BY <2>1, <2>2 DEF Uppers
  <2>4. IsFiniteSet(Uppers)
    <3>1. IsFiniteSet({UpperOf(i) : i \in indices})
      <4>. PICK g : g = [i \in indices |-> UpperOf(i)]
        OBVIOUS
      <4>1. g \in Surjection(indices, {UpperOf(i) : i \in indices})
        BY DEF Surjection
      <4>. QED BY <1>2, <4>1, FS_Surjection
    <3>2. IsFiniteSet({})
      BY FS_EmptySet
    <3>. QED BY <3>1, <3>2 DEF Uppers
  <2>5. SumFunction(f) = Cardinality(DOMAIN f) * ((H - k) * c)
    <3>1. IsFiniteSet(DOMAIN f)
      BY <2>1, <2>4
    <3>. QED BY <1>3, <2>3, <3>1, ConstantSum
  <2>. QED BY <2>1, <2>5
<1>9. Bytes(assistance_by_root[Stored(Min(indices)).expected_root].node_labels)
        = VecLen(Levels(leaves)[k]) * c
  <2>. PICK i : i = Min(indices)
    OBVIOUS
  <2>1. i \in indices
    <3>1. indices \subseteq Nat
      BY <1>1
    <3>. QED BY <3>1, LeastMember
  <2>2. Kept(i)
    BY <1>1, <2>1 DEF KeptInv
  <2>3. assistance_by_root[Stored(i).expected_root]
          = Assistance(leaves, predetermined_level)
    BY <2>2 DEF Kept, Entry
  <2>4. Assistance(leaves, predetermined_level).node_labels = Levels(leaves)[k]
    BY DEF Assistance, ReportLevel
  <2>. QED BY <2>3, <2>4 DEF Bytes
<1>10. tree_depth = H
  BY <1>1, DepthIsHeight, SameDepth DEF tree_depth
<1>. QED BY <1>5, <1>6, <1>8, <1>9, <1>10
       DEF Report, MeasureStoreBytes, Counts

LEMMA CountedAlways == StorageSpec => []CountedInv
<1>1. StorageInit => CountedInv
  BY KeptInit DEF StorageInit, CountedInv
<1>2. CountedInv /\ [StorageNext]_storage_vars => CountedInv'
  <2>. SUFFICES ASSUME CountedInv, [StorageNext]_storage_vars PROVE CountedInv'
    OBVIOUS
  <2>1. KeptInv /\ KeptInv'
    BY KeptNext DEF CountedInv
  <2>2. ASSUME UNCHANGED <<leaves, indices, predetermined_level, report>>,
               Counts(report)
        PROVE  Counts(report)'
    BY <2>2 DEF Counts, ReportLevel, Uppers, UpperOf, SiblingsOf, Shard, Least
  <2>3. CASE RejectEmpty
    BY <2>1, <2>3 DEF RejectEmpty, store, CountedInv, KeptInv
  <2>4. CASE AnchorIndex
    BY <2>1, <2>4 DEF AnchorIndex, CountedInv, KeptInv
  <2>5. CASE Measure
    <3>1. CASE indices = {}
      BY <2>1, <2>5, <3>1 DEF Measure, store, CountedInv, KeptInv
    <3>2. CASE indices # {}
      <4>1. report' = Report /\ status' = "measured" /\ todo = {}
            /\ UNCHANGED <<leaves, indices, predetermined_level>>
        BY <2>5, <3>2 DEF Measure, store
      <4>2. Counts(report')
        BY <2>1, <3>2, <4>1, ReportCounts, SizesAreNatural
      <4>3. Counts(report)'
        BY <4>1, <4>2 DEF Counts, ReportLevel, Uppers, UpperOf, SiblingsOf, Shard, Least
      <4>4. report' # <<>>
        BY <4>1 DEF Report
      <4>. QED BY <2>1, <3>2, <4>1, <4>3, <4>4 DEF CountedInv
    <3>. QED BY <3>1, <3>2
  <2>6. CASE VerifyAll
    BY <2>1, <2>2, <2>6 DEF VerifyAll, store, CountedInv
  <2>7. CASE UNCHANGED storage_vars
    BY <2>1, <2>2, <2>7 DEF storage_vars, store, CountedInv
  <2>. QED BY <2>3, <2>4, <2>5, <2>6, <2>7 DEF StorageNext
<1>. QED BY <1>1, <1>2, PTL DEF StorageSpec

\* The numbers the counts are made of.
LEMMA CountedShape ==
  ASSUME CountedInv, report # <<>>
  PROVE  /\ VecLen(leaves) \in Nat \ {0} /\ DOMAIN leaves = 0 .. VecLen(leaves) - 1
         /\ indices \subseteq 0 .. VecLen(leaves) - 1 /\ IsFiniteSet(indices)
         /\ Cardinality(indices) \in Nat
         /\ predetermined_level \in Nat
         /\ Height(leaves) \in Nat /\ ReportLevel \in 0 .. Height(leaves)
         /\ tree_depth = Height(leaves)
<1>. PICK n : n = VecLen(leaves)
  OBVIOUS
<1>1. /\ n \in Nat /\ DOMAIN leaves = 0 .. n - 1 /\ indices \subseteq 0 .. n - 1
      /\ indices # {} /\ predetermined_level \in Nat
  BY PopulationAssumption DEF CountedInv, KeptInv
<1>2. n \in Nat \ {0}
  <2>1. PICK i : i \in 0 .. n - 1
    BY <1>1
  <2>. QED BY <1>1, <2>1
<1>3. IsFiniteSet(indices)
  <2>1. IsFiniteSet(0 .. n - 1)
    BY <1>1, FS_Interval
  <2>. QED BY <1>1, <2>1, FS_Subset
<1>4. Height(leaves) \in 0 .. n
  BY <1>1, <1>2, HeightShape, ZenonT(40)
<1>5. ReportLevel \in 0 .. Height(leaves)
  BY <1>1, <1>4 DEF ReportLevel, Least
<1>6. tree_depth = Height(leaves)
  BY <1>1, <1>2, DepthIsHeight, SameDepth DEF tree_depth
<1>. QED BY <1>1, <1>2, <1>3, <1>4, <1>5, <1>6, FS_CardinalityType

(***************************************************************************)
(* The baseline by the logarithm is the number of siblings the loops put   *)
(* into the store, for every tree, sample and level, whatever the hash.    *)
(***************************************************************************)
THEOREM BaselinesAlwaysAgree == StorageSpec => []BaselinesAgree
<1>1. CountedInv => BaselinesAgree
  <2>. SUFFICES ASSUME CountedInv, report # <<>>
                PROVE  report.baseline_formula = report.baseline_realised
    BY DEF BaselinesAgree
  <2>. PICK q, H : q = Cardinality(indices) /\ H = Height(leaves)
    OBVIOUS
  <2>1. q \in Nat /\ H \in Nat
    BY CountedShape DEF CountedInv
  <2>2. report.baseline_formula = q * H * HASH_BYTES
        /\ report.baseline_realised = q * (H * HASH_BYTES)
    BY DEF CountedInv, Counts
  <2>3. \A a, b, c \in Nat : a * b * c = a * (b * c)
    OBVIOUS
  <2>. QED BY <2>1, <2>2, <2>3, SizesAreNatural
<1>. QED BY <1>1, CountedAlways, PTL

\* The baseline is a word, for a sample is no more than its population.
LEMMA BaselineFits ==
  ASSUME CountedInv, report # <<>>, HASH_BYTES = 32
  PROVE  (Cardinality(indices) * tree_depth * 32) % (WordMax + 1)
           = Cardinality(indices) * tree_depth * 32
<1>. PICK n, q, H : n = VecLen(leaves) /\ q = Cardinality(indices) /\ H = tree_depth
  OBVIOUS
<1>1. n \in Nat \ {0} /\ DOMAIN leaves = 0 .. n - 1 /\ q \in Nat /\ H \in Nat
  BY CountedShape
<1>2. q <= n
  <2>1. indices \subseteq 0 .. n - 1
    BY CountedShape, <1>1
  <2>2. IsFiniteSet(0 .. n - 1) /\ Cardinality(0 .. n - 1) = n
    BY <1>1, FS_Interval
  <2>. QED BY <2>1, <2>2, FS_Subset
<1>3. leaves \in Tree
  BY DEF CountedInv, KeptInv
<1>4. WordMax \in Nat /\ n * H * 32 <= WordMax
  BY <1>3, BytesFit DEF tree_depth
<1>5. q * H * 32 \in Nat /\ q * H * 32 <= n * H * 32
  <2>1. PICK r \in Nat : n = q + r
    <3>1. n - q \in Nat /\ n = q + (n - q)
      BY <1>1, <1>2
    <3>. QED BY <3>1
  <2>2. \A a, b, d \in Nat : /\ (a + b) * d * 32 = a * d * 32 + b * d * 32
                            /\ a * d * 32 \in Nat /\ b * d * 32 \in Nat
    OBVIOUS
  <2>. QED BY <1>1, <2>1, <2>2
<1>6. \A x, y, z \in Nat : x <= y /\ y <= z => x % (z + 1) = x
  OBVIOUS
<1>7. n * H * 32 \in Nat
  BY <1>1
<1>. QED BY <1>4, <1>5, <1>6, <1>7

(***************************************************************************)
(* The study writes a vector that vaa reproduce accepts exactly when the   *)
(* labels of the level are no more than the siblings they replace.         *)
(***************************************************************************)
THEOREM StorageVectorsReproduce ==
  ASSUME HASH_BYTES = 32
  PROVE  StorageSpec => []StorageVectorReproduces
<1>1. CountedInv => StorageVectorReproduces
  <2>. SUFFICES ASSUME CountedInv, status = "done"
                PROVE  StorageVectorReproduces
    BY DEF StorageVectorReproduces
  <2>. PICK n, q, H, k, labels, formula, minimum :
         /\ n = VecLen(leaves) /\ q = Cardinality(indices) /\ H = Height(leaves)
         /\ k = ReportLevel /\ labels = Shifted(n - 1)[k] + 1
         /\ formula = report.baseline_formula /\ minimum = report.held.minimum_viable
    OBVIOUS
  <2>1. /\ n \in Nat \ {0} /\ DOMAIN leaves = 0 .. n - 1
        /\ q \in Nat /\ H \in Nat /\ k \in 0 .. H
        /\ tree_depth = H
    <3>1. report # <<>>
      BY DEF CountedInv
    <3>. QED BY <3>1, CountedShape
  <2>2. labels \in Nat /\ VecLen(Levels(leaves)[k]) = labels
    <3>1. k \in Nat
      BY <2>1
    <3>2. Shifted(n - 1)[k] \in Nat /\ VecLen(Levels(leaves)[k]) = Shifted(n - 1)[k] + 1
      BY <2>1, <3>1, WidthByShift
    <3>. QED BY <3>2
  <2>3. formula = q * H * 32 /\ minimum = q * (k * 32) + labels * 32
    BY <2>2 DEF CountedInv, Counts
  <2>4. minimum <= formula <=> labels <= q * (H - k)
    <3>1. PICK r \in Nat : H = k + r
      <4>1. H - k \in Nat /\ H = k + (H - k)
        BY <2>1
      <4>. QED BY <4>1
    <3>2. q * H * 32 = q * (k * 32) + (q * r) * 32 /\ q * r \in Nat
          /\ H - k = r /\ q * (k * 32) \in Nat
      <4>1. \A a, b, d \in Nat : a * (b + d) * 32 = a * (b * 32) + (a * d) * 32
                                   /\ a * d \in Nat /\ a * (b * 32) \in Nat
        OBVIOUS
      <4>2. k \in Nat /\ H - k = r
        BY <2>1, <3>1
      <4>. QED BY <2>1, <3>1, <4>1, <4>2
    <3>3. \A x, y, z \in Nat : x + y * 32 <= x + z * 32 <=> y <= z
      OBVIOUS
    <3>. QED BY <2>2, <2>3, <3>2, <3>3
  <2>. PICK vector : vector = StorageVectorOut
    OBVIOUS
  <2>5. /\ vector.n_leaves = {n} /\ vector.q_queries = {q} /\ vector.tree_depth = {H}
        /\ vector.baseline_bytes_formula = {formula}
        /\ vector.minimum_viable_bytes = {minimum}
    BY <2>1 DEF StorageVectorOut, Some
  <2>6. StorageMatches(vector) <=> minimum <= formula
    <3>1. \A x : unwrap({x}) = x
      BY DEF unwrap
    <3>2. /\ unwrap(vector.q_queries) = q
          /\ unwrap(vector.tree_depth) = H
          /\ unwrap(vector.baseline_bytes_formula) = formula
          /\ unwrap(vector.minimum_viable_bytes) = minimum
      BY <2>5, <3>1
    <3>3. /\ None \notin {vector.n_leaves, vector.q_queries, vector.tree_depth,
                                  vector.baseline_bytes_formula}
          /\ vector.minimum_viable_bytes # None
      BY <2>5 DEF None
    <3>4. FullBaseline(vector) = formula
      BY <2>3, <3>2 DEF FullBaseline
    <3>5. formula % (WordMax + 1) = formula
      <4>1. report # <<>>
        BY DEF CountedInv
      <4>. QED BY <2>1, <2>3, <4>1, BaselineFits
    <3>. QED BY <3>2, <3>3, <3>4, <3>5, ZenonT(30) DEF StorageMatches
  <2>7. Least(predetermined_level, tree_depth) = k
    BY <2>1 DEF ReportLevel
  <2>8. StorageMatches(StorageVectorOut) <=> labels <= q * (H - k)
    BY <2>4, <2>6
  <2>9. Shifted(VecLen(leaves) - 1)[Least(predetermined_level, tree_depth)] + 1 = labels
    BY <2>7
  <2>10. Cardinality(indices) * (tree_depth - Least(predetermined_level, tree_depth))
           = q * (H - k)
    BY <2>1, <2>7
  <2>. QED BY <2>8, <2>9, <2>10, Zenon DEF StorageVectorReproduces
<1>. QED BY <1>1, CountedAlways, PTL

-------------------------------------------------------------------------------
(***************************************************************************)
(* With a hash that never collides and leaves that differ, different nodes *)
(* of one level have different siblings, the padding notwithstanding.      *)
(***************************************************************************)
LEMMA NodesDiffer ==
  ASSUME CollisionFree, NEW n \in Nat \ {0}, NEW v, DOMAIN v = 0 .. n - 1,
         \A i, j \in 0 .. n - 1 : v[i] = v[j] => i = j
  PROVE  \A h \in Nat : \A a, b \in 0 .. VecLen(Levels(v)[h]) - 1 :
           Levels(v)[h][a] = Levels(v)[h][b] => a = b
<1>. DEFINE Apart(h) == \A a, b \in 0 .. VecLen(Levels(v)[h]) - 1 :
                          Levels(v)[h][a] = Levels(v)[h][b] => a = b
            S == {h \in Nat : Apart(h)}
<1>1. 0 \in S
  <2>1. Levels(v)[0] = v /\ VecLen(v) = n
    BY LevelsEquations, VecLenOfDomain
  <2>. QED BY <2>1
<1>2. ASSUME NEW h \in Nat, h \in S PROVE h + 1 \in S
  <2>. SUFFICES ASSUME NEW a \in 0 .. VecLen(Levels(v)[h + 1]) - 1,
                       NEW b \in 0 .. VecLen(Levels(v)[h + 1]) - 1,
                       Levels(v)[h + 1][a] = Levels(v)[h + 1][b]
                PROVE  a = b
    OBVIOUS
  <2>. PICK level, padded, w :
         level = Levels(v)[h] /\ padded = Pad(level) /\ w = VecLen(level)
    OBVIOUS
  <2>1. ASSUME NEW i \in 0 .. VecLen(Levels(v)[h + 1]) - 1
        PROVE  /\ Levels(v)[h + 1][i] = HashPair(padded[2 * i], padded[2 * i + 1])
               /\ 2 * i \in 0 .. w - 1
               /\ padded[2 * i] = level[2 * i]
    <3>1. LET pad == Pad(Levels(v)[h])
          IN  /\ Levels(v)[h + 1][i] = HashPair(pad[2 * i], pad[2 * i + 1])
              /\ 2 * i \in 0 .. VecLen(Levels(v)[h]) - 1
              /\ pad[2 * i] = Levels(v)[h][2 * i]
      BY NodeOfPair
    <3>. QED BY <3>1
  <2>2. padded[2 * a] = padded[2 * b]
    BY <2>1 DEF CollisionFree
  <2>3. level[2 * a] = level[2 * b] /\ 2 * a \in 0 .. w - 1 /\ 2 * b \in 0 .. w - 1
    BY <2>1, <2>2
  <2>4. 2 * a = 2 * b
    BY <1>2, <2>3
  <2>5. VecLen(Levels(v)[h + 1]) \in Nat
    BY LevelWidths
  <2>6. a \in Nat /\ b \in Nat
    BY <2>5
  <2>. QED BY <2>4, <2>6
<1>3. \A h \in Nat : h \in S
  <2>. HIDE DEF S
  <2>. QED BY <1>1, <1>2, FoldLoop!SetInduction
<1>. QED BY <1>3

LEMMA SiblingsDiffer ==
  ASSUME NEW w \in Nat \ {0}, NEW level, DOMAIN level = 0 .. w - 1,
         \A a, b \in 0 .. w - 1 : level[a] = level[b] => a = b,
         NEW i \in 0 .. w - 1, NEW j \in 0 .. w - 1,
         Pad(level)[SiblingIndex(i)] = Pad(level)[SiblingIndex(j)]
  PROVE  i = j
<1>1. ASSUME NEW a \in 0 .. w - 1
      PROVE  /\ Clipped(SiblingIndex(a), w) \in 0 .. w - 1
             /\ Pad(level)[SiblingIndex(a)] = level[Clipped(SiblingIndex(a), w)]
  <2>. PICK s : s = SiblingIndex(a)
    OBVIOUS
  <2>1. s \in 0 .. w + (w % 2) - 1
    BY DEF SiblingIndex
  <2>2. Pad(level)[s] = IF s < w THEN level[s] ELSE level[w - 1]
    <3>1. VecLen(level) = w
      BY VecLenOfDomain
    <3>. QED BY <2>1, <3>1 DEF Pad
  <2>. QED BY <2>1, <2>2 DEF Clipped
<1>2. Clipped(SiblingIndex(i), w) = Clipped(SiblingIndex(j), w)
  BY <1>1
<1>3. CASE i % 2 = 0 /\ j % 2 = 0
  BY <1>2, <1>3 DEF Clipped, SiblingIndex
<1>4. CASE i % 2 # 0 /\ j % 2 # 0
  BY <1>2, <1>4 DEF Clipped, SiblingIndex
<1>5. CASE i % 2 = 0 /\ j % 2 # 0
  BY <1>2, <1>5 DEF Clipped, SiblingIndex
<1>6. CASE i % 2 # 0 /\ j % 2 = 0
  BY <1>2, <1>6 DEF Clipped, SiblingIndex
<1>. QED BY <1>3, <1>4, <1>5, <1>6

\* The siblings from level k to the root.
LEMMA UpperShape ==
  ASSUME NEW v, NEW H \in Nat, H = Height(v), NEW k \in Nat, k <= H, NEW x,
         NEW u, u = Shard(SiblingsOf(v, x), k, H).siblings
  PROVE  /\ IsVec(u, H - k)
         /\ \A e \in 0 .. H - k - 1 :
              u[e] = Pad(Levels(v)[k + e])[SiblingIndex(Shifted(x)[k + e])]
<1>. DEFINE s == SiblingsOf(v, x)
<1>1. /\ IsVec(Shard(s, k, H).siblings, H - k)
      /\ \A e \in 0 .. H - k - 1 : Shard(s, k, H).siblings[e] = s[k + e]
  <2>. HIDE DEF s
  <2>. QED BY ShardShape
<1>2. \A e \in 0 .. H - k - 1 :
        s[k + e] = Pad(Levels(v)[k + e])[SiblingIndex(Shifted(x)[k + e])]
  <2>1. \A e \in 0 .. H - k - 1 : k + e \in 0 .. H - 1
    OBVIOUS
  <2>. QED BY <2>1 DEF SiblingsOf
<1>. HIDE DEF s
<1>. QED BY <1>1, <1>2 DEF s

LEMMA UppersOfTree ==
  ASSUME CollisionFree, NEW n \in Nat \ {0}, NEW v, DOMAIN v = 0 .. n - 1,
         \A i, j \in 0 .. n - 1 : v[i] = v[j] => i = j,
         NEW H \in Nat, H = Height(v), NEW k \in Nat, k < H,
         NEW i \in 0 .. n - 1, NEW j \in 0 .. n - 1
  PROVE  Shard(SiblingsOf(v, i), k, H).siblings = Shard(SiblingsOf(v, j), k, H).siblings
           <=> Shifted(i)[k] = Shifted(j)[k]
<1>. DEFINE u == Shard(SiblingsOf(v, i), k, H).siblings
            t == Shard(SiblingsOf(v, j), k, H).siblings
<1>1. /\ IsVec(u, H - k)
      /\ \A e \in 0 .. H - k - 1 :
           u[e] = Pad(Levels(v)[k + e])[SiblingIndex(Shifted(i)[k + e])]
  BY UpperShape
<1>2. /\ IsVec(t, H - k)
      /\ \A e \in 0 .. H - k - 1 :
           t[e] = Pad(Levels(v)[k + e])[SiblingIndex(Shifted(j)[k + e])]
  BY UpperShape
<1>. HIDE DEF u, t
<1>3. ASSUME u = t PROVE Shifted(i)[k] = Shifted(j)[k]
  <2>. DEFINE level == Levels(v)[k]
              w == VecLen(level)
              a == Shifted(i)[k]
              b == Shifted(j)[k]
  <2>1. w \in Nat \ {0} /\ DOMAIN level = 0 .. w - 1
    BY LevelShape, ZenonT(30)
  <2>2. a \in 0 .. w - 1 /\ b \in 0 .. w - 1
    BY ShiftedInLevel
  <2>3. \A x, y \in 0 .. w - 1 : level[x] = level[y] => x = y
    BY NodesDiffer
  <2>4. Pad(level)[SiblingIndex(a)] = Pad(level)[SiblingIndex(b)]
    <3>1. 0 \in 0 .. H - k - 1 /\ k + 0 = k
      OBVIOUS
    <3>2. u[0] = Pad(Levels(v)[k + 0])[SiblingIndex(Shifted(i)[k + 0])]
      BY <1>1, <3>1
    <3>3. t[0] = Pad(Levels(v)[k + 0])[SiblingIndex(Shifted(j)[k + 0])]
      BY <1>2, <3>1
    <3>. QED BY <1>3, <3>1, <3>2, <3>3
  <2>. HIDE DEF level, w, a, b
  <2>5. a = b
    BY <2>1, <2>2, <2>3, <2>4, SiblingsDiffer
  <2>. QED BY <2>5 DEF a, b
<1>4. ASSUME Shifted(i)[k] = Shifted(j)[k] PROVE u = t
  <2>1. ASSUME NEW e \in 0 .. H - k - 1 PROVE u[e] = t[e]
    <3>1. e \in Nat
      OBVIOUS
    <3>2. Shifted(i)[k + e] = Shifted(j)[k + e]
      <4>1. Shifted(Shifted(i)[k])[e] = Shifted(i)[k + e]
        BY <3>1, ShiftedCompose
      <4>2. Shifted(Shifted(j)[k])[e] = Shifted(j)[k + e]
        BY <3>1, ShiftedCompose
      <4>. QED BY <1>4, <4>1, <4>2
    <3>. QED BY <1>1, <1>2, <3>2
  <2>2. H - k \in Nat
    OBVIOUS
  <2>. QED BY <1>1, <1>2, <2>1, <2>2, VecExtensional
<1>. QED BY <1>3, <1>4 DEF u, t

\* Two positions share their siblings above the level exactly when they are
\* below one node of it.
LEMMA UppersMeet ==
  ASSUME CollisionFree, CountedInv, report # <<>>,
         ReportLevel < Height(leaves)
  PROVE  \A i, j \in indices :
           UpperOf(i) = UpperOf(j) <=> Shifted(i)[ReportLevel] = Shifted(j)[ReportLevel]
<1>1. /\ VecLen(leaves) \in Nat \ {0} /\ DOMAIN leaves = 0 .. VecLen(leaves) - 1
      /\ indices \subseteq 0 .. VecLen(leaves) - 1
      /\ Height(leaves) \in Nat /\ ReportLevel \in Nat
  BY CountedShape
<1>2. \A a, b \in 0 .. VecLen(leaves) - 1 : leaves[a] = leaves[b] => a = b
  BY <1>1, PopulationAssumption DEF CountedInv, KeptInv
<1>. SUFFICES ASSUME NEW i \in indices, NEW j \in indices
              PROVE  UpperOf(i) = UpperOf(j)
                       <=> Shifted(i)[ReportLevel] = Shifted(j)[ReportLevel]
  OBVIOUS
<1>3. i \in 0 .. VecLen(leaves) - 1 /\ j \in 0 .. VecLen(leaves) - 1
  BY <1>1
<1>4. ReportLevel < Height(leaves)
  OBVIOUS
<1>5. Shard(SiblingsOf(leaves, i), ReportLevel, Height(leaves)).siblings
        = Shard(SiblingsOf(leaves, j), ReportLevel, Height(leaves)).siblings
        <=> Shifted(i)[ReportLevel] = Shifted(j)[ReportLevel]
  BY <1>1, <1>2, <1>3, <1>4, UppersOfTree
<1>. QED BY <1>5 DEF UpperOf

(***************************************************************************)
(* Sharing the upper shards by content shares them exactly between the     *)
(* positions below one node of the predetermined level.                    *)
(***************************************************************************)
THEOREM DedupAlwaysCountsSubtrees ==
  ASSUME CollisionFree
  PROVE  StorageSpec => []DedupCountsSubtrees
<1>1. CountedInv => DedupCountsSubtrees
  <2>. SUFFICES ASSUME CountedInv, report # <<>>
                PROVE  DedupCountsSubtrees
    BY DEF DedupCountsSubtrees
  <2>. PICK q, H, k, c, labels, subtrees :
         /\ q = Cardinality(indices) /\ H = Height(leaves) /\ k = ReportLevel
         /\ c = HASH_BYTES /\ labels = VecLen(Levels(leaves)[k])
         /\ subtrees = {Shifted(i)[k] : i \in indices}
    OBVIOUS
  <2>1. /\ q \in Nat /\ H \in Nat /\ k \in 0 .. H /\ IsFiniteSet(indices)
        /\ VecLen(leaves) \in Nat \ {0} /\ DOMAIN leaves = 0 .. VecLen(leaves) - 1
        /\ tree_depth = H /\ c \in Nat
    BY CountedShape, SizesAreNatural
  <2>2. labels \in Nat
    <3>1. k \in Nat
      BY <2>1
    <3>. QED BY <2>1, <3>1, LevelWidths
  <2>3. IsFiniteSet(subtrees)
    <3>. PICK g : g = [i \in indices |-> Shifted(i)[k]]
      OBVIOUS
    <3>1. g \in Surjection(indices, subtrees)
      BY DEF Surjection
    <3>. QED BY <2>1, <3>1, FS_Surjection
  <2>4. k < H => Cardinality(Uppers) = Cardinality(subtrees)
    <3>. SUFFICES ASSUME k < H PROVE Cardinality(Uppers) = Cardinality(subtrees)
      OBVIOUS
    <3>. DEFINE at(a) == CHOOSE i \in indices : Shifted(i)[k] = a
    <3>. PICK f : f = [a \in subtrees |-> UpperOf(at(a))]
      OBVIOUS
    <3>1. \A i, j \in indices : UpperOf(i) = UpperOf(j) <=> Shifted(i)[k] = Shifted(j)[k]
      BY UppersMeet
    <3>2. \A a \in subtrees : at(a) \in indices /\ Shifted(at(a))[k] = a
      OBVIOUS
    <3>3. Uppers = {UpperOf(i) : i \in indices}
      BY DEF Uppers
    <3>4. DOMAIN f = subtrees /\ \A a \in subtrees : f[a] = UpperOf(at(a))
      OBVIOUS
    <3>. HIDE DEF at
    <3>5. f \in [subtrees -> Uppers]
      BY <3>2, <3>3, <3>4
    <3>6. \A a, b \in subtrees : f[a] = f[b] => a = b
      BY <3>1, <3>2, <3>4
    <3>7. \A u \in Uppers : \E a \in subtrees : f[a] = u
      <4>. SUFFICES ASSUME NEW i \in indices
                    PROVE  \E a \in subtrees : f[a] = UpperOf(i)
        BY <3>3
      <4>1. Shifted(i)[k] \in subtrees
        OBVIOUS
      <4>2. f[Shifted(i)[k]] = UpperOf(i)
        BY <3>1, <3>2, <3>4, <4>1
      <4>. QED BY <4>1, <4>2
    <3>8. f \in Bijection(subtrees, Uppers)
      BY <3>5, <3>6, <3>7 DEF Bijection, Injection, IsInjective, Surjection
    <3>9. ExistsBijection(subtrees, Uppers)
      BY <3>8 DEF ExistsBijection
    <3>. QED BY <2>3, <3>9, FS_Bijection
  <2>. PICK u, t : u = Cardinality(Uppers) /\ t = Cardinality(subtrees)
    OBVIOUS
  <2>5. u * ((H - k) * c) = t * (H - k) * c /\ t * (H - k) * c \in Nat
    <3>1. t \in Nat
      BY <2>3, FS_CardinalityType
    <3>2. CASE k = H
      <4>1. Uppers = {}
        BY <2>1, <3>2 DEF Uppers
      <4>2. u = 0 /\ H - k = 0
        BY <2>1, <3>2, <4>1, FS_EmptySet
      <4>3. 0 * (0 * c) = 0 /\ t * 0 = 0 /\ 0 * c = 0
        BY <2>1, <3>1
      <4>. QED BY <4>2, <4>3
    <3>3. CASE k < H
      <4>1. u = t
        BY <2>4, <3>3
      <4>2. \A x, y, z \in Nat : x * (y * z) = x * y * z /\ x * y * z \in Nat
        OBVIOUS
      <4>3. H - k \in Nat /\ c \in Nat
        BY <2>1
      <4>4. t * ((H - k) * c) = t * (H - k) * c /\ t * (H - k) * c \in Nat
        BY <3>1, <4>2, <4>3
      <4>. QED BY <4>1, <4>4
    <3>. QED BY <2>1, <3>2, <3>3
  <2>6. report.held.upper_dedup - report.held.minimum_viable = t * (H - k) * c
    <3>1. /\ report.held.minimum_viable = q * (k * c) + labels * c
          /\ report.held.upper_dedup = q * (k * c) + u * ((H - k) * c) + labels * c
      BY DEF CountedInv, Counts
    <3>2. q * (k * c) \in Nat /\ labels * c \in Nat
      <4>1. \A x, y, z \in Nat : x * (y * z) \in Nat /\ x * z \in Nat
        OBVIOUS
      <4>2. k \in Nat
        BY <2>1
      <4>. QED BY <2>1, <2>2, <4>1, <4>2
    <3>3. \A x, y, z \in Nat : (x + y + z) - (x + z) = y
      OBVIOUS
    <3>. QED BY <2>5, <3>1, <3>2, <3>3
  <2>7. Least(predetermined_level, tree_depth) = k
    BY <2>1 DEF ReportLevel
  <2>8. Cardinality({Shifted(i)[Least(predetermined_level, tree_depth)] : i \in indices})
          = t
    BY <2>7
  <2>9. tree_depth - Least(predetermined_level, tree_depth) = H - k
    BY <2>1, <2>7
  <2>. QED BY <2>6, <2>8, <2>9, Zenon DEF DedupCountsSubtrees
<1>. QED BY <1>1, CountedAlways, PTL
===============================================================================
