--------------------------- MODULE AccountingProofs ---------------------------
(***************************************************************************)
(* The verdict on a disclosed statement is exact for every word width and  *)
(* every length of its lists.                                              *)
(***************************************************************************)
EXTENDS Accounting, TLAPS

CheckedStep(items, j, x) == CheckedAdd(x, items[j + 1])
SumStep(items, j, x) == x + items[j + 1]

CheckedLoop == INSTANCE Iteration WITH Step <- CheckedStep
SumLoop == INSTANCE Iteration WITH Step <- SumStep

\* The loop of checked additions, item by item.
LEMMA CheckedSumsEquations ==
  ASSUME NEW items
  PROVE  /\ CheckedSums(items)[0] = 0
         /\ \A n \in Nat : CheckedSums(items)[n + 1]
                             = CheckedAdd(CheckedSums(items)[n], items[n + 1])
<1>. DEFINE C == CheckedLoop!Iterates(items, 0)
<1>1. CheckedSums(items) = C
  BY DEF CheckedSums, CheckedLoop!Iterates, CheckedStep
<1>2. C[0] = 0 /\ \A n \in Nat : C[n + 1] = CheckedStep(items, n, C[n])
  BY CheckedLoop!IterationEquations
<1>. HIDE DEF C
<1>. QED BY <1>1, <1>2 DEF CheckedStep

\* The sum over the integers, item by item.
LEMMA SumsEquations ==
  ASSUME NEW items
  PROVE  /\ Sums(items)[0] = 0
         /\ \A n \in Nat : Sums(items)[n + 1] = Sums(items)[n] + items[n + 1]
<1>. DEFINE C == SumLoop!Iterates(items, 0)
<1>1. Sums(items) = C
  BY DEF Sums, SumLoop!Iterates, SumStep
<1>2. C[0] = 0 /\ \A n \in Nat : C[n + 1] = SumStep(items, n, C[n])
  BY SumLoop!IterationEquations
<1>. HIDE DEF C
<1>. QED BY <1>1, <1>2 DEF SumStep

(***************************************************************************)
(* A checked sum is the exact sum when that fits in a word, and Overflow   *)
(* when it does not: no later item can bring a sum back into a word.       *)
(***************************************************************************)
LEMMA CheckedSumIsExact ==
  ASSUME NEW items \in Seq(Nat)
  PROVE  /\ Sum(items) \in Nat
         /\ CheckedSum(items) = IF Sum(items) <= WordMax THEN Sum(items)
                                ELSE Overflow
<1>. DEFINE T == Sums(items)
            C == CheckedSums(items)
            Exact(n) == /\ T[n] \in Nat
                        /\ C[n] = IF T[n] <= WordMax THEN T[n] ELSE Overflow
            S == {n \in Nat : n <= Len(items) => Exact(n)}
<1>1. /\ T[0] = 0 /\ \A n \in Nat : T[n + 1] = T[n] + items[n + 1]
      /\ C[0] = 0 /\ \A n \in Nat : C[n + 1] = CheckedAdd(C[n], items[n + 1])
  BY CheckedSumsEquations, SumsEquations
<1>. HIDE DEF T, C
<1>2. 0 \in S
  <2>1. T[0] = 0 /\ C[0] = 0
    BY <1>1
  <2>2. Exact(0)
    BY <2>1, WordMaxAssumption
  <2>. QED BY <2>2
<1>3. \A n \in Nat : n \in S => n + 1 \in S
  <2>. SUFFICES ASSUME NEW n \in Nat, n + 1 <= Len(items), Exact(n)
                PROVE  Exact(n + 1)
    OBVIOUS
  <2>1. items[n + 1] \in Nat
    OBVIOUS
  <2>2. T[n + 1] = T[n] + items[n + 1] /\ T[n + 1] \in Nat
    <3>1. T[n] \in Nat
      OBVIOUS
    <3>2. T[n + 1] = T[n] + items[n + 1]
      BY <1>1
    <3>. QED BY <2>1, <3>1, <3>2
  <2>3. C[n + 1] = CheckedAdd(C[n], items[n + 1])
    BY <1>1
  <2>4. C[n + 1] = IF T[n + 1] <= WordMax THEN T[n + 1] ELSE Overflow
    BY <2>1, <2>2, <2>3, WordMaxAssumption DEF CheckedAdd, Overflow
  <2>. QED BY <2>2, <2>4
<1>4. \A n \in Nat : n \in S
  <2>. HIDE DEF S
  <2>. QED BY <1>2, <1>3, SumLoop!SetInduction
<1>5. Len(items) \in Nat /\ Exact(Len(items))
  BY <1>4
<1>. QED BY <1>5 DEF Sum, CheckedSum, T, C

\* The tally is the comparison of the exact sums, unless one exceeds a word.
LEMMA TallyIsExact ==
  ASSUME NEW lhs \in Seq(Nat), NEW rhs \in Seq(Nat)
  PROVE  Tally(lhs, rhs) =
           IF Sum(lhs) > WordMax \/ Sum(rhs) > WordMax THEN "Overflow"
           ELSE IF Sum(lhs) = Sum(rhs) THEN "Ok" ELSE "EquationDoesNotHold"
<1>1. /\ Sum(lhs) \in Nat /\ Sum(rhs) \in Nat
      /\ CheckedSum(lhs) = IF Sum(lhs) <= WordMax THEN Sum(lhs) ELSE Overflow
      /\ CheckedSum(rhs) = IF Sum(rhs) <= WordMax THEN Sum(rhs) ELSE Overflow
  BY CheckedSumIsExact
<1>. QED BY <1>1, WordMaxAssumption DEF Tally, Overflow

\* The sums of the short lists of the tallies.
LEMMA ShortSums ==
  /\ \A a \in Nat : Sum(<<a>>) = a
  /\ \A a, b \in Nat : Sum(<<a, b>>) = a + b
  /\ \A a, b, c, d \in Nat : Sum(<<a, b, c, d>>) = a + b + c + d
<1>1. ASSUME NEW a \in Nat PROVE Sum(<<a>>) = a
  <2>1. Sums(<<a>>)[0] = 0 /\ Sums(<<a>>)[0 + 1] = Sums(<<a>>)[0] + <<a>>[0 + 1]
    BY SumsEquations
  <2>. QED BY <2>1 DEF Sum
<1>2. ASSUME NEW a \in Nat, NEW b \in Nat PROVE Sum(<<a, b>>) = a + b
  <2>. DEFINE T == Sums(<<a, b>>)
  <2>1. /\ T[0] = 0 /\ T[0 + 1] = T[0] + <<a, b>>[0 + 1]
        /\ T[1 + 1] = T[1] + <<a, b>>[1 + 1]
    BY SumsEquations
  <2>. HIDE DEF T
  <2>2. T[2] = a + b
    BY <2>1
  <2>. QED BY <2>2 DEF Sum, T
<1>3. ASSUME NEW a \in Nat, NEW b \in Nat, NEW c \in Nat, NEW d \in Nat
      PROVE  Sum(<<a, b, c, d>>) = a + b + c + d
  <2>. DEFINE l == <<a, b, c, d>>
              T == Sums(l)
  <2>1. /\ T[0] = 0 /\ T[0 + 1] = T[0] + l[0 + 1] /\ T[1 + 1] = T[1] + l[1 + 1]
        /\ T[2 + 1] = T[2] + l[2 + 1] /\ T[3 + 1] = T[3] + l[3 + 1]
    BY SumsEquations
  <2>. HIDE DEF T
  <2>2. T[4] = a + b + c + d
    BY <2>1
  <2>. QED BY <2>2 DEF Sum, T
<1>. QED BY <1>1, <1>2, <1>3

\* Putting the book cash before the reconciling items adds it to their sum.
LEMMA SumOfCons ==
  ASSUME NEW a \in Nat, NEW items \in Seq(Nat)
  PROVE  /\ <<a>> \o items \in Seq(Nat)
         /\ Sum(<<a>> \o items) = a + Sum(items)
<1>. DEFINE l == <<a>> \o items
            T == Sums(items)
            U == Sums(l)
            S == {n \in Nat : n <= Len(items) =>
                                T[n] \in Nat /\ U[n + 1] = a + T[n]}
<1>1. /\ l \in Seq(Nat) /\ Len(l) = Len(items) + 1 /\ l[1] = a
      /\ \A n \in 1 .. Len(items) : l[n + 1] = items[n]
  OBVIOUS
<1>2. /\ T[0] = 0 /\ \A n \in Nat : T[n + 1] = T[n] + items[n + 1]
      /\ U[0] = 0 /\ \A n \in Nat : U[n + 1] = U[n] + l[n + 1]
  BY SumsEquations
<1>. HIDE DEF T, U, l
<1>3. 0 \in S
  <2>1. U[0 + 1] = U[0] + l[0 + 1]
    BY <1>2
  <2>2. U[0] = 0 /\ T[0] = 0
    BY <1>2
  <2>3. T[0] \in Nat /\ U[0 + 1] = a + T[0]
    BY <1>1, <2>1, <2>2
  <2>. QED BY <2>3
<1>4. \A n \in Nat : n \in S => n + 1 \in S
  <2>. SUFFICES ASSUME NEW n \in Nat, n + 1 <= Len(items),
                       T[n] \in Nat, U[n + 1] = a + T[n]
                PROVE  T[n + 1] \in Nat /\ U[(n + 1) + 1] = a + T[n + 1]
    OBVIOUS
  <2>1. items[n + 1] \in Nat /\ l[(n + 1) + 1] = items[n + 1]
    <3>1. n + 1 \in 1 .. Len(items)
      OBVIOUS
    <3>2. items[n + 1] \in Nat
      BY <3>1
    <3>3. l[(n + 1) + 1] = items[n + 1]
      BY <1>1, <3>1
    <3>. QED BY <3>2, <3>3
  <2>2. T[n + 1] = T[n] + items[n + 1] /\ U[(n + 1) + 1] = U[n + 1] + l[(n + 1) + 1]
    BY <1>2
  <2>. QED BY <2>1, <2>2
<1>5. \A n \in Nat : n \in S
  <2>. HIDE DEF S
  <2>. QED BY <1>3, <1>4, SumLoop!SetInduction
<1>6. Len(items) \in Nat /\ U[Len(items) + 1] = a + T[Len(items)]
  BY <1>5
<1>. QED BY <1>1, <1>6 DEF Sum, T, U, l

-------------------------------------------------------------------------------
(***************************************************************************)
(* The five equations.                                                     *)
(***************************************************************************)
\* A disclosed list is a sequence of words.
LEMMA ListsAreSequences ==
  ASSUME NEW l \in Lists
  PROVE  l \in Seq(Nat)
<1>1. PICK n \in 0 .. MaxItems : l \in [1 .. n -> Word]
  BY DEF Lists
<1>2. n \in Nat /\ \A i \in 1 .. n : l[i] \in Nat
  BY <1>1, WordMaxAssumption, MaxItemsAssumption DEF Word
<1>. QED BY <1>1, <1>2

\* The two sides of the tally are equal sums exactly when the documented
\* equation, with its subtractions, holds over the integers.
LEMMA SidesSayHolds ==
  ASSUME NEW s \in Statements
  PROVE  /\ LeftSide(s) \in Seq(Nat) /\ RightSide(s) \in Seq(Nat)
         /\ Sum(LeftSide(s)) = Sum(RightSide(s)) <=> Holds(s)
<1>0. Word \subseteq Nat
  BY WordMaxAssumption DEF Word
<1>1. CASE s \in InvoiceTotal
  <2>1. /\ s.equation = "InvoiceTotal"
        /\ s.net \in Nat /\ s.tax \in Nat /\ s.discount \in Nat /\ s.gross \in Nat
    BY <1>0, <1>1 DEF InvoiceTotal
  <2>2. LeftSide(s) = <<s.net, s.tax>> /\ RightSide(s) = <<s.gross, s.discount>>
    BY <2>1 DEF LeftSide, RightSide
  <2>3. Sum(LeftSide(s)) = s.net + s.tax /\ Sum(RightSide(s)) = s.gross + s.discount
    BY <2>1, <2>2, ShortSums
  <2>4. Holds(s) <=> s.gross = s.net + s.tax - s.discount
    BY <2>1 DEF Holds
  <2>. QED BY <2>1, <2>2, <2>3, <2>4
<1>2. CASE s \in ArRollForward
  <2>1. /\ s.equation = "ArRollForward"
        /\ s.ar_open \in Nat /\ s.invoices \in Nat /\ s.ar_close \in Nat
        /\ s.receipts \in Nat /\ s.credit_notes \in Nat /\ s.write_offs \in Nat
    BY <1>0, <1>2 DEF ArRollForward
  <2>2. /\ LeftSide(s) = <<s.ar_open, s.invoices>>
        /\ RightSide(s) = <<s.ar_close, s.receipts, s.credit_notes, s.write_offs>>
    BY <2>1 DEF LeftSide, RightSide
  <2>3. /\ Sum(LeftSide(s)) = s.ar_open + s.invoices
        /\ Sum(RightSide(s)) = s.ar_close + s.receipts + s.credit_notes + s.write_offs
    <3>1. Sum(LeftSide(s)) = s.ar_open + s.invoices
      BY <2>1, <2>2, ShortSums
    <3>2. Sum(RightSide(s)) = s.ar_close + s.receipts + s.credit_notes + s.write_offs
      BY <2>1, <2>2, ShortSums
    <3>. QED BY <3>1, <3>2
  <2>4. Holds(s) <=> s.ar_close = s.ar_open + s.invoices - s.receipts
                                  - s.credit_notes - s.write_offs
    BY <2>1 DEF Holds
  <2>5. Sum(LeftSide(s)) = Sum(RightSide(s)) <=> Holds(s)
    BY <2>1, <2>3, <2>4
  <2>6. LeftSide(s) \in Seq(Nat) /\ RightSide(s) \in Seq(Nat)
    BY <2>1, <2>2
  <2>. QED BY <2>5, <2>6
<1>3. CASE s \in DebitsCredits
  <2>1. s.equation = "DebitsCredits" /\ s.debits \in Lists /\ s.credits \in Lists
    BY <1>3 DEF DebitsCredits
  <2>2. s.debits \in Seq(Nat) /\ s.credits \in Seq(Nat)
    BY <2>1, ListsAreSequences
  <2>3. LeftSide(s) = s.debits /\ RightSide(s) = s.credits
    BY <2>1 DEF LeftSide, RightSide
  <2>4. Holds(s) <=> Sum(s.debits) = Sum(s.credits)
    BY <2>1 DEF Holds
  <2>. QED BY <2>2, <2>3, <2>4
<1>4. CASE s \in BankReconciliation
  <2>1. /\ s.equation = "BankReconciliation" /\ s.reconciling_items \in Lists
        /\ s.book_cash \in Nat /\ s.bank_balance \in Nat
    BY <1>0, <1>4 DEF BankReconciliation
  <2>2. s.reconciling_items \in Seq(Nat)
    BY <2>1, ListsAreSequences
  <2>3. /\ LeftSide(s) = <<s.book_cash>> \o s.reconciling_items
        /\ RightSide(s) = <<s.bank_balance>>
    BY <2>1 DEF LeftSide, RightSide
  <2>4. /\ LeftSide(s) \in Seq(Nat)
        /\ Sum(LeftSide(s)) = s.book_cash + Sum(s.reconciling_items)
    BY <2>1, <2>2, <2>3, SumOfCons
  <2>5. RightSide(s) \in Seq(Nat) /\ Sum(RightSide(s)) = s.bank_balance
    BY <2>1, <2>3, ShortSums
  <2>6. Holds(s) <=> s.book_cash + Sum(s.reconciling_items) = s.bank_balance
    BY <2>1 DEF Holds
  <2>. QED BY <2>4, <2>5, <2>6
<1>5. CASE s \in VatPayable
  <2>1. /\ s.equation = "VatPayable"
        /\ s.output_vat \in Nat /\ s.input_vat \in Nat /\ s.vat_payable \in Nat
    BY <1>0, <1>5 DEF VatPayable
  <2>2. /\ LeftSide(s) = <<s.output_vat>>
        /\ RightSide(s) = <<s.vat_payable, s.input_vat>>
    BY <2>1 DEF LeftSide, RightSide
  <2>3. /\ Sum(LeftSide(s)) = s.output_vat
        /\ Sum(RightSide(s)) = s.vat_payable + s.input_vat
    BY <2>1, <2>2, ShortSums
  <2>4. Holds(s) <=> s.vat_payable = s.output_vat - s.input_vat
    BY <2>1 DEF Holds
  <2>. QED BY <2>1, <2>2, <2>3, <2>4
<1>. QED BY <1>1, <1>2, <1>3, <1>4, <1>5 DEF Statements

\* The verdict is Overflow when a side exceeds a word, and otherwise says
\* whether the documented equation holds.
LEMMA VerdictOfStatement ==
  ASSUME NEW s \in Statements
  PROVE  Verdict(s) =
           IF Sum(LeftSide(s)) > WordMax \/ Sum(RightSide(s)) > WordMax
             THEN "Overflow"
           ELSE IF Holds(s) THEN "Ok" ELSE "EquationDoesNotHold"
<1>. DEFINE lhs == LeftSide(s)
            rhs == RightSide(s)
            H == Holds(s)
<1>1. lhs \in Seq(Nat) /\ rhs \in Seq(Nat) /\ (Sum(lhs) = Sum(rhs) <=> H)
  BY SidesSayHolds
<1>2. Verdict(s) = Tally(lhs, rhs)
  BY DEF Verdict
<1>. HIDE DEF lhs, rhs, H
<1>3. Tally(lhs, rhs) = IF Sum(lhs) > WordMax \/ Sum(rhs) > WordMax THEN "Overflow"
                        ELSE IF Sum(lhs) = Sum(rhs) THEN "Ok"
                        ELSE "EquationDoesNotHold"
  BY <1>1, TallyIsExact
<1>. QED BY <1>1, <1>2, <1>3 DEF lhs, rhs, H

-------------------------------------------------------------------------------
(***************************************************************************)
(* The inductive invariant: the result, once there, is the verdict of the  *)
(* statement disclosed.                                                    *)
(***************************************************************************)
IInv ==
  /\ disclosed \in Statements
  /\ result \in {"none", Verdict(disclosed)}

\* The invariant holds in every state of the specification.
LEMMA Invariance == Spec => []IInv
<1>1. Init => IInv
  BY DEF Init, IInv
<1>2. IInv /\ [Verify]_vars => IInv'
  <2>. SUFFICES ASSUME IInv, [Verify]_vars PROVE IInv'
    OBVIOUS
  <2>1. CASE Verify
    BY <2>1 DEF Verify, IInv
  <2>2. CASE UNCHANGED vars
    BY <2>2 DEF vars, IInv
  <2>. QED BY <2>1, <2>2
<1>. QED BY <1>1, <1>2, PTL DEF Spec

(***************************************************************************)
(* For every word width and lists of every length: "Ok" means that the     *)
(* documented equation holds over the integers, "EquationDoesNotHold" that *)
(* it does not, and "Overflow" exactly that a side exceeds a word.         *)
(***************************************************************************)
THEOREM VerdictExact == Spec => []VerdictIsExact
<1>1. IInv => VerdictIsExact
  <2>. SUFFICES ASSUME IInv, result # "none" PROVE VerdictIsExact
    BY DEF VerdictIsExact
  <2>. DEFINE H == Holds(disclosed)
              Exceeds == \/ Sum(LeftSide(disclosed)) > WordMax
                         \/ Sum(RightSide(disclosed)) > WordMax
  <2>1. result = IF Exceeds THEN "Overflow"
                 ELSE IF H THEN "Ok" ELSE "EquationDoesNotHold"
    BY VerdictOfStatement DEF IInv
  <2>. HIDE DEF H, Exceeds
  <2>2. /\ result = "Ok" => H
        /\ result = "EquationDoesNotHold" => ~ H
        /\ result = "Overflow" <=> result # "none" /\ Exceeds
    BY <2>1
  <2>. QED BY <2>2 DEF VerdictIsExact, H, Exceeds
<1>. QED BY <1>1, Invariance, PTL

-------------------------------------------------------------------------------
(***************************************************************************)
(* Periods.  Two roll-forwards that verify, the second opening with the    *)
(* closing balance of the first, never fail the equation when they are     *)
(* taken as one period, for every word width.                              *)
(***************************************************************************)
THEOREM PeriodsAlwaysCompose == Spec => []PeriodsCompose
<1>1. IInv => PeriodsCompose
  <2>. SUFFICES ASSUME IInv, disclosed.equation = "ArRollForward", result = "Ok",
                       NEW t \in ArRollForward,
                       t.ar_open = disclosed.ar_close, Verdict(t) = "Ok"
                PROVE  Verdict(Joined(disclosed, t)) # "EquationDoesNotHold"
    BY DEF PeriodsCompose
  <2>. DEFINE s == disclosed
              j == Joined(s, t)
              lhs == <<s.ar_open, s.invoices + t.invoices>>
              rhs == <<t.ar_close, s.receipts + t.receipts,
                       s.credit_notes + t.credit_notes, s.write_offs + t.write_offs>>
  <2>1. s \in ArRollForward /\ t \in Statements /\ s \in Statements
    BY DEF IInv, Statements, InvoiceTotal, ArRollForward, DebitsCredits,
           BankReconciliation, VatPayable
  <2>2. \A x \in ArRollForward :
          /\ x.equation = "ArRollForward"
          /\ x.ar_open \in Nat /\ x.invoices \in Nat /\ x.ar_close \in Nat
          /\ x.receipts \in Nat /\ x.credit_notes \in Nat /\ x.write_offs \in Nat
    BY WordMaxAssumption DEF ArRollForward, Word
  <2>3. Holds(s) /\ Holds(t)
    <3>1. Verdict(s) = "Ok"
      BY DEF IInv
    <3>. QED BY <2>1, <3>1, VerdictOfStatement
  <2>4. /\ s.ar_close = s.ar_open + s.invoices - s.receipts - s.credit_notes
                        - s.write_offs
        /\ t.ar_close = s.ar_close + t.invoices - t.receipts - t.credit_notes
                        - t.write_offs
    BY <2>1, <2>2, <2>3 DEF Holds
  <2>5. Verdict(j) = Tally(lhs, rhs)
    <3>1. /\ j.equation = "ArRollForward" /\ j.ar_open = s.ar_open
          /\ j.invoices = s.invoices + t.invoices /\ j.ar_close = t.ar_close
          /\ j.receipts = s.receipts + t.receipts
          /\ j.credit_notes = s.credit_notes + t.credit_notes
          /\ j.write_offs = s.write_offs + t.write_offs
      BY <2>1 DEF Joined, ArRollForward
    <3>. HIDE DEF j
    <3>. QED BY <3>1 DEF Verdict, LeftSide, RightSide
  <2>6. /\ lhs \in Seq(Nat) /\ rhs \in Seq(Nat)
        /\ Sum(lhs) = s.ar_open + (s.invoices + t.invoices)
        /\ Sum(rhs) = t.ar_close + (s.receipts + t.receipts)
                      + (s.credit_notes + t.credit_notes) + (s.write_offs + t.write_offs)
    <3>1. /\ s.ar_open \in Nat /\ s.invoices + t.invoices \in Nat /\ t.ar_close \in Nat
          /\ s.receipts + t.receipts \in Nat
          /\ s.credit_notes + t.credit_notes \in Nat
          /\ s.write_offs + t.write_offs \in Nat
      BY <2>1, <2>2
    <3>. QED BY <3>1, ShortSums
  <2>7. Sum(lhs) = Sum(rhs)
    BY <2>1, <2>2, <2>4, <2>6
  <2>. HIDE DEF lhs, rhs
  <2>. QED BY <2>5, <2>6, <2>7, TallyIsExact
<1>. QED BY <1>1, Invariance, PTL
===============================================================================
