------------------------------ MODULE Accounting ------------------------------
(***************************************************************************)
(* The five accounting equations of crates/accounting/src/lib.rs,          *)
(* recomputed over disclosed records.  Each equation is a tally of two     *)
(* sides; each side is a sum of unsigned words that stops with Overflow at *)
(* the first addition that does not fit (checked_add).  The documented     *)
(* equations subtract; the tallies only add.                               *)
(***************************************************************************)
EXTENDS Integers, Sequences

CONSTANTS WordMax,    \* u64::MAX
          MaxItems    \* bound on the records of a list (for TLC)

ASSUME WordMaxAssumption == WordMax \in Nat
ASSUME MaxItemsAssumption == MaxItems \in Nat

VARIABLES disclosed,  \* the statement under audit: its records, by equation
          result      \* of verify

vars == <<disclosed, result>>

Word == 0 .. WordMax

Lists == UNION {[1 .. n -> Word] : n \in 0 .. MaxItems}

InvoiceTotal == [equation : {"InvoiceTotal"},
                 net : Word, tax : Word, discount : Word, gross : Word]

ArRollForward == [equation : {"ArRollForward"},
                  ar_open : Word, invoices : Word, ar_close : Word,
                  receipts : Word, credit_notes : Word, write_offs : Word]

DebitsCredits == [equation : {"DebitsCredits"}, debits : Lists, credits : Lists]

BankReconciliation == [equation : {"BankReconciliation"}, book_cash : Word,
                       reconciling_items : Lists, bank_balance : Word]

VatPayable == [equation : {"VatPayable"},
               output_vat : Word, input_vat : Word, vat_payable : Word]

Statements == InvoiceTotal \cup ArRollForward \cup DebitsCredits
                \cup BankReconciliation \cup VatPayable

-------------------------------------------------------------------------------
(***************************************************************************)
(* Checked sums.  Overflow is absorbing, as the early return makes it.     *)
(***************************************************************************)
Overflow == -1

\* Mutant: the sum wraps.
WrappingAdd(x, y) == (x + y) % (WordMax + 1)

CheckedAdd(x, y) ==
  IF x = Overflow \/ x + y > WordMax THEN Overflow ELSE x + y

CheckedSums(items) ==
  LET sum[n \in Nat] == IF n = 0 THEN 0 ELSE CheckedAdd(sum[n - 1], items[n])
  IN  sum

CheckedSum(items) == CheckedSums(items)[Len(items)]

Tally(lhs, rhs) ==
  IF CheckedSum(lhs) = Overflow \/ CheckedSum(rhs) = Overflow THEN "Overflow"
  ELSE IF CheckedSum(lhs) = CheckedSum(rhs) THEN "Ok"
  ELSE "EquationDoesNotHold"

\* Mutant: the opening balance of a roll-forward is dropped.
LeftSideUnopened(s) ==
  CASE s.equation = "InvoiceTotal" -> <<s.net, s.tax>>
    [] s.equation = "ArRollForward" -> <<s.invoices>>
    [] s.equation = "DebitsCredits" -> s.debits
    [] s.equation = "BankReconciliation" -> <<s.book_cash>> \o s.reconciling_items
    [] s.equation = "VatPayable" -> <<s.output_vat>>

LeftSide(s) ==
  CASE s.equation = "InvoiceTotal" -> <<s.net, s.tax>>
    [] s.equation = "ArRollForward" -> <<s.ar_open, s.invoices>>
    [] s.equation = "DebitsCredits" -> s.debits
    [] s.equation = "BankReconciliation" -> <<s.book_cash>> \o s.reconciling_items
    [] s.equation = "VatPayable" -> <<s.output_vat>>

RightSide(s) ==
  CASE s.equation = "InvoiceTotal" -> <<s.gross, s.discount>>
    [] s.equation = "ArRollForward" ->
         <<s.ar_close, s.receipts, s.credit_notes, s.write_offs>>
    [] s.equation = "DebitsCredits" -> s.credits
    [] s.equation = "BankReconciliation" -> <<s.bank_balance>>
    [] s.equation = "VatPayable" -> <<s.vat_payable, s.input_vat>>

Verdict(s) == Tally(LeftSide(s), RightSide(s))

Init ==
  /\ disclosed \in Statements
  /\ result = "none"

Verify ==
  /\ result = "none"
  /\ result' = Verdict(disclosed)
  /\ UNCHANGED disclosed

Spec == Init /\ [][Verify]_vars

-------------------------------------------------------------------------------
(***************************************************************************)
(* Properties.                                                             *)
(***************************************************************************)
Sums(items) ==
  LET sum[n \in Nat] == IF n = 0 THEN 0 ELSE sum[n - 1] + items[n]
  IN  sum

Sum(items) == Sums(items)[Len(items)]

\* The equations of the crate's documentation, over the integers.
Holds(s) ==
  CASE s.equation = "InvoiceTotal" -> s.gross = s.net + s.tax - s.discount
    [] s.equation = "ArRollForward" ->
         s.ar_close = s.ar_open + s.invoices - s.receipts - s.credit_notes
                      - s.write_offs
    [] s.equation = "DebitsCredits" -> Sum(s.debits) = Sum(s.credits)
    [] s.equation = "BankReconciliation" ->
         s.book_cash + Sum(s.reconciling_items) = s.bank_balance
    [] s.equation = "VatPayable" -> s.vat_payable = s.output_vat - s.input_vat

\* The verdict is about the documented equation over the integers: no wrapped
\* sum makes a false equation hold or a true one fail, and verify answers
\* Overflow exactly when a side of the tally exceeds a word, whichever of its
\* records comes first to do so.
VerdictIsExact ==
  /\ result = "Ok" => Holds(disclosed)
  /\ result = "EquationDoesNotHold" => ~ Holds(disclosed)
  /\ result = "Overflow" <=>
       /\ result # "none"
       /\ Sum(LeftSide(disclosed)) > WordMax \/ Sum(RightSide(disclosed)) > WordMax

\* Roll-forwards compose: when a period verifies, and the next one, which
\* opens with its closing balance, verifies too, the two taken as one period
\* never fail the equation; at worst a sum of the longer period overflows.
Joined(s, t) ==
  [s EXCEPT !.ar_close = t.ar_close,
            !.invoices = @ + t.invoices,
            !.receipts = @ + t.receipts,
            !.credit_notes = @ + t.credit_notes,
            !.write_offs = @ + t.write_offs]

PeriodsCompose ==
  disclosed.equation = "ArRollForward" /\ result = "Ok" =>
    \A t \in ArRollForward :
      t.ar_open = disclosed.ar_close /\ Verdict(t) = "Ok" =>
        Verdict(Joined(disclosed, t)) # "EquationDoesNotHold"
===============================================================================
