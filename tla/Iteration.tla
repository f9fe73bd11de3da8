------------------------------- MODULE Iteration -------------------------------
(***************************************************************************)
(* Recursion over the rounds of a loop.  The proofs about the loops of     *)
(* MerkleTree and Accounting instantiate this module with the body of each *)
(* loop: Step(p, j, x) is the state after round j (counted from 0) of a    *)
(* loop with the fixed inputs p, when the state before it is x.            *)
(***************************************************************************)
EXTENDS Integers, NaturalsInduction, WellFoundedInduction, TLAPS

CONSTANT Step(_, _, _)

Iterates(p, first) ==
  LET x[j \in Nat] == IF j = 0 THEN first ELSE Step(p, j - 1, x[j - 1])
  IN  x

(***************************************************************************)
(* Induction on the natural numbers for a set, from the minimum of a       *)
(* well-founded relation: the predicate of an induction below is the set   *)
(* of the numbers that satisfy it.                                         *)
(***************************************************************************)
LEMMA SetInduction ==
  ASSUME NEW S, 0 \in S, \A n \in Nat : n \in S => n + 1 \in S
  PROVE  \A n \in Nat : n \in S
<1>. DEFINE Bad == {n \in Nat : n \notin S}
            Less == OpToRel(<, Nat)
<1>1. SUFFICES ASSUME Bad # {} PROVE FALSE
  OBVIOUS
<1>2. PICK x \in Bad : \A y \in Bad : ~ (<<y, x>> \in Less)
  <2>1. IsWellFoundedOn(Less, Nat)
    BY NatLessThanWellFounded
  <2>2. Bad \subseteq Nat
    OBVIOUS
  <2>. HIDE DEF Bad, Less
  <2>. QED BY <1>1, <2>1, <2>2, WFMin
<1>3. x \in Nat /\ x \notin S /\ x # 0
  OBVIOUS
<1>4. x - 1 \in Nat /\ x - 1 \in Bad => <<x - 1, x>> \in Less
  BY <1>3 DEF OpToRel
<1>5. x - 1 \in S
  <2>. HIDE DEF Less
  <2>1. x - 1 \in Nat
    BY <1>3
  <2>2. ~ (x - 1 \in Bad)
    BY <1>2, <1>4, <2>1
  <2>. QED BY <2>1, <2>2
<1>6. (x - 1) + 1 \in S
  BY <1>3, <1>5
<1>. QED BY <1>3, <1>6

(***************************************************************************)
(* The recursive function exists: it satisfies its own equations.          *)
(***************************************************************************)
THEOREM IterationEquations ==
  \A p, first :
    /\ Iterates(p, first)[0] = first
    /\ \A j \in Nat :
         Iterates(p, first)[j + 1] = Step(p, j, Iterates(p, first)[j])
<1>. SUFFICES ASSUME NEW p, NEW first
              PROVE  /\ Iterates(p, first)[0] = first
                     /\ \A j \in Nat : Iterates(p, first)[j + 1]
                                        = Step(p, j, Iterates(p, first)[j])
  OBVIOUS
<1>. DEFINE Upto(n, g) == /\ g[0] = first
                          /\ \A i \in 1 .. n : g[i] = Step(p, i - 1, g[i - 1])
            Some == {n \in Nat : \E g : Upto(n, g)}
            G(n) == CHOOSE g : Upto(n, g)
            F == [n \in Nat |-> G(n)[n]]
            IsIterates(f) ==
              f = [j \in Nat |-> IF j = 0 THEN first ELSE Step(p, j - 1, f[j - 1])]
<1>1. \A n \in Nat : n \in Some
  <2>1. 0 \in Some
    <3>. DEFINE g == [i \in {0} |-> first]
    <3>1. Upto(0, g)
      OBVIOUS
    <3>. QED BY <3>1
  <2>2. ASSUME NEW n \in Nat, n \in Some PROVE n + 1 \in Some
    <3>1. PICK g : Upto(n, g)
      BY <2>2
    <3>. DEFINE h == [i \in 0 .. n + 1 |->
                        IF i <= n THEN g[i] ELSE Step(p, n, g[n])]
    <3>2. Upto(n + 1, h)
      BY <3>1
    <3>. HIDE DEF h
    <3>. QED BY <3>2
  <2>. HIDE DEF Some
  <2>. QED BY <2>1, <2>2, SetInduction
<1>2. \A n \in Nat : Upto(n, G(n))
  BY <1>1
<1>3. ASSUME NEW n \in Nat, NEW m \in Nat, n <= m PROVE G(n)[n] = G(m)[n]
  <2>. DEFINE Same == {i \in Nat : i <= n => G(n)[i] = G(m)[i]}
  <2>. HIDE DEF G
  <2>1. 0 \in Same
    BY <1>2
  <2>2. ASSUME NEW i \in Nat, i \in Same PROVE i + 1 \in Same
    <3>1. SUFFICES ASSUME i + 1 <= n PROVE G(n)[i + 1] = G(m)[i + 1]
      OBVIOUS
    <3>2. G(n)[i] = G(m)[i]
      BY <2>2, <3>1
    <3>3. i + 1 \in 1 .. n /\ i + 1 \in 1 .. m /\ (i + 1) - 1 = i
      BY <3>1, <1>3
    <3>. QED BY <1>2, <3>2, <3>3
  <2>3. \A i \in Nat : i \in Same
    <3>. HIDE DEF Same
    <3>. QED BY <2>1, <2>2, SetInduction
  <2>. QED BY <2>3
<1>4. IsIterates(F)
  <2>. HIDE DEF G
  <2>1. F[0] = first
    BY <1>2
  <2>2. ASSUME NEW j \in Nat, j # 0 PROVE F[j] = Step(p, j - 1, F[j - 1])
    <3>1. j - 1 \in Nat /\ j - 1 <= j /\ j \in 1 .. j
      BY <2>2
    <3>2. G(j)[j] = Step(p, j - 1, G(j)[j - 1])
      BY <1>2, <3>1
    <3>3. G(j - 1)[j - 1] = G(j)[j - 1]
      BY <1>3, <3>1
    <3>. QED BY <3>1, <3>2, <3>3
  <2>3. \A j \in Nat : F[j] = IF j = 0 THEN first ELSE Step(p, j - 1, F[j - 1])
    BY <2>1, <2>2
  <2>4. F = [j \in Nat |-> F[j]]
    OBVIOUS
  <2>. HIDE DEF F
  <2>. QED BY <2>3, <2>4
<1>5. IsIterates(Iterates(p, first))
  <2>. HIDE DEF F
  <2>1. Iterates(p, first) = CHOOSE f : IsIterates(f)
    BY DEF Iterates
  <2>. QED BY <1>4, <2>1
<1>. QED
  <2>. HIDE DEF G, F
  <2>. DEFINE L == Iterates(p, first)
  <2>1. L = [j \in Nat |-> IF j = 0 THEN first ELSE Step(p, j - 1, L[j - 1])]
    BY <1>5
  <2>. HIDE DEF L
  <2>2. L[0] = first
    BY <2>1
  <2>3. ASSUME NEW j \in Nat PROVE L[j + 1] = Step(p, j, L[j])
    <3>1. j + 1 \in Nat /\ j + 1 # 0 /\ (j + 1) - 1 = j
      OBVIOUS
    <3>. QED BY <2>1, <3>1
  <2>. QED BY <2>2, <2>3 DEF L
===============================================================================
