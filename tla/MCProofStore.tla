----------------------------- MODULE MCProofStore -----------------------------
(* ProofStore with a hash that never collides, over trees of height 0 to 2,  *)
(* two of them with one root.                                                *)
EXTENDS ProofStore, TLC

CONSTANTS la, lb, lc

PairOf(l, r) == <<l, r>>

Vec(s) == [i \in 0 .. Len(s) - 1 |-> s[i + 1]]

Trees == {Vec(<<>>), Vec(<<la>>), Vec(<<la, lb, lc>>), Vec(<<la, lb, lc, lc>>)}

Keys == Permutations(Key)
===============================================================================
