--------------------------- MODULE MCInclusionProof ---------------------------
(* InclusionProof with a hash of a pair that is the pair: no collisions.     *)
EXTENDS InclusionProof

PairOf(l, r) == <<l, r>>
===============================================================================
