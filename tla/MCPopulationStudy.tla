--------------------------- MODULE MCPopulationStudy ---------------------------
(* PopulationStudy with a hash that never collides; a leaf is a tuple so that   *)
(* it can be compared with a pair.  A unit of money is two million: an opening  *)
(* balance exceeds two invoices, and three receipts can exceed what is owed.    *)
EXTENDS PopulationStudy

PairOf(l, r) == <<l, r>>

LeafOf(record) == <<record>>

NoLeaf == LeafOf([id |-> -1, kind |-> 0, value |-> 0])

Draws == <<{1, 4}, {1, 4}, {1}, {1}>>
===============================================================================
