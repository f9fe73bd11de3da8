---------------------------- MODULE MCStorageStudy ----------------------------
(* StorageStudy with a hash that never collides, over populations of 0 to 9  *)
(* different leaves; a leaf is a tuple so that it can be compared with a pair. *)
EXTENDS StorageStudy

CONSTANT MaxLeaves

PairOf(l, r) == <<l, r>>

LeafAt(i) == <<i>>

Trees == {[i \in 0 .. n - 1 |-> LeafAt(i)] : n \in 0 .. MaxLeaves}
===============================================================================
