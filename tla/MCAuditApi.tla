------------------------------ MODULE MCAuditApi ------------------------------
(* AuditApi with a hash that never collides; the record rs is in no tree.    *)
EXTENDS AuditApi, TLC

CONSTANTS la, lb, lc, ra, rc, rs

PairOf(l, r) == <<l, r>>

LeafOfRecord(record) ==
  CASE record = ra -> la [] record = rc -> lc [] record = rs -> Junk

Vec(s) == [i \in 0 .. Len(s) - 1 |-> s[i + 1]]

Trees == {Vec(<<la>>), Vec(<<la, lb, lc>>)}

Keys == Permutations(Key)
===============================================================================
