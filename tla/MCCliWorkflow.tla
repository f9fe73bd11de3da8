---------------------------- MODULE MCCliWorkflow ----------------------------
(* CliWorkflow and SettlementBridge with hashes that never collide, over        *)
(* batches of height 0 to 2, two of them with one root.  The explorer tells the *)
(* truth or repeats the last transaction, as it is or in capitals, swaps, drops *)
(* or garbles some, lists none, or has the header of another block.             *)
EXTENDS SettlementBridge, Sequences

CONSTANTS r, s, t, hr, hs, ht, ta, tb, tc, td

PairOf(x, y) == <<x, y>>

\* The other records are the texts of txids.
DigestOf(record) ==
  CASE record = r -> hr [] record = s -> hs [] record = t -> ht
    [] OTHER -> <<record>>

Vec(q) == [i \in 0 .. Len(q) - 1 |-> q[i + 1]]

Batches == {Vec(<<r>>), Vec(<<r, s, t>>), Vec(<<r, s, t, t>>)}

BlockTxids == Vec(<<ta, tb, tc>>)

Txids == {internal_to_display(h) : h \in {ta, tc, td}} \cup {Capitals(tc)}

RepeatedInCapitals ==
  [Displayed(Vec(<<ta, tb, tc, tc>>)) EXCEPT ![3] = Capitals(tc)]

Answers ==
  {[tx |-> tx, merkleroot |-> internal_to_display(MerkleRoot(v))] :
     tx \in {<<>>, Vec(<<internal_to_display(tc), Malformed>>), RepeatedInCapitals} \cup
            {Displayed(Vec(q)) : q \in {<<ta, tb, tc>>, <<ta, tb, tc, tc>>,
                                        <<tb, ta, tc>>, <<tc>>, <<ta, tb, td>>}},
     v \in {BlockTxids, Vec(<<ta, tb, td>>)}}
===============================================================================
