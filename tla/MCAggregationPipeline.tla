------------------------ MODULE MCAggregationPipeline ------------------------
(***************************************************************************)
(* L1 blocks 0 to 3 with a fork at block 2, and one or two ranges proven   *)
(* at heads on either fork.                                                *)
(***************************************************************************)
EXTENDS AggregationPipeline

CONSTANTS g, a1, a2, a3, b2, b3, noBlock, rpcFailed, noneCommitted, r0, r1, r2

MCParent ==
  [h \in Blocks |-> CASE h = g -> noBlock [] h = a1 -> g [] h = a2 -> a1
                      [] h = a3 -> a2 [] h = b2 -> a1 [] h = b3 -> b2]
MCNumber ==
  [h \in Blocks |-> CASE h = g -> 0 [] h = a1 -> 1 [] h \in {a2, b2} -> 2
                      [] h \in {a3, b3} -> 3]

Info(head, pre, post, blk) ==
  [l1_head |-> head, l2_output_root |-> pre, l2_claim |-> post,
   l2_claim_block |-> blk, chain_id |-> 1]

First == {Info(h, r0, r1, 1) : h \in {a1, a2, b2}}
Second == {Info(h, r1, r2, 2) : h \in {a2, a3, b3}}
MCProven == First \cup Second

(* Nothing, one range, two consecutive ranges, two in the wrong order. *)
MCProofLists ==
  {<<>>} \cup {<<p>> : p \in First} \cup {<<p, q>> : p \in First, q \in Second}
    \cup {<<Info(a2, r1, r2, 2), Info(b2, r0, r1, 1)>>}
==============================================================================
