------------------------- MODULE MCAggregationClient -------------------------
(***************************************************************************)
(* A forked L1 of six headers (a1 to a3, b2 and b3 on a fork of a1, and a  *)
(* sibling x of a1), ranges proven at several heads on chain 1, and two    *)
(* ranges on chain 2 that do not join.                                     *)
(***************************************************************************)
EXTENDS AggregationClient

CONSTANTS a0, a1, a2, a3, b2, b3, x, r0, r1, r2, r3, none

MCHashes == {a0, a1, a2, a3, b2, b3, x}
MCHeaders == MCHashes \ {a0}
MCParent ==
  [h \in MCHeaders |-> CASE h = a1 -> a0 [] h = a2 -> a1 [] h = a3 -> a2
                         [] h = b2 -> a1 [] h = b3 -> b2 [] h = x -> a0]

Info(head, pre, post, blk, chain) ==
  [l1_head |-> head, l2_output_root |-> pre, l2_claim |-> post,
   l2_claim_block |-> blk, chain_id |-> chain]

MCProven ==
  {Info(a2, r0, r1, 1, 1), Info(b3, r0, r1, 1, 1), Info(a2, r1, r2, 2, 1),
   Info(a1, r1, r2, 2, 1), Info(x, r1, r2, 2, 1), Info(a2, r1, r2, 2, 2),
   Info(a2, r0, r3, 1, 2)}

(* One claim nobody has a proof of. *)
Unproven == Info(a1, r1, r0, 3, 1)

ListsUpTo(S, n) == UNION {[1 .. k -> S] : k \in 0 .. n}

MCBootInfoLists == ListsUpTo(MCProven \cup {Unproven}, 2)
                     \cup {<<Info(a2, r0, r1, 1, 1), Info(a1, r1, r2, 2, 1), Unproven>>}
MCHeaderLists == ListsUpTo(MCHeaders, 3)
==============================================================================
