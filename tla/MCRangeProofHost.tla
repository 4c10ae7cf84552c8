--------------------------- MODULE MCRangeProofHost ---------------------------
(***************************************************************************)
(* Two runs.  L2 has blocks 0 to 2, and another block 2 that the node      *)
(* drops in a reorg; block 1 does not touch the message passer.  The batch *)
(* of block 2 is in L1 block 1, the first one past its target.             *)
(***************************************************************************)
EXTENDS RangeProofHost

CONSTANTS b0, b1, b2, u2, s0, s2, t2, noKey

MCL2Block ==
  [f \in Forks |-> [n \in 0 .. 2 |->
     CASE n = 0 -> b0 [] n = 1 -> b1 [] n = 2 -> IF f = "derived" THEN b2 ELSE u2]]
MCHeight == [f \in Forks |-> 2]
MCStorage == [b \in {b0, b1, b2, u2} |->
                CASE b \in {b0, b1} -> s0 [] b = b2 -> s2 [] b = u2 -> t2]
MCL2Time == [n \in 0 .. 2 |-> n]
MCL1Time == [n \in 0 .. MaxL1 |-> 3 * n]
MCIncludedIn == [n \in 0 .. 2 |-> IF n = 2 THEN 1 ELSE 0]

Request(h, s, e, cached, proves) ==
  [host |-> h, start |-> s, end |-> e, use_cache |-> cached, prove |-> proves]

span == Request("server", 1, 2, FALSE, TRUE)
local == Request("multi", 1, 2, FALSE, TRUE)
cached == Request("multi", 1, 2, TRUE, TRUE)
longer == Request("multi", 0, 2, FALSE, TRUE)
block == Request("single", 0, 2, FALSE, FALSE)
genesis == Request("single", 0, 0, FALSE, FALSE)

MCJobs == {span, local, cached, longer, block, genesis}

(* The pairs of runs that meet: of one range with and without the cache,   *)
(* of ranges with a common end, of the two programs, and one that cannot   *)
(* start.                                                                  *)
MCPairs == {<<span, span>>, <<span, cached>>, <<local, longer>>,
            <<local, block>>, <<span, genesis>>}

MCInit == Init /\ <<job["first"], job["second"]>> \in MCPairs

MCFairSpec ==
  MCInit /\ [][Next]_vars /\ \A r \in Runs : WF_vars(Step(r))
==============================================================================
