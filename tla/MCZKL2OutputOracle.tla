-------------------------- MODULE MCZKL2OutputOracle --------------------------
(***************************************************************************)
(* Instances of ZKL2OutputOracle for TLC.  Roots are <<branch, block>>:    *)
(* the root of an L2 block on the canonical branch or on a forked one, so  *)
(* that proofs exist for both and only the chain of pre-roots tells them   *)
(* apart.                                                                  *)
(***************************************************************************)
EXTENDS ZKL2OutputOracle

CONSTANTS proposerAcc, challengerAcc, ownerAcc, gatewayAcc, zeroAddr,
          zero, vkA, vkB, h0, h1, h2, h3, h4, noProof,
          offL1,       \* the hash of a block that is not on L1
          MaxBlock,    \* highest L2 block number claimed
          Interval     \* submissionInterval of the instances

Root(branch, n) == <<branch, n>>
MCRoots == {Root(b, n) : b \in {"canonical", "forked"}, n \in 0 .. MaxBlock}
Hashes == <<h0, h1, h2, h3, h4>>
MCL1Hash == [n \in 0 .. MaxL1Block |-> Hashes[n + 1]]
MCWords == MCRoots \cup {zero, vkA, vkB, offL1} \cup {Hashes[i] : i \in 1 .. 5}
MCClaimRoots == MCRoots \cup {zero}
MCClaimBlocks == 0 .. MaxBlock
MCClaimHeads == {zero, offL1} \cup {Hashes[i] : i \in 1 .. 5}

(* The canonical roots of chain 1. *)
MCCanonicalOutputs == {<<1, n, Root("canonical", n)>> : n \in 0 .. MaxBlock}

(* What the range program can prove under key vkA: on either branch, from  *)
(* the root of a block to the root of a later one, at any L1 head; and     *)
(* from a head that is not on L1, a step from a canonical root to a forked *)
(* one.  vkB is the key of another program, whose statements are about     *)
(* chain 2.                                                                *)
Statement(pre, root, to, head, chain) ==
  [l1Head |-> head, l2PreRoot |-> pre, claimRoot |-> root,
   claimBlockNum |-> to, chainId |-> chain]

OnL1 ==
  {<<gatewayAcc, vk,
     Statement(Root(b, from), Root(b, to), to, MCL1Hash[n],
               IF vk = vkA THEN 1 ELSE 2)>> :
     vk \in {vkA, vkB}, b \in {"canonical", "forked"},
     from \in 0 .. MaxBlock, to \in 1 .. MaxBlock, n \in 0 .. MaxL1Block}

OffL1 ==
  {<<gatewayAcc, vkA,
     Statement(Root("canonical", from), Root("forked", to), to, offL1, 1)>> :
     from \in 0 .. MaxBlock, to \in 1 .. MaxBlock}

StraightVerifies == OnL1 \cup OffL1

(* Aggregations at a head on L1 with a first range from another fork: from *)
(* the canonical root of block 0 or 1 to the forked root of the next.      *)
Crooked ==
  {<<gatewayAcc, vkA,
     Statement(Root("canonical", from), Root("forked", from + 1), from + 1,
               MCL1Hash[1], 1)>> : from \in {0, 1}}

MCVerifies == StraightVerifies \cup Crooked
MCWholeOnL1 == {p[3] : p \in StraightVerifies}

MCConfig(start, startTime, period, proposer, blockTime) ==
  [submissionInterval |-> Interval, l2BlockTime |-> blockTime,
   startingBlockNumber |-> start, startingTimestamp |-> startTime,
   proposer |-> proposer, challenger |-> challengerAcc,
   finalizationPeriodSeconds |-> period, chainId |-> 1]

Args(c, o) ==
  [config |-> c, startingOutputRoot |-> Root("canonical", c.startingBlockNumber),
   owner |-> o, vkey |-> vkA, verifierGateway |-> gatewayAcc]

(* Deployments without an owner: a fixed proposer and a seed at block 0,   *)
(* or anybody proposing above block 1; a seed in the future, and an        *)
(* interval of zero, which initialize refuses.                             *)
MCInitParams ==
  {Args(MCConfig(0, 0, 2, proposerAcc, 1), zeroAddr),
   Args(MCConfig(1, 1, 3, zeroAddr, 1), zeroAddr),
   Args(MCConfig(0, StartTime + 2, 2, proposerAcc, 1), zeroAddr),
   Args([MCConfig(0, 0, 2, proposerAcc, 1) EXCEPT !.submissionInterval = 0],
        zeroAddr)}

Fresh ==
  [l2Outputs |-> <<>>, initialized |-> 0,
   config |-> [submissionInterval |-> 0, l2BlockTime |-> 0,
               startingBlockNumber |-> 0, startingTimestamp |-> 0,
               proposer |-> zeroAddr, challenger |-> zeroAddr,
               finalizationPeriodSeconds |-> 0, chainId |-> 0]]

FreshStorage == {Fresh}

(* The optimistic L2OutputOracle with one or two outputs, its own block    *)
(* time and finalisation period.                                           *)
LegacyOutput(n, t) ==
  [outputRoot |-> Root("canonical", n), timestamp |-> t, l2BlockNumber |-> n]

LegacyStorage ==
  {[l2Outputs |-> s, initialized |-> 1,
    config |-> [MCConfig(0, 0, 1, proposerAcc, 2) EXCEPT !.chainId = 0]] :
     s \in {<<LegacyOutput(1, 2)>>, <<LegacyOutput(1, 1), LegacyOutput(2, 2)>>}}

(* An upgrade that halves the block time, and doubles the period and the   *)
(* submission interval.                                                    *)
UpgradeParams ==
  {Args([MCConfig(3, 2, 2, proposerAcc, 1) EXCEPT !.submissionInterval = 2],
        ownerAcc)}

NoKeys == {}
BothKeys == {zero, vkA, vkB}

==============================================================================
