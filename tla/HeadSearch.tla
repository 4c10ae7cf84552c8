----------------------------- MODULE HeadSearch -----------------------------
(***************************************************************************)
(* What the callers of find_block_by_timestamp rely on: one look at the    *)
(* latest L1 block, then one answer, the block closest to the target among *)
(* those seen, or a panic if there is none to name.  No bounds, no halving *)
(* and no order of reads: FindBlock implements this specification.         *)
(*                                                                         *)
(* Nothing is promised once L1 has reorganised.  RpcFails is the error     *)
(* every read may end in.                                                  *)
(***************************************************************************)
EXTENDS Integers, Sequences, ClosestBlock

VARIABLES chain,    \* timestamps of the L1 blocks, from block 0
          reorged,  \* L1 has dropped a block
          target,   \* the timestamp asked for
          phase,    \* "start", "looking", "found", "panicked", "failed"
          seen,     \* number of the latest block when the search looked
          answer    \* number of the block returned

searchVars == <<target, phase, seen, answer>>

Block(n) == n < Len(chain)

Closest ==
  ClosestBlock([n \in 0 .. Len(chain) - 1 |-> chain[n + 1]], seen, target)

BeforeGenesis == target < chain[1]

Init ==
  /\ chain \in Seq(Nat) /\ chain # <<>>
  /\ reorged = FALSE
  /\ target \in Nat
  /\ phase = "start" /\ seen = 0 /\ answer = 0

Look ==
  /\ phase = "start" /\ phase' = "looking"
  /\ seen' = Len(chain) - 1
  /\ UNCHANGED <<chain, reorged, target, answer>>

(* The answer is a block L1 has when it is given. *)
Answer ==
  /\ phase = "looking" /\ phase' = "found"
  /\ answer' \in Nat
  /\ ~reorged => /\ answer' = Closest
                 /\ Block(Closest)
                 /\ ~BeforeGenesis
  /\ UNCHANGED <<chain, reorged, target, seen>>

Panic ==
  /\ phase = "looking" /\ phase' = "panicked"
  /\ ~reorged => BeforeGenesis \/ ~Block(Closest)
  /\ UNCHANGED <<chain, reorged, target, seen, answer>>

RpcFails ==
  /\ phase \in {"start", "looking"} /\ phase' = "failed"
  /\ UNCHANGED <<chain, reorged, target, seen, answer>>

Grow ==
  /\ Len(chain') = Len(chain) + 1
  /\ SubSeq(chain', 1, Len(chain)) = chain
  /\ UNCHANGED <<reorged, searchVars>>

Reorg == reorged' = TRUE /\ UNCHANGED searchVars

Next == Look \/ Answer \/ Panic \/ RpcFails \/ Grow \/ Reorg

Spec == Init /\ [][Next]_<<chain, reorged, searchVars>>
==============================================================================
