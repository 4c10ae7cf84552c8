---------------------------- MODULE ClosestBlock ----------------------------
(***************************************************************************)
(* What find_block_by_timestamp of crates/host-utils/src/fetcher.rs is     *)
(* meant to return, as a number: FindBlock shows that its binary search    *)
(* computes it, RangeProofHost uses it for the whole search.               *)
(***************************************************************************)
EXTENDS Integers

(* The first of the blocks 0 .. last at or after the target, or the block  *)
(* after the last one if they are all earlier: low when the loop ends.     *)
ClosestBlock(time, last, target) ==
  IF time[last] >= target
    THEN CHOOSE n \in 0 .. last :
           time[n] >= target /\ \A m \in 0 .. n - 1 : time[m] < target
    ELSE last + 1
==============================================================================
