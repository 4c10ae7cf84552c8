--------------------------- MODULE RangeExecution ---------------------------
(***************************************************************************)
(* What a verifier of a range proof relies on: from the block of the given *)
(* output root the program executes one L2 block after the other, each     *)
(* taken from an L1 block at or below the L1 head and from a verified      *)
(* store, never past the claim; it proves the claim when it has arrived    *)
(* there, and gives up on no claim that it could prove.  No pipeline, no   *)
(* queues, no caches, no safe head: ValidityClient implements this         *)
(* specification for both range programs.                                  *)
(*                                                                         *)
(* Blocks are their numbers, and a root is the number of the block it is   *)
(* the output root of.                                                     *)
(***************************************************************************)
EXTENDS Integers

CONSTANT IncludedIn   \* the L1 block with the batch of each L2 block

VARIABLES program,    \* "multi", or "single", which executes one block
          start, l2_claim_block, l2_claim, store_valid, l1_head, executable,
          head,       \* the last block executed
          verdict     \* "running", "proved", "panicked"

inputs == <<program, start, l2_claim_block, l2_claim, store_valid, l1_head,
            executable>>

(* The claims a proof exists for: their blocks can be derived from L1 up   *)
(* to the L1 head, and executed from the store.                            *)
Derivable ==
  /\ store_valid /\ l2_claim = l2_claim_block
  /\ start < l2_claim_block /\ IncludedIn[l2_claim_block] <= l1_head
  /\ program = "single" => l2_claim_block = start + 1
  /\ l2_claim_block <= executable

Init ==
  /\ program \in {"multi", "single"} /\ store_valid \in BOOLEAN
  /\ start \in Nat /\ l2_claim_block \in Nat
  /\ l1_head \in Nat /\ executable \in Nat
  /\ head = start /\ verdict = "running"

Execute ==
  /\ verdict = "running" /\ store_valid
  /\ head < executable /\ IncludedIn[head + 1] <= l1_head
  /\ program = "single" => head = start
  /\ start < l2_claim_block => head < l2_claim_block
  /\ head' = head + 1
  /\ UNCHANGED <<inputs, verdict>>

Prove ==
  /\ verdict = "running" /\ Derivable /\ head = l2_claim_block
  /\ verdict' = "proved"
  /\ UNCHANGED <<inputs, head>>

Reject ==
  /\ verdict = "running" /\ ~Derivable
  /\ verdict' = "panicked"
  /\ UNCHANGED <<inputs, head>>

Next == Execute \/ Prove \/ Reject

Spec == Init /\ [][Next]_<<inputs, head, verdict>>
==============================================================================
