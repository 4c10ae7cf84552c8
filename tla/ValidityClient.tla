---------------------------- MODULE ValidityClient ----------------------------
(***************************************************************************)
(* The two range programs: the multi-block one, validity-client/src/       *)
(* main.rs, with its driver (crates/client-utils/src/driver.rs) and its    *)
(* caching chain provider (l2_chain_provider.rs), and the single-block     *)
(* one, zkvm-client/src/main.rs, on kona's own driver and provider.        *)
(*                                                                         *)
(* Both start at the L2 block of the output root they are given, derive    *)
(* from L1 and execute; multi goes on until it has executed the claimed    *)
(* block, single executes one block; then the output root is compared with *)
(* the claim.  The public values are committed first; a panic leaves no    *)
(* proof.                                                                  *)
(*                                                                         *)
(* Blocks are their numbers: from one parent and one L1 chain derivation   *)
(* gives one block.  The derivation pipeline is kona's: it is modelled by  *)
(* what the driver sees of it.                                             *)
(***************************************************************************)
EXTENDS Integers, Sequences

CONSTANTS
  MaxBlock,    \* bound on the L2 block numbers
  Starts,      \* blocks whose output root the program may be given
  Claims,      \* claimed block numbers
  Roots,       \* claimed roots: of which block they are, or NoBlock
  NoBlock,
  IncludedIn,  \* the L1 block, from the starting origin, with the batch of each L2 block
  L1Heads,     \* how many L1 blocks the L1 head is above the starting origin
  MaxSpan      \* blocks one step of the pipeline may prepare (a span batch)

Blocks == 0 .. MaxBlock

ASSUME ValidityAssumption ==
  /\ MaxBlock \in Nat /\ MaxSpan \in Nat \ {0}
  /\ Starts \subseteq Blocks /\ Claims \subseteq Blocks
  /\ NoBlock \notin Blocks /\ Roots \subseteq Blocks \cup {NoBlock}
  /\ L1Heads \subseteq Nat
  /\ IncludedIn \in [Blocks -> Nat]
  /\ \A m, n \in Blocks : m < n => IncludedIn[m] <= IncludedIn[n]

VARIABLES
  program,        \* which of the two runs
  start, l2_claim_block, l2_claim, store_valid, l1_head, executable, \* its inputs
  pc,
  l2_safe_head,   \* the driver's safe head
  origin,         \* L1 block the pipeline has reached
  prepared,       \* parents of the payloads prepared in the pipeline
  payloads,       \* parents of the payloads of the current iteration
  executed,       \* head of the executor's chain: its parent header
  header_by_number, payload_by_number,      \* keys of the provider's caches,
  system_config_by_number, l2_block_info_by_number, \* shared by all its clones
  l2_block_info   \* the local variable of main

inputs == <<program, start, l2_claim_block, l2_claim, store_valid, l1_head,
            executable>>
caches == <<header_by_number, payload_by_number,
            system_config_by_number, l2_block_info_by_number>>
pipeline == <<origin, prepared>>
vars == <<inputs, pc, l2_safe_head, pipeline, payloads, executed, caches,
          l2_block_info>>

Init ==
  /\ program \in {"multi", "single"}
  /\ start \in Starts /\ l2_claim_block \in Claims
  /\ l2_claim \in Roots          \* whatever the host claims for that number
  /\ store_valid \in BOOLEAN     \* every preimage matches its key
  /\ l1_head \in L1Heads
  /\ executable \in Blocks       \* last block whose state is in the store
  /\ pc = "verify"
  /\ l2_safe_head = start /\ executed = start /\ l2_block_info = start
  /\ origin = 0 /\ prepared = <<>> /\ payloads = <<>>
  /\ header_by_number = {} /\ payload_by_number = {}
  /\ system_config_by_number = {} /\ l2_block_info_by_number = {}

-----------------------------------------------------------------------------
(* The chain provider: a number is answered from its cache, or by walking  *)
(* back from the starting block; above it there is nothing to walk from.   *)
HeaderByNumber(n) == n \in header_by_number \/ n <= start

PayloadByNumber(n) == n \in payload_by_number \/ HeaderByNumber(n)

SystemConfigByNumber(n) == n \in system_config_by_number \/ PayloadByNumber(n)

L2BlockInfoByNumber(n) == n \in l2_block_info_by_number \/ PayloadByNumber(n)

(* Prologue: oracle.verify(), then the driver is built on the block behind *)
(* the output root, which it reads through the provider.                   *)
StartupInfoFound == L2BlockInfoByNumber(start)

Startup ==
  /\ pc = "verify" /\ store_valid /\ StartupInfoFound
  /\ pc' = "derive"
  /\ UNCHANGED <<inputs, l2_safe_head, pipeline, payloads, executed, caches,
                 l2_block_info>>

(* Mutants, here and below, which no action uses.  The batch must lie      *)
(* strictly before the L1 block reached.                                   *)
ChildDerivableBelow ==
  /\ l2_safe_head < MaxBlock
  /\ IncludedIn[l2_safe_head + 1] < origin
  /\ SystemConfigByNumber(l2_safe_head)
  /\ L2BlockInfoByNumber(l2_safe_head)

(* The pipeline can build the child of the safe head: its batch lies in an *)
(* L1 block already reached, and the provider knows the parent.            *)
ChildDerivable ==
  /\ l2_safe_head < MaxBlock
  /\ IncludedIn[l2_safe_head + 1] <= origin
  /\ SystemConfigByNumber(l2_safe_head)
  /\ L2BlockInfoByNumber(l2_safe_head)

(* Mutant: the first payload is taken, the others stay in the pipeline. *)
TakenFirst(queue) == SubSeq(queue, 1, 1)

(* The loop of produce_payloads takes prepared payloads up to the one of   *)
(* the claimed block and leaves the rest in the pipeline.                  *)
TakenUpToClaim(queue) ==
  LET stops == {i \in DOMAIN queue : queue[i] + 1 = l2_claim_block}
  IN  IF stops = {} THEN queue
      ELSE SubSeq(queue, 1, CHOOSE i \in stops : \A j \in stops : i <= j)

(* step() = PreparedAttributes, with k blocks of one span batch.           *)
Queue(k) == prepared \o [i \in 1 .. k |-> l2_safe_head + i - 1]

Prepares(k) ==
  /\ pc = "derive" /\ ChildDerivable
  /\ l2_safe_head + k <= MaxBlock
  /\ IncludedIn[l2_safe_head + k] <= origin

Take(queue, taken) ==
  /\ payloads' = taken
  /\ prepared' = SubSeq(queue, Len(taken) + 1, Len(queue))
  /\ pc' = "execute"
  /\ UNCHANGED <<inputs, l2_safe_head, origin, executed, caches, l2_block_info>>

ProducePayloads(k) ==
  /\ program = "multi" /\ Prepares(k)
  /\ Take(Queue(k), TakenUpToClaim(Queue(k)))

(* kona's produce_disputed_payload: the first payload.                     *)
ProduceDisputedPayload(k) ==
  /\ program = "single" /\ Prepares(k)
  /\ Take(Queue(k), <<Head(Queue(k))>>)

(* step() = AdvancedOrigin: no payloads, and main tries again.  At the L1  *)
(* head, or where the store lacks the L1 data, the step fails instead, the *)
(* error is logged, and main (in single: kona's driver) tries again: no    *)
(* change of state, no action.                                             *)
AdvanceOrigin ==
  /\ pc = "derive" /\ ~ChildDerivable /\ origin < l1_head
  /\ origin' = origin + 1
  /\ UNCHANGED <<inputs, pc, l2_safe_head, prepared, payloads, executed, caches,
                 l2_block_info>>

(* Mutants: the loop also ends above the claimed block; the cache of       *)
(* system configs is forgotten.                                            *)
ClaimReachedOrPassed == executed + 1 >= l2_claim_block

(* The loop of main ends at exactly the claimed block.                     *)
ClaimReached == executed + 1 = l2_claim_block

NumberMatches == executed + 1 = payloads[1] + 1
StateAvailable == executed < executable

UpdateCacheThree(n) ==
  /\ header_by_number' = header_by_number \cup {n}
  /\ payload_by_number' = payload_by_number \cup {n}
  /\ l2_block_info_by_number' = l2_block_info_by_number \cup {n}
  /\ l2_block_info' = n
  /\ UNCHANGED system_config_by_number

(* update_cache: all four caches, and the block info main keeps.           *)
UpdateCache(n) ==
  /\ header_by_number' = header_by_number \cup {n}
  /\ payload_by_number' = payload_by_number \cup {n}
  /\ system_config_by_number' = system_config_by_number \cup {n}
  /\ l2_block_info_by_number' = l2_block_info_by_number \cup {n}
  /\ l2_block_info' = n

(* One payload: execute_payload on the executor's own head, the assertion  *)
(* on the number, update_cache, and the exit at the claimed block.         *)
ExecutePayload ==
  /\ program = "multi" /\ pc = "execute" /\ payloads # <<>>
  /\ StateAvailable /\ NumberMatches
  /\ executed' = executed + 1
  /\ UpdateCache(executed + 1)
  /\ payloads' = Tail(payloads)
  /\ pc' = IF ClaimReached THEN "epilogue" ELSE "execute"
  /\ UNCHANGED <<inputs, l2_safe_head, pipeline>>

(* The one payload of the single-block program: no assertion on its number *)
(* and no caches.                                                          *)
ExecuteDisputedPayload ==
  /\ program = "single" /\ pc = "execute" /\ StateAvailable
  /\ executed' = executed + 1
  /\ payloads' = Tail(payloads)
  /\ pc' = "epilogue"
  /\ UNCHANGED <<inputs, l2_safe_head, pipeline, caches, l2_block_info>>

(* Mutant: the safe head skips a block. *)
UpdateSafeHeadSkipping ==
  /\ program = "multi" /\ pc = "execute" /\ payloads = <<>>
  /\ l2_safe_head' = l2_block_info + 1
  /\ pc' = "derive"
  /\ UNCHANGED <<inputs, pipeline, payloads, executed, caches, l2_block_info>>

(* The payloads of the iteration are executed: update_safe_head.           *)
UpdateSafeHead ==
  /\ program = "multi" /\ pc = "execute" /\ payloads = <<>>
  /\ l2_safe_head' = l2_block_info
  /\ pc' = "derive"
  /\ UNCHANGED <<inputs, pipeline, payloads, executed, caches, l2_block_info>>

(* compute_output_root() against l2_claim.                                 *)
OutputRootMatches == executed = l2_claim

Epilogue ==
  /\ program = "multi" /\ pc = "epilogue" /\ OutputRootMatches
  /\ pc' = "proved"
  /\ UNCHANGED <<inputs, l2_safe_head, pipeline, payloads, executed, caches,
                 l2_block_info>>

(* The single-block program asserts the number of the block it executed.   *)
ClaimNumberMatches == executed = l2_claim_block

EpilogueSingle ==
  /\ program = "single" /\ pc = "epilogue"
  /\ ClaimNumberMatches /\ OutputRootMatches
  /\ pc' = "proved"
  /\ UNCHANGED <<inputs, l2_safe_head, pipeline, payloads, executed, caches,
                 l2_block_info>>

Panic ==
  /\ \/ pc = "verify" /\ ~(store_valid /\ StartupInfoFound)
     \/ pc = "execute" /\ payloads # <<>> /\ ~StateAvailable
     \/ pc = "execute" /\ payloads # <<>> /\ program = "multi" /\ ~NumberMatches
     \/ pc = "epilogue" /\ ~OutputRootMatches
     \/ pc = "epilogue" /\ program = "single" /\ ~ClaimNumberMatches
  /\ pc' = "panicked"
  /\ UNCHANGED <<inputs, l2_safe_head, pipeline, payloads, executed, caches,
                 l2_block_info>>

Next ==
  \/ Startup
  \/ \E k \in 1 .. MaxSpan : ProducePayloads(k) \/ ProduceDisputedPayload(k)
  \/ AdvanceOrigin
  \/ ExecutePayload \/ ExecuteDisputedPayload
  \/ UpdateSafeHead
  \/ Epilogue \/ EpilogueSingle
  \/ Panic

Spec == Init /\ [][Next]_vars

(* The guest is a single thread that keeps running. *)
FairSpec == Spec /\ WF_vars(Next)

-----------------------------------------------------------------------------
(* Every variable keeps its type. *)
TypeOK ==
  /\ program \in {"multi", "single"}
  /\ start \in Starts /\ l2_claim_block \in Claims /\ l1_head \in L1Heads
  /\ l2_claim \in Roots /\ store_valid \in BOOLEAN /\ executable \in Blocks
  /\ pc \in {"verify", "derive", "execute", "epilogue", "proved", "panicked"}
  /\ l2_safe_head \in Blocks /\ executed \in Blocks /\ l2_block_info \in Blocks
  /\ origin \in Nat
  /\ prepared \in Seq(Blocks) /\ payloads \in Seq(Blocks)
  /\ header_by_number \subseteq Blocks /\ payload_by_number \subseteq Blocks
  /\ system_config_by_number \subseteq Blocks
  /\ l2_block_info_by_number \subseteq Blocks

(* Whenever the pipeline is stepped, the driver's safe head is the block   *)
(* the executor will build on, and every block above the start up to it is *)
(* in all four caches: main updates a clone of the provider after each     *)
(* block, the pipeline reads its own clones.                               *)
ExecutedBlocks == start + 1 .. executed

SafeHeadInStep ==
  pc = "derive" =>
    /\ l2_safe_head = executed
    /\ header_by_number = ExecutedBlocks
    /\ payload_by_number = ExecutedBlocks
    /\ system_config_by_number = ExecutedBlocks
    /\ l2_block_info_by_number = ExecutedBlocks

(* The payloads of an iteration are the next blocks in order, none past    *)
(* the claimed one, so the assertion on the block number never fails.      *)
PayloadsInOrder ==
  /\ \A i \in DOMAIN payloads : payloads[i] = executed + i - 1
  /\ start < l2_claim_block => executed + Len(payloads) <= l2_claim_block

(* A proof exists only for a claim above the starting block whose batches  *)
(* are on L1 by the L1 head, whose root is that of the claimed number,     *)
(* with a verified store; from single, only for the next block.  "It's     *)
(* the only way to exit the above loop" is why multi compares no numbers.  *)
ProvedMeansExecuted ==
  pc = "proved" =>
    /\ executed = l2_claim_block /\ l2_claim = l2_claim_block /\ store_valid
    /\ start < l2_claim_block
    /\ program = "single" => l2_claim_block = start + 1
    /\ IncludedIn[l2_claim_block] <= l1_head

(* What a verifier of the proof relies on: see RangeExecution.             *)
Verdict == IF pc \in {"proved", "panicked"} THEN pc ELSE "running"

Plain == INSTANCE RangeExecution WITH head <- executed, verdict <- Verdict

(* Through span batches, payloads left in the pipeline, the safe head and  *)
(* the caches, both programs execute plainly one block after the other up  *)
(* to the claim, each derived at or below the L1 head from a verified      *)
(* store; they prove derivable claims only, and no assertion, unwrap or    *)
(* mismatch ever rejects a claim that is derivable.                        *)
ImplementsRangeExecution == Plain!Spec

(* A valid claim is proved: the program does not loop or panic.            *)
ValidClaimsProved == Plain!Derivable ~> pc = "proved"
==============================================================================
