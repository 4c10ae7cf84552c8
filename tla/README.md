# zk-optimism in TLA+

This directory specifies, model-checks and proves properties of zk-optimism
(kona-sp1): the settlement contract that accepts OP Stack output roots with SP1
proofs, and the programs that make those proofs. Every definition is translated
from the source; `PROJECT.json` ("map") names the lines. Line numbers below are
those of the files under `src/`.

Contents: [the system](#the-system) · [plan](#plan) ·
[modules](#modules-and-the-code) · [runs](#runs) · [fairness](#fairness) ·
[proofs](#proofs) · [findings](#where-code-and-comments-disagree) ·
[not modelled](#not-modelled)

## The system

| component | source | state | operations |
|---|---|---|---|
| settlement contract | `contracts/src/ZKL2OutputOracle.sol` | list of outputs, configuration, checkpointed L1 hashes, owner, key, gateway | `initialize`, `deleteL2Outputs`, `proposeL2Output`, `checkpointBlockHash`, `transferOwnership`, `updateVKey`, `updateVerifierGateway`, views |
| aggregation program (zkVM) | `aggregation-client/src/main.rs`, `client-utils/src/boot.rs` | inputs, position of the header walk, map of L1 heads | check sequence, verify proofs, walk headers, commit |
| range program (zkVM) | `validity-client/src/main.rs`, `client-utils/src/{driver,l2_chain_provider}.rs` | safe head, pipeline, executor's head, four caches shared by clones | derive, execute, update caches and safe head, compare with the claim |
| single-block program (zkVM) | `zkvm-client/src/main.rs` | none across calls | derive and execute one block |
| preimage oracle (zkVM) | `client-utils/src/oracle/mod.rs` | key-value store from the host | `verify`, `get`, `get_exact` |
| aggregation host | `zkvm-host/bin/agg.rs`, `zkvm-host/src/utils.rs`, `host-utils/src/lib.rs` | boot infos, header tasks | load proofs, find earliest head, fetch headers, submit |
| proof server | `zkvm-host/bin/server.rs`, `host-utils/src/{lib,helpers}.rs` | data directories on disk | `request_span_proof`, `request_agg_proof`, `get_proof_status` |
| data fetcher | `host-utils/src/fetcher.rs` | none; reads of L1 and L2 nodes | binary search for the L1 head, arguments of the native host |
| command-line hosts | `zkvm-host/bin/{single,multi,fetch_and_save_proof}.rs`, `native-host` | data directories, proof files | execute or prove one range, `--use-cache`, save a proof |
| precompiles, hooks, scripts | `client-utils/src/precompiles`, `zkvm-host/src/{lib,stats}.rs`, `contracts/script` | – | annotated precompiles, statistics, deployment |

How they interact. The fetcher picks an L1 head and output roots for an L2
range; the native host writes every preimage the range needs to a data
directory; the range program runs on that store inside SP1 and commits a
`RawBootInfo`. The aggregation host collects such proofs, fetches the L1
headers between their heads and a checkpointed head, and the aggregation
program commits to one boot info for the whole range. A proposer sends the
claimed root with that proof to the contract, which compares the L1 head with a
hash somebody checkpointed earlier and takes its own last output as pre-root;
the challenger may delete outputs that are not final. Hosts are not trusted by
the programs, the programs are trusted by the contract through the
verification key, and L1 moves on under all of them.

Hard behaviours, in the order of what they can damage:

1. *Contract*: deletions and proposals interleave, so a proof is verified
   against whatever output is last when it lands; finality is tested for the
   first deleted output only; checkpoints expire from `blockhash`, can be
   overwritten, and an empty slot equals the zero hash; casts to `uint128`; an
   upgrade onto a list made by another contract.
2. *Aggregation program*: the host chooses headers and boot infos.
3. *Aggregation host*: one RPC per block, in concurrent tasks, on a chain that
   grows and reorganises.
4. *Range program*: one provider cloned four times with shared caches; errors of
   the pipeline are retried; the loop has one exit.
5. *Fetcher*: a binary search over a growing chain, unsigned arithmetic.
6. *Server and command lines*: concurrent runs share data directories and proof
   files; a native run may die in the middle of a file; arguments are read one
   RPC at a time from an L2 that may reorganise; `--use-cache` pairs new
   arguments with an old store.

What makes each correct: the contract's list is an ordered chain of proofs,
anchored on L1, whose final part never changes; the aggregation program accepts
exactly linked inputs; an honest operator ends up with a proof; the range
program proves valid claims and no others; the oracle's verdict does not depend
on hash order and its blobs hold what the store has; the search finds the first
block at or after the target; a run loads a complete store and its proof is filed
under its own range.
`PROJECT.json` ("hazards") lists the places where this can go wrong.

## Plan

Done, in this order: `ZKL2OutputOracle` with `CheckpointLog`, its proofs and the
refinement; `AggregationClient` and proofs; `ValidityClient`; `InMemoryOracle`;
`FindBlock` and proofs; `AggregationPipeline`, which composes the host with
`AggregationClient`; `RangeProofHost`, the handlers and command lines between
the fetcher and the range program; the single-block program in `ValidityClient`;
proofs of `ValidityClient`, `InMemoryOracle`, `AggregationPipeline` and
`RangeProofHost`.

Left: no module that adds behaviour of this repository. A composition of
proposer, aggregation and contract would need the proposer, which is not here;
what the contract promises any proposer is in `ZKL2OutputOracle`, and what the
programs promise the contract is its constant `Verifies`, with the assumption
`SoundnessAssumption` on those of its members that are `WholeOnL1`. The plan for the proofs is done too; what is left to
TLC is liveness.

## Modules and the code

**`ZKL2OutputOracle`** – one action per external function; a transaction that
reverts changes nothing and is no step. `config` holds the slots `initialize`
writes; `initialized` is the version kept by OpenZeppelin's `Initializable`;
`now` and `l1Number` are the block context, moved by `NextL1Block`, so any
number of transactions shares a block. Proof verification is membership of
`<<gateway, vkey, public values>>` in the constant `Verifies`; callers pass any of
`ClaimRoots`, `ClaimBlocks` and `ClaimHeads`, the hashes of blocks that are not on
L1 included. `CanonicalOutputs` are the outputs of the L2 chains that L1
determines. `WholeOnL1` are the statements whose ranges all come from heads on L1
if the committed head does: an aggregation may name a head on L1 and still join a
range from elsewhere, and of such a proof the module assumes nothing. `Init` is the
storage of the proxy *before* the upgrade, empty or legacy, since upgrade and
`initialize` are one transaction in the deployment scripts. History variables:
`attested`, the public values each output was proven with; `replayed`, the list
an observer of the events rebuilds.

**`CheckpointLog`** – what a user of the contract relies on: a log that is
opened once, extended at its end with the current time, and cut only where the
period still runs. `ZKL2OutputOracle!Log` maps outputs, `now`, the period and
`initialized = 2` to it.

**`RangeExecution`** – what a verifier of a range proof relies on: one block
executed after the other, each derived at or below the L1 head from a verified
store; a proof of a derivable claim, a panic for any other. `ValidityClient!Plain`
maps the executor's head and the outcome to it; queues, span batches, safe head
and caches are hidden.

**`HeadSearch`** – what the callers of `find_block_by_timestamp` rely on: one look
at the latest block, one answer. `FindBlock!Atomic` maps the loop and the read
after it to one phase. **`ClosestBlock`** holds the answer as an operator, used
by `HeadSearch` and, for the search as a whole, by `RangeProofHost`.

**`AggregationClient`** – `main` stage by stage (`pc`), one action per iteration
of `verify_l1_heads`. A header is identified with its hash; `ProvenInfos` are
the boot infos a range proof under the hardcoded key exists for; `Abort` is a
failed assertion. The inputs are arbitrary members of the input sets.

**`AggregationPipeline`** – agg.rs and `request_agg_proof` up to the stdin, then
`AggregationClient` as an `INSTANCE` on it. `FetchHeader(n)` is one task,
`InOrderOfNumber` what `try_join_all` returns; `Grow` and `Reorg` are L1. A failure
ends where the code ends it. An RPC outside the header tasks: `RpcError`, an error
returned. An RPC in a header task: `HeaderRpcError`, the task's result is an
error, which the host unwraps after the last task (`Panic`, utils.rs 59). A block
the node does not have, in a header task: `TaskPanics`, a `JoinError` that
`try_join_all` returns at once; elsewhere a `Panic`. A proof file that is missing
or unreadable, or a proof that is not `Compressed` (`subproofs`): a `Panic` too.
request_agg_proof reads the ABI words with bincode, which panics, so
`ReadProofs` goes on for an empty list only.

**`ValidityClient`** – both range programs, chosen by `program`: the loop of
validity-client's `main` with `produce_payloads`, the four caches and the walk
back from the starting block, and zkvm-client's `main`, one payload and one
block on kona's own driver and provider. Blocks are numbers; `l2_claim` is the
number whose root is claimed, or none. Kona's pipeline is external: it can
prepare the child of the safe head when the batch is in an L1 block already
reached and the provider knows the parent. Errors of a step are logged and
retried, which changes no state.

**`InMemoryOracle`** – `verify()`, one action per visited entry, in any order. A
hash is one bit; blob elements keep commitment, index, value and whether the value
has the size copied. The index is any `u64`: `Place` is `(element as usize) << 5`,
which loses the high bits, so indices `PlaceMod` apart (2^27 in the zkVM) share a
place. `Capacity` places fit the struct. An element is copied to a free place only,
and only then does `copy_from_slice` look at its size.

**`FindBlock`** – the search of `find_block_by_timestamp`, one action per RPC;
`high = mid - 1` is modulo `Mod64`.

**`RangeProofHost`** – `request_span_proof` and `get_proof_status`, multi.rs,
single.rs and fetch_and_save_proof.rs. Any number of `Runs`, each with its `job`
and a program counter `pc`, share the L2 node (`l2`, which may drop a fork), L1
(`l1`, which grows), the data directories (`whole` and `partial` files) and the
`proof_files`. `Read*` and `FindL1Head` are `get_host_cli_args`, one action per
RPC, with the search as `FindBlock` shows it to behave; `CreateDirectory` ends
it; `BeginWrite`, `EndWrite`, `FindFile` and `NativeEnd` are the native client
and its host; `ListFiles` and `LoadFile` are `load_kv_store`; `Accepted` is the
program on the store that was loaded. `Panic` is an `unwrap` that fails on what was
read, `Fail` a failure that is returned, `FailUnwrapped` one that is unwrapped:
server.rs returns the error of a native run, multi.rs and single.rs panic on it.
Either may leave a file half written. History variables:
`reached` (the search saw a block late enough), `alone` (no other run of the
range wrote, or had died writing, since the directory was opened), `earlier`
(runs of the range whose native client had ended before). What is assumed of
code outside the repository: `start_server_and_native_client` returns `Ok` only
if the client succeeded; it writes the preimages its claim needs and finds
those present; keys are hashes, so a whole file has the right content whoever
wrote it; a block determines its number; fetch_and_save_proof is called with the
id and the range of one request.

`MC*` modules give the constants values; `*Proofs` and `*Refinement` hold the
theorems. In the specification modules an operator whose comment says *Mutant*
is a plausible mistake in the definition after it. No action uses it: it is
there to show that the property paired with it in `PROJECT.json` can fail.

## Runs

Every `.cfg` lists its constants; all bounds are constants.

| run | question | bounds and why they suffice |
|---|---|---|
| `oracle_fresh` | fresh proxy: order, chain of proofs, anchoring, canonical outputs, events, finality, search, the abstract log | blocks to 3, six seconds, four L1 blocks with a window of two, so checkpoints expire and get erased; periods 2 and 3, so outputs become final between transactions; proofs exist for two branches and all L1 heads, and from a head that is not on L1 (`offL1`) for the forked branch above a canonical root, and at a head on L1 with a first range from another fork; `uint128` is modulo 8 so that a narrower cast would show |
| `oracle_upgrade` | legacy outputs, halved block time, longer period, an interval of two after one, an owner who changes keys and ownership: the chain of proofs, spacing and finality | legacy lists that end at block 1 or 2, proposals of blocks 3 to 5: two of them fit an interval apart above block 1, one above block 2, and each has a neighbour that is too close |
| `aggregation` | exact acceptance and what a commitment means, on any inputs | lists of up to two ranges (and one of three) over two chains and three forks of L1, headers up to three in any order and with repetitions |
| `pipeline` | honest operators against a moving L1; no proof across forks | six L1 blocks with a fork, one reorg, up to two ranges, every checkpoint number, tasks in every order, each of which may fail; lists with proofs that are missing or of another mode; lists for the server |
| `validity` | both programs: driver, executor and caches in step; plain execution of derived blocks implemented; valid claims proved, no others | starts 0, 1, 3 and 5, claims 0..6, four L1 heads, span batches of up to three blocks, stores that end at any block |
| `memory_oracle` | what of the verdict depends on the hash order; blob elements in their place, none lost but where the code drops them | all stores of up to four of 26 entries, in all orders; struct of two places, `usize` of four: indices 0 and 4 share a place, 2 and 7 fit nowhere, 3 is the KZG proof; right, wrong and zero values, wrong sizes |
| `find_block` | the search ends, finds the right block and implements one look at the whole chain | chains of up to four blocks that grow to six, one reorg, targets before, inside and after the chain |
| `proof_requests` | hosts side by side: complete stores, `--use-cache`, proofs filed under their range, requests that get to their store | two runs, in the pairs that meet: two requests of one range, a request and a cached run, ranges with a common end, multi and single for the same block, and a run for block 0; two L2 forks and one reorg; three L1 blocks, the second of which is the one to find; every interleaving of RPCs, file writes and reads |
| `checkpoint_window`, `committed_head`, `before_target`, `header_errors` | a statement of a comment the code does not keep; TLC shows the counterexample | as the run each is derived from |

`CHECK_DEADLOCK FALSE` everywhere: programs end, and the L1 of the models stops
at its bounds.

The properties worth a closer look: `ProofChain` (each accepted output is
still behind the very output its proof starts from, after any deletion and
re-proposal), `FinalizedStable` (each transaction keeps what is final under the period in force
before it, which rests on the order of timestamps, not on a test; an upgrade that
lengthens the period makes outputs deletable again, hence no more than that), `AnchoredOnL1` (the zero hash passes the contract's lookup; only that no
proof has it as L1 head excludes it – the assumption `ProofAssumption`),
`EmptyIsAbsorbing` (a challenger who deletes output 0 stops the contract),
`OutputsCanonical` (proofs of a fork, of another chain and from heads that are
not on L1 verify; the stored pre-root, the chain id and the checkpoint shut them
out together; what a proof with a foreign range spoils is only what is built on
it), `SpacedBySubmissionInterval` (a legacy output was accepted under another
interval, deletions move the next block back), `HeadsOnCheckpointChain` and `AcceptsExactly`,
`HonestNeverAborts` (the one panic an honest host may meet is the unwrap of a
failed header task), `BlobsComeFromStore` and `VerdictIndependentOfOrder` (indices
that share a place, sizes only looked at where a place is free),
`SafeHeadInStep`, `ValidClaimsProved`,
`ImplementsRangeExecution` (no assertion, unwrap or mismatch
ever gives up a claim that is derivable), `ImplementsHeadSearch` (reads spread
over a growing L1 answer like one), `FirstAtOrAfterTarget`, `CacheServes` (arguments computed anew match a store of
any age, because the first block at or after a time is unique),
`UndisturbedStoreAccepted` (what exactly disturbs a run: only another run of its
own range), `ProofsOfTheirRange` (the file is named after the request, its
content comes from RPCs a reorg may lie between; only the program's check of the
claim excludes a mixture).

## Fairness

- `FindBlock!FairSpec`: weak fairness of the search. The function is one
  sequential future that keeps awaiting; growth, reorgs and RPC errors get none.
- `ValidityClient!FairSpec`: weak fairness of `Next`; the guest is one thread.
  Retried steps change nothing and are stuttering, so a claim that cannot be
  derived is a behaviour that stutters for ever, as the zkVM loop does.
- `AggregationPipeline!FairSpec`: weak fairness of the host and of the program,
  none of L1 or of RPC failures; `HonestSettles` assumes neither a reorg nor a
  failed RPC, in a header task or outside, happens.
- `RangeProofHost!FairSpec`: weak fairness of each run's own steps up to the
  stored input, `Step(r)`: handlers are independent tasks of a multi-threaded
  runtime, the command lines processes. None for the prover network, polling,
  failures, L1 or L2; `RequestsAnswered` lets a failed RPC, file or native run count
  as an answer, whether its error is returned or unwrapped, and no other panic. `MCFairSpec` is the same on the chosen pairs of jobs.
- The contract promises nothing by itself: no fairness, no liveness.

## Proofs

Checked by TLAPS for every value of the constants that meets the modules'
`ASSUME`s. TLC evaluates those assumptions in every run.

*Contract* (`ZKL2OutputOracleProofs`). The order of outputs is not inductive
alone: a proposal is appended with `uint128` casts, above `latestBlockNumber`
by an interval that is zero before `initialize`. The inductive invariant adds
`ConfigSound` (interval and block time positive once initialised, and room below
2^128 for every block whose time has passed; from `WidthAssumption`), types and
the agreement of list and events: `IInv == TypeOK /\ OutputsOrdered /\
EventsReplayOutputs /\ ConfigSound`. From it `TypeCorrect`, `Order`,
`EventsFaithful`; `Finality`, since with ordered timestamps no output behind a
non-final one is final; `EmptyForGood`. For what proofs say, `ProofInv` adds
`Grounded`: a non-empty checkpoint is the hash of a past block, and nothing is
proved before initialisation. From it `ChainOfProofs`, `Anchoring`, `Spacing`,
`NoFutureOutputs`. Assumptions used: `ProofAssumption` (an L1 head is a keccak
hash, never zero), `WidthAssumption`, `StorageAssumption` (legacy outputs are
ordered and in the past).

*What the outputs are worth* (`CanonicalRoots`). If the outputs no proof was asked
for, the seed and the legacy ones, are canonical, every output is, at its own
number, up to the first one whose proof is not `WholeOnL1`. `AttestedVerified` says that every attested statement is one a proof
verifies for; `Grounded` puts its L1 head on L1; `ProofChain` makes its pre-root
the output below, so canonicity climbs the list (`CanonicalStep`; `CanonicalList`
takes a least output that is not canonical, which needs no induction scheme).
`SoundnessAssumption` says what a proof states whose ranges were all derived from
*this* L1: a canonical root leads to a canonical one. A range proof's statement
meets it by what `ExecutesPlainly` shows of the program; an aggregation's by
`WholeSound`, if it is whole. Of an aggregation that is not, which the program
accepts (the `committed_head` run) and the contract cannot tell apart, nothing is
assumed and the theorem says nothing of the outputs above it.

*The contract's search.* `IndexAfterLoop` is a recursive function, of which TLA+
knows the equation only if some function satisfies it. One does: between bounds
`lo < hi` the answer is the index of the first output at or above the block,
clamped to `lo .. hi` (`Clamped`, `ClampedHalves`). None other does where
`lo <= hi`: of the bounds where two solutions differ the closest ones contradict
the equation (`OnlyClamped`; `LeastNumber` is well-foundedness of `<`). The order
of the outputs makes "first" a boundary, and `SearchCorrect` follows.

*Refinement* (`ZKL2OutputOracleRefinement`). Initial states map to initial
states of `CheckpointLog`; `Initialize` maps to `Open`, `ProposeL2Output` to
`Extend`, `DeleteL2Outputs` to `Retract` (the quantifier over the tail is where
the order is needed), `NextL1Block` to `Tick`, everything else to stuttering.

*Aggregation program* (`AggregationClientProofs`). `WalkInv` describes the
reversed walk: visited headers are linked up to the checkpointed head, the
expected hash is the parent of the last visited one, and a head is marked
exactly when visited. `HeadsVerified` and `AcceptanceExact` follow. Being an
ancestor is stated by closure (in every set that holds the checkpoint and is
closed under parents), which needs no induction over the chain.

*Aggregation program, continued*. `ProvenPath` is about lists of any length and
rests on an induction along the list. The library's induction theorems take an
operator as a parameter; well-foundedness of `<` (`WFMin` of
`WellFoundedInduction`) does not: if the claim fails at some position, it fails
at a least one (`LeastPosition`), and that position contradicts the link to the
one before. `OneChain` and `ClaimsReached` use it; numbers belong to roots by
the module's assumption on the proven infos. `WholeSound`: if range proofs
from heads of an L1 chain are sound and a commitment is *whole* (its head is not on
that chain, or all heads of its ranges are), the commitment is sound, although the
program drops every claim and number between the first and the last. The contract
sees the committed head only, so it can check one half of this. `WhenWhole` gives
the three ways to have the other: a single range, heads on the chain of the
committed one, a *checkpointed* head on L1. The program ensures none of them (the
`committed_head` run); the host ensures the last, see `SettlesSound`.

*Aggregation host* (`AggregationPipelineProofs`). A proof by composition: the
module instantiates `AggregationClientProofs` with the pipeline's variables and
uses its theorems from the submission on. `HostInv` says what the host's stages
know, `GuestInv` that the program is where its own invariant allows,
`HonestInv` that the chain an honest operator read from has only grown: every
header fetched is canonical with the number asked for, so the inputs are
`Acceptable` when they are submitted. `HonestSafe` leaves one panic, on a header
task's failed RPC; no task asks for a number above the tip. `OneFork` needs none of that: it is
`HeadsVerified` seen from outside. `SettlesSound` closes the premise of
`WholeSound` for agg.rs: it reads the checkpoint by number, so that block is
on the node's chain and stays there while L1 only grows (`CheckpointInv`). Then
what it settles is sound if range proofs from heads on L1 are, even for a
dishonest list with proofs from other forks. request_agg_proof is given the head
in the request and gets no such theorem. `PipelineAssumption`: blocks form a numbered
tree, and proof lists are lists of proven infos.

*Range programs* (`ValidityClientProofs`). `PayloadInv`: the payloads in hand
are consecutive and start at the executor's head. `MultiInv`: the three heads
and four caches agree with the executor after every iteration, and what is left
in the pipeline lies behind the claimed block. `SingleInv`: one block, no cache.
`OriginInv`: what is executed has its batch at or below the pipeline's origin,
which never passes the L1 head. From these `HeadsAndCachesAgree`,
`NextPayloadsOnly` and `ProofsAreOfExecutedClaims`, for any start, claim, span
batches and inclusion of batches in order (`ValidityAssumption`).
`ExecutesPlainly`, the refinement of `RangeExecution`, adds `ExecutableInv`, that
what was executed was in the store. `ExecutePlain`: a payload in hand is the next
block, derived below the L1 head. `ProvePlain`: what the epilogues compare, with
the one exit of the loop, makes the claim derivable. `RejectPlain`: each cause of
a panic contradicts derivability. `HiddenStep`: everything else is a stutter.

*Oracle* (`InMemoryOracleProofs`), for any number of entries, indices and places.
`VisitedInv`: while the loop runs every visited entry was good and is `Placed`, that
is its place is taken, by it or another, or its value is zero; the loop stops at a
bad entry or a bad size only. `PlacesInv`: what a place holds is the value of an
element of the right size. So a size that was not looked at was hidden by such an
element (`OrderIrrelevant`), and a place that is zero at the end has no other
element (`BlobsFaithful`).

*Hosts of range proofs* (`RangeProofHostProofs`), for any number of concurrent
runs. A step of one run changes the disk only by adding to it (`StepOf`), so
what the invariant says of the others stays (`OneRun`) and each action is shown
right for its own run. `RunInv` follows one run: what is not pending is in the
directory, then listed, then loaded; after the native client has ended the claim
is provable; a search that saw a late enough block has found the first one.
`OwnerInv` gives every half-written file a writer, alive or dead, and `AloneInv`
says a run that is alone has none beside it, hence reads no damaged file
(`StoreAccepted`). `EarlierInv` keeps what a complete run left (`Left`), which
with the uniqueness of the first block (`FirstUnique`) gives `CacheSound`.
`ProofsFiledRight` needs that a block has one number (`HostAssumption`): the root
in a proof names a block read at the safe head's number, in whichever fork.

*Search* (`FindBlockProofs`). `Bounded`: as long as L1 does not reorganise, all
blocks below `low` are earlier than the target and those from `high + 1` to the
latest block read are later, or `high` has wrapped because genesis is later.
Growth keeps old timestamps, so it keeps `Bounded`. `SearchIsAtomic`, the
refinement of `HeadSearch`: `ClosestIsFirst` and `ClosestBeyond` say what the
operator's `CHOOSE` is, `LowIsClosest` and `HitIsClosest` that the loop ends on it
by either way out; reads of the loop stutter. `PanicsOnlyBeforeGenesis` says when
the wrapped bound is reached.

Only model-checked: liveness (`ValidClaimsProved`, `HonestSettles`, `SearchEnds`,
`RequestsAnswered`), which is out of this prover's reach. Every invariant, action
property and refinement the passing runs check is also a theorem.

## Where code and comments disagree

Shown by a run:

- `checkpointBlockHash` does not revert for old blocks; with the zero hash it
  erases a checkpoint (327 against 329-335).
- The aggregation program verifies heads on the chain of
  `latest_l1_checkpoint_head` but commits the last range's `l1_head`, the only
  one the contract can compare (utils.rs 38 against main.rs 101).
- `find_block_by_timestamp` may return a block before the target when L1 had not
  reached it and grows during the search (fetcher.rs 171).
- The results of the header tasks are unwrapped, not filtered: a failed RPC makes
  the host panic (utils.rs 58 against 59).

Met while modelling, without a run: server.rs 108 (ABI-encoded public values are
read with bincode, in which the locked alloy-primitives 0.7.7 puts a length before each
hash: the handler panics on every request with proofs; agg.rs 54 decodes them as
ABI), sol 111 (`transferOwnership` emits no
`OwnershipTransferred`, 421-423), server.rs 80, multi.rs 94 and single.rs 54
("Overwrite existing data directory." only creates it), multi.rs 46 (`nb_blocks`
counts the starting block, which is not executed), single.rs 41 (`l2_block - 1`
wraps for block 0 where overflow is unchecked; the run then panics on the missing block), sol 328 (zero inputs do not checkpoint the
latest block), sol 31 (`l2BlockTime` is overwritten by the upgrade), sol 263
(proposals may skip past the next block), oracle/mod.rs 81 (blob elements pass
unchecked, 148-156),
utils.rs 27 (after a reorg the range ends in another block than the checkpoint;
the program then aborts, as `NoProofAcrossForks` requires), hasher.rs 18 (says
little-endian, reads big-endian).

## Not modelled

- Kona's derivation and execution, SP1, revm, the verifier contract: external.
- `precompiles`, the precompile hook, the hasher, `block_on`, statistics, the
  build script: stateless, formatting, or tables around revm's code.
- The deployment scripts: their one transaction, upgrade and `initialize`, is the
  first step of the contract's instances; the rest is configuration.
- The proposer and the prover network: not in the repository.
- Reverting calls and gas; reentrancy through the verifier gateway, a view call
  to a contract the owner chose.
