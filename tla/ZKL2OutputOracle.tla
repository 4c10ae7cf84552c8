--------------------------- MODULE ZKL2OutputOracle ---------------------------
(***************************************************************************)
(* The settlement contract contracts/src/ZKL2OutputOracle.sol: the L1      *)
(* contract that keeps the list of L2 output roots, accepts a new root     *)
(* when an SP1 proof connects it to the last accepted one, and lets the    *)
(* challenger delete roots that are not finalised yet.                     *)
(*                                                                         *)
(* One action is one transaction that does not revert; a transaction that  *)
(* reverts changes nothing and is no step.  The block context              *)
(* (block.timestamp, block.number, blockhash) moves with NextL1Block, so   *)
(* any number of transactions share an L1 block, in any order.             *)
(*                                                                         *)
(* Indices of l2Outputs are the contract's, from 0; TLA+ sequences start   *)
(* at 1, hence the "+ 1" wherever the array is read.                       *)
(***************************************************************************)
EXTENDS Integers, Sequences

CONSTANTS
  Accounts,      \* addresses that send transactions (address(0) never does)
  Gateways,      \* addresses of SP1 verifier gateways
  ZeroAddress,   \* address(0)
  Words,         \* bytes32: output roots, block hashes, verification keys
  ZeroWord,      \* bytes32(0)
  ClaimRoots,    \* the output roots callers pass to proposeL2Output
  ClaimBlocks,   \* the L2 block numbers callers pass
  ClaimHeads,    \* the L1 block hashes callers pass
  NewVKeys,      \* the verification keys the owner sets
  ChainIds,      \* L2 chain ids
  Verifies,      \* <<gateway, vkey, public values>> a proof is accepted for
  WholeOnL1,     \* statements no accepted proof of which joins a range from
                 \* another fork behind an L1 head that is on L1
  CanonicalOutputs,  \* <<chain id, block number, root>> of the L2 chains
                     \* that the L1 chain L1Hash determines
  InitParams,    \* the argument tuples initialize may be called with
  ProxyStorage,  \* the storage the proxy may hold before the upgrade
  L1Hash,        \* the hash of each L1 block
  Window,        \* how far back the BLOCKHASH opcode reaches (256)
  Mod128,        \* uint128 arithmetic is modulo this (2^128)
  StartTime, StartL1Block,   \* the block context when the model starts
  MaxTime, MaxL1Block,       \* bounds of the model on the L1 chain
  TimeSteps,     \* seconds between two L1 blocks
  NoProof        \* marks an output no proof was asked for (seed, legacy)

Addresses == Accounts \cup Gateways \cup {ZeroAddress}
L1Numbers == 0 .. MaxL1Block

(* The struct an SP1 proof commits to. *)
PublicValues ==
  [l1Head : Words, l2PreRoot : Words, claimRoot : Words,
   claimBlockNum : Nat, chainId : ChainIds]

OutputProposal == [outputRoot : Words, timestamp : Nat, l2BlockNumber : Nat]

(* The configuration slots of the contract. *)
Config ==
  [submissionInterval : Nat, l2BlockTime : Nat,
   startingBlockNumber : Nat, startingTimestamp : Nat,
   proposer : Addresses, challenger : Addresses,
   finalizationPeriodSeconds : Nat, chainId : ChainIds]

(* The arguments of initialize: the configuration and the ZKInitParams. *)
InitializeArgs ==
  [config : Config, startingOutputRoot : Words,
   owner : Addresses, vkey : Words, verifierGateway : Addresses]

(* Mutants, here and below: one plausible mistake in the definition that   *)
(* follows each; no action uses them.  A cast to a narrower type.          *)
U128Narrow(x) == x % (Mod128 \div 2)

(* uint128(x) *)
U128(x) == x % Mod128

(* Block numbers strictly increase along the list and timestamps never     *)
(* decrease.                                                               *)
Ordered(outputs) ==
  \A i, j \in DOMAIN outputs : i < j =>
    /\ outputs[i].l2BlockNumber < outputs[j].l2BlockNumber
    /\ outputs[i].timestamp <= outputs[j].timestamp

ASSUME AddressAssumption == ZeroAddress \notin Accounts \cup Gateways

ASSUME InputAssumption ==
  /\ ZeroWord \in Words
  /\ ClaimRoots \subseteq Words
  /\ ClaimBlocks \subseteq Nat
  /\ ClaimHeads \subseteq Words
  /\ NewVKeys \subseteq Words
  /\ InitParams \subseteq InitializeArgs
  /\ NoProof \notin PublicValues

ASSUME ChainAssumption ==
  /\ Mod128 \in Nat \ {0}
  /\ Window \in Nat \ {0}
  /\ StartTime \in Nat /\ MaxTime \in Nat /\ StartTime <= MaxTime
  /\ MaxL1Block \in Nat /\ StartL1Block \in L1Numbers
  /\ TimeSteps \subseteq Nat \ {0}
  /\ L1Hash \in [L1Numbers -> Words \ {ZeroWord}]

(* A proof never has the zero hash as its L1 head: the head it commits to  *)
(* is the keccak hash of a header.                                         *)
ASSUME ProofAssumption ==
  \A p \in Verifies : p[3].l1Head # ZeroWord

(* What a verified proof says, when the program behind its key is the      *)
(* range program or the aggregation of its proofs, and all the ranges it   *)
(* joins were derived from heads on L1: a canonical root leads to the      *)
(* canonical root of the claimed block.  From any other L1 head, or from   *)
(* another root, it says nothing about this chain.                         *)
(*                                                                         *)
(* The committed values name one L1 head only, that of the last range, and *)
(* the aggregation program does not tie the heads of the other ranges to   *)
(* it.  WholeOnL1 marks the statements for which that is no matter: a      *)
(* single range's, an aggregation's whose heads lie on the chain of the    *)
(* committed one, one made by agg.rs while L1 only grows (see              *)
(* AggregationClientProofs!WholeSound and                                  *)
(* AggregationPipelineProofs!SettlesSound).  Of the others nothing is      *)
(* assumed.                                                                *)
CanonicalRoot(chain, root) ==
  \E output \in CanonicalOutputs : output[1] = chain /\ output[3] = root

SoundStatement(values) ==
  (\E n \in L1Numbers : values.l1Head = L1Hash[n])
    /\ CanonicalRoot(values.chainId, values.l2PreRoot) =>
  <<values.chainId, values.claimBlockNum, values.claimRoot>> \in CanonicalOutputs

ASSUME SoundnessAssumption ==
  \A p \in Verifies : p[3] \in WholeOnL1 => SoundStatement(p[3])

(* No block number or timestamp of the model reaches 2^128.                *)
ASSUME WidthAssumption ==
  /\ MaxTime < Mod128
  /\ \A a \in InitParams :
       a.config.startingBlockNumber + MaxTime < Mod128

(* Before the upgrade the proxy holds nothing, or the storage of the       *)
(* contract it is upgraded from.                                           *)
ASSUME StorageAssumption ==
  \A s \in ProxyStorage :
    /\ s.l2Outputs \in Seq(OutputProposal)
    /\ s.config \in Config
    /\ s.initialized \in {0, 1}
    /\ Ordered(s.l2Outputs)
    /\ s.config.startingBlockNumber + MaxTime < Mod128
    /\ \A i \in DOMAIN s.l2Outputs : s.l2Outputs[i].timestamp <= StartTime

-----------------------------------------------------------------------------
VARIABLES
  l2Outputs,            \* OutputProposal[]
  config,               \* the slots initialize writes
  initialized,          \* the version reinitializer keeps
  owner, vkey, verifierGateway,
  historicBlockHashes,  \* mapping from L1 block number to checkpointed hash
  now, l1Number,        \* block.timestamp and block.number
  attested,             \* history: the public values each output was proven with
  replayed              \* history: the list an observer rebuilds from the events

outputVars  == <<l2Outputs, attested, replayed>>
adminVars   == <<owner, vkey, verifierGateway>>
setupVars   == <<config, initialized>>
contextVars == <<now, l1Number>>
vars == <<outputVars, adminVars, setupVars, contextVars, historicBlockHashes>>

Init ==
  /\ \E s \in ProxyStorage :
       /\ l2Outputs = s.l2Outputs
       /\ config = s.config
       /\ initialized = s.initialized
       /\ attested = [i \in 1 .. Len(s.l2Outputs) |-> NoProof]
       /\ replayed = s.l2Outputs
  /\ owner = ZeroAddress
  /\ vkey = ZeroWord /\ verifierGateway = ZeroAddress
  /\ historicBlockHashes = [n \in L1Numbers |-> ZeroWord]
  /\ now = StartTime /\ l1Number = StartL1Block

-----------------------------------------------------------------------------
(* Views of the contract. *)

nextOutputIndex == Len(l2Outputs)

latestBlockNumber ==
  IF l2Outputs = <<>> THEN config.startingBlockNumber
                      ELSE l2Outputs[Len(l2Outputs)].l2BlockNumber

nextBlockNumber == latestBlockNumber + config.submissionInterval

computeL2Timestamp(n) ==
  config.startingTimestamp
    + (n - config.startingBlockNumber) * config.l2BlockTime

(* Mutant: the search steps over an output at the very block.              *)
IndexAfterLoopInclusive(n) ==
  LET search[bounds \in (0 .. nextOutputIndex) \X (0 .. nextOutputIndex)] ==
        LET mid == (bounds[1] + bounds[2]) \div 2
        IN  IF bounds[1] >= bounds[2] THEN bounds[1]
            ELSE IF l2Outputs[mid + 1].l2BlockNumber <= n
                   THEN search[<<mid + 1, bounds[2]>>]
                   ELSE search[<<bounds[1], mid>>]
  IN  search[<<0, nextOutputIndex>>]

(* The loop of getL2OutputIndexAfter: the index where lo meets hi.         *)
IndexAfterLoop(n) ==
  LET search[bounds \in (0 .. nextOutputIndex) \X (0 .. nextOutputIndex)] ==
        LET lo  == bounds[1]
            hi  == bounds[2]
            mid == (lo + hi) \div 2
        IN  IF lo >= hi THEN lo
            ELSE IF l2Outputs[mid + 1].l2BlockNumber < n
                   THEN search[<<mid + 1, hi>>]
                   ELSE search[<<lo, mid>>]
  IN  search[<<0, nextOutputIndex>>]

(* blockhash(n): zero unless n is one of the last Window blocks.           *)
BlockHash(n) ==
  IF n < l1Number /\ n >= l1Number - Window THEN L1Hash[n] ELSE ZeroWord

-----------------------------------------------------------------------------
(* Mutants: an upgrade starts the list afresh; the seed lies one interval  *)
(* before the first block.                                                 *)
SeededOutputsAfresh(a) ==
  << [outputRoot    |-> a.startingOutputRoot,
      timestamp     |-> U128(a.config.startingTimestamp),
      l2BlockNumber |-> U128(a.config.startingBlockNumber)] >>

SeededOutputsBefore(a) ==
  IF l2Outputs = <<>>
    THEN << [outputRoot    |-> a.startingOutputRoot,
             timestamp     |-> U128(a.config.startingTimestamp),
             l2BlockNumber |-> a.config.startingBlockNumber
                                 - a.config.submissionInterval] >>
    ELSE l2Outputs

(* The first output, unless the proxy holds some already.                  *)
SeededOutputs(a) ==
  IF l2Outputs = <<>>
    THEN << [outputRoot    |-> a.startingOutputRoot,
             timestamp     |-> U128(a.config.startingTimestamp),
             l2BlockNumber |-> U128(a.config.startingBlockNumber)] >>
    ELSE l2Outputs

SeededAttested ==
  IF l2Outputs = <<>> THEN <<NoProof>> ELSE attested

(* The starting block and time are kept when outputs exist already.        *)
InitializedConfig(a) ==
  IF l2Outputs = <<>>
    THEN a.config
    ELSE [a.config EXCEPT !.startingBlockNumber = config.startingBlockNumber,
                          !.startingTimestamp   = config.startingTimestamp]

(* Mutant: any call initializes. *)
reinitializerMissing(version) == TRUE

(* The modifier of OpenZeppelin's Initializable: each version once.        *)
reinitializer(version) == initialized < version

(* initialize: an upgrade of the proxy and this call are one transaction.  *)
Initialize(a) ==
  /\ reinitializer(2)
  /\ a.config.submissionInterval > 0
  /\ a.config.l2BlockTime > 0
  /\ a.config.startingTimestamp <= now
  /\ initialized' = 2
  /\ l2Outputs' = SeededOutputs(a)
  /\ attested' = SeededAttested
  /\ replayed' = SeededOutputs(a)     \* an observer reads the list once here
  /\ config' = InitializedConfig(a)
  /\ owner' = a.owner
  /\ vkey' = a.vkey
  /\ verifierGateway' = a.verifierGateway
  /\ UNCHANGED <<contextVars, historicBlockHashes>>

(* Mutant: an output may be deleted at the very end of its period.         *)
NotFinalizedInclusive(i) ==
  now - l2Outputs[i + 1].timestamp <= config.finalizationPeriodSeconds

NotFinalized(i) ==
  now - l2Outputs[i + 1].timestamp < config.finalizationPeriodSeconds

(* deleteL2Outputs: the array length is set to the index.                  *)
DeleteL2Outputs(sender, i) ==
  /\ initialized = 2
  /\ sender = config.challenger
  /\ i < Len(l2Outputs)
  /\ l2Outputs[i + 1].timestamp <= now      \* checked subtraction
  /\ NotFinalized(i)
  /\ l2Outputs' = SubSeq(l2Outputs, 1, i)
  /\ attested' = SubSeq(attested, 1, i)
  /\ replayed' = SubSeq(replayed, 1, i)     \* OutputsDeleted(prev, i)
  /\ UNCHANGED <<adminVars, setupVars, contextVars, historicBlockHashes>>

(* proposeL2Output. *)
MayPropose(sender) ==
  sender = config.proposer \/ config.proposer = ZeroAddress

(* Mutants: above the latest block instead of the next one; without the    *)
(* test that the L2 block lies in the past.                                *)
BlockInRangeAboveLatest(blk) ==
  /\ blk > latestBlockNumber
  /\ blk >= config.startingBlockNumber
  /\ computeL2Timestamp(blk) < now

BlockInRangeAnyTime(blk) ==
  blk >= nextBlockNumber /\ blk >= config.startingBlockNumber

BlockInRange(blk) ==
  /\ blk >= nextBlockNumber
  /\ blk >= config.startingBlockNumber      \* checked subtraction
  /\ computeL2Timestamp(blk) < now

(* Mutant: an empty slot accepts every hash. *)
CheckpointedOrEmpty(n, hash) == historicBlockHashes[n] \in {hash, ZeroWord}

Checkpointed(n, hash) == historicBlockHashes[n] = hash

(* Mutants: the proof starts from the first output; from the claim itself. *)
ProposedValuesFromFirst(root, blk, hash) ==
  [l1Head |-> hash, l2PreRoot |-> l2Outputs[1].outputRoot,
   claimRoot |-> root, claimBlockNum |-> blk, chainId |-> config.chainId]

ProposedValuesFromClaim(root, blk, hash) ==
  [l1Head |-> hash, l2PreRoot |-> root,
   claimRoot |-> root, claimBlockNum |-> blk, chainId |-> config.chainId]

(* The struct proposeL2Output fills; it reads the last output, so an empty *)
(* list reverts before it is built.                                        *)
ProposedValues(root, blk, hash) ==
  [l1Head |-> hash,
   l2PreRoot |-> l2Outputs[nextOutputIndex].outputRoot,
   claimRoot |-> root,
   claimBlockNum |-> blk,
   chainId |-> config.chainId]

(* Mutant: an output gets the time of its L2 block. *)
StoredOutputAtL2Time(root, blk) ==
  [outputRoot |-> root, timestamp |-> U128(computeL2Timestamp(blk)),
   l2BlockNumber |-> U128(blk)]

StoredOutput(root, blk) ==
  [outputRoot |-> root, timestamp |-> U128(now), l2BlockNumber |-> U128(blk)]

(* What an observer adds on OutputProposed: the event names the index the  *)
(* output takes, and carries the untruncated number and time.              *)
ObservedProposal(root, blk) ==
  Append(SubSeq(replayed, 1, nextOutputIndex),
         [outputRoot |-> root, timestamp |-> now, l2BlockNumber |-> blk])

ProposeL2Output(sender, root, blk, n, hash) ==
  /\ initialized = 2
  /\ MayPropose(sender)
  /\ BlockInRange(blk)
  /\ root # ZeroWord
  /\ vkey # ZeroWord
  /\ Checkpointed(n, hash)
  /\ l2Outputs # <<>>                       \* nextOutputIndex() - 1
  /\ <<verifierGateway, vkey, ProposedValues(root, blk, hash)>> \in Verifies
  /\ l2Outputs' = Append(l2Outputs, StoredOutput(root, blk))
  /\ attested' = Append(attested, ProposedValues(root, blk, hash))
  /\ replayed' = ObservedProposal(root, blk)
  /\ UNCHANGED <<adminVars, setupVars, contextVars, historicBlockHashes>>

CheckpointBlockHash(n, hash) ==
  /\ initialized = 2
  /\ BlockHash(n) = hash
  /\ historicBlockHashes' = [historicBlockHashes EXCEPT ![n] = hash]
  /\ UNCHANGED <<outputVars, adminVars, setupVars, contextVars>>

(* The owner's calls.  transferOwnership writes the slot and emits nothing. *)
OnlyOwner(sender) == initialized = 2 /\ sender = owner

TransferOwnership(sender, newOwner) ==
  /\ OnlyOwner(sender)
  /\ owner' = newOwner
  /\ UNCHANGED <<outputVars, vkey, verifierGateway, setupVars, contextVars,
                 historicBlockHashes>>

UpdateVKey(sender, key) ==
  /\ OnlyOwner(sender)
  /\ vkey' = key
  /\ UNCHANGED <<outputVars, owner, verifierGateway, setupVars, contextVars,
                 historicBlockHashes>>

UpdateVerifierGateway(sender, gateway) ==
  /\ OnlyOwner(sender)
  /\ verifierGateway' = gateway
  /\ UNCHANGED <<outputVars, owner, vkey, setupVars, contextVars,
                 historicBlockHashes>>

(* L1 appends a block. *)
NextL1Block ==
  /\ l1Number < MaxL1Block
  /\ \E d \in TimeSteps : now + d <= MaxTime /\ now' = now + d
  /\ l1Number' = l1Number + 1
  /\ UNCHANGED <<outputVars, adminVars, setupVars, historicBlockHashes>>

Next ==
  \/ \E a \in InitParams : Initialize(a)
  \/ \E sender \in Accounts, i \in 0 .. Len(l2Outputs) :
       DeleteL2Outputs(sender, i)
  \/ \E sender \in Accounts, root \in ClaimRoots, blk \in ClaimBlocks,
        n \in L1Numbers, hash \in ClaimHeads :
       ProposeL2Output(sender, root, blk, n, hash)
  \/ \E n \in L1Numbers, hash \in ClaimHeads : CheckpointBlockHash(n, hash)
  \/ \E sender \in Accounts, a \in Addresses : TransferOwnership(sender, a)
  \/ \E sender \in Accounts, key \in NewVKeys : UpdateVKey(sender, key)
  \/ \E sender \in Accounts, g \in Gateways : UpdateVerifierGateway(sender, g)
  \/ NextL1Block

Spec == Init /\ [][Next]_vars

-----------------------------------------------------------------------------
(* Every slot of the contract, the block context and the history variables *)
(* keep their types, and the history runs parallel to the output list.     *)
TypeOK ==
  /\ l2Outputs \in Seq(OutputProposal)
  /\ config \in Config
  /\ initialized \in 0 .. 2
  /\ owner \in Addresses
  /\ vkey \in Words /\ verifierGateway \in Addresses
  /\ historicBlockHashes \in [L1Numbers -> Words]
  /\ now \in 0 .. MaxTime /\ l1Number \in L1Numbers
  /\ attested \in Seq(PublicValues \cup {NoProof})
  /\ Len(attested) = Len(l2Outputs)
  /\ replayed \in Seq(OutputProposal)

(* Through any mix of proposals and deletions, across the upgrade and the  *)
(* uint128 truncation of proposeL2Output, block numbers strictly increase  *)
(* along the list, timestamps never decrease and none lies in the future:  *)
(* what the binary search and the finalisation test both assume.           *)
OutputsOrdered ==
  /\ Ordered(l2Outputs)
  /\ \A i \in DOMAIN l2Outputs : l2Outputs[i].timestamp <= now

IsProved(i) == attested[i] # NoProof

(* Every output proposeL2Output accepted is still in the list together     *)
(* with the very output its proof starts from: the pre-root proven from is *)
(* the root now stored one place before it, the claimed root, number and   *)
(* chain are the stored ones, and only a prefix of the list (the seed or   *)
(* the outputs from before the upgrade) is unproved.  Deleting in the      *)
(* middle and proposing again must not break a link.                       *)
ProofChain ==
  \A i \in DOMAIN l2Outputs : IsProved(i) =>
    /\ i > 1
    /\ attested[i].l2PreRoot     = l2Outputs[i - 1].outputRoot
    /\ attested[i].claimRoot     = l2Outputs[i].outputRoot
    /\ attested[i].claimBlockNum = l2Outputs[i].l2BlockNumber
    /\ attested[i].chainId       = config.chainId
    /\ \A j \in DOMAIN l2Outputs : i < j => IsProved(j)

(* The L1 head of every accepted proof is the hash of an L1 block that was *)
(* already in the past, although checkpoints can be overwritten, erased    *)
(* and never expire, and although the zero hash passes the comparison with *)
(* an empty slot of historicBlockHashes.                                   *)
AnchoredOnL1 ==
  \A i \in DOMAIN l2Outputs : IsProved(i) =>
    \E n \in L1Numbers : n < l1Number /\ attested[i].l1Head = L1Hash[n]

(* Two consecutive outputs are at least submissionInterval L2 blocks apart *)
(* when the second was proposed here: behind a legacy output at a shorter  *)
(* interval, and after the tail was deleted and proposed again.            *)
SpacedBySubmissionInterval ==
  \A i \in DOMAIN l2Outputs : IsProved(i) /\ i > 1 =>
    l2Outputs[i].l2BlockNumber
      >= l2Outputs[i - 1].l2BlockNumber + config.submissionInterval

(* An output is never older than the L2 block it commits to: its L1        *)
(* timestamp, from which the finalisation period runs, is later than the   *)
(* time computeL2Timestamp gives that block.                               *)
ProposedAfterL2Block ==
  \A i \in DOMAIN l2Outputs : IsProved(i) =>
    computeL2Timestamp(l2Outputs[i].l2BlockNumber) < l2Outputs[i].timestamp

(* For every block number up to the latest, the binary search of           *)
(* getL2OutputIndexAfter returns the first output at or above the block.   *)
SearchFindsCheckpoint ==
  \A n \in ClaimBlocks : n <= latestBlockNumber /\ l2Outputs # <<>> =>
    LET index == IndexAfterLoop(n)
    IN  /\ index < Len(l2Outputs)
        /\ l2Outputs[index + 1].l2BlockNumber >= n
        /\ \A i \in 1 .. index : l2Outputs[i].l2BlockNumber < n

(* An observer that starts from the list at the upgrade and applies        *)
(* OutputProposed and OutputsDeleted in order has the contract's list: the *)
(* indices and the untruncated values in the events agree with storage.    *)
EventsReplayOutputs == replayed = l2Outputs

IsCanonical(output) ==
  <<config.chainId, output.l2BlockNumber, output.outputRoot>>
    \in CanonicalOutputs

(* If the outputs no proof was asked for (the seed, the outputs from       *)
(* before the upgrade) are canonical, so is every output up to the first   *)
(* one whose proof is not WholeOnL1, at its own block number, although     *)
(* proofs of forked roots, of other chains and from L1 heads that are not  *)
(* on L1 verify as well: the stored pre-root, the chain id and the         *)
(* checkpoint shut them out together.  A proof that joins a foreign range  *)
(* spoils what is built on it, and nothing once it is deleted.             *)
ProvedWhole(i) == IsProved(i) => attested[i] \in WholeOnL1

OutputsCanonical ==
  (\A i \in DOMAIN l2Outputs : ~IsProved(i) => IsCanonical(l2Outputs[i])) =>
    \A i \in DOMAIN l2Outputs :
      (\A j \in 1 .. i : ProvedWhole(j)) => IsCanonical(l2Outputs[i])

-----------------------------------------------------------------------------
Finalized(i) ==
  now - l2Outputs[i].timestamp >= config.finalizationPeriodSeconds

(* No transaction removes or rewrites an output whose finalisation period, *)
(* the one in force before the transaction, has passed.  deleteL2Outputs   *)
(* tests only the first output it deletes, so this rests on the order of   *)
(* the timestamps behind it.                                               *)
FinalizedStep ==
  \A i \in DOMAIN l2Outputs : Finalized(i) =>
    /\ i \in DOMAIN l2Outputs'
    /\ l2Outputs'[i] = l2Outputs[i]

FinalizedStable == [][FinalizedStep]_vars

(* Once the challenger has deleted output 0 the list stays empty for good: *)
(* initialize cannot run again and proposeL2Output reads the last output,  *)
(* so no later transaction adds one.                                       *)
EmptyIsAbsorbing ==
  [][initialized = 2 /\ l2Outputs = <<>> => l2Outputs' = <<>>]_vars

(* What the contract promises with proofs, checkpoints and administration  *)
(* left out: see CheckpointLog.                                            *)
LogEntry(output) ==
  [root |-> output.outputRoot, time |-> output.timestamp,
   block |-> output.l2BlockNumber]

LogView(outputs) == [i \in DOMAIN outputs |-> LogEntry(outputs[i])]

Log == INSTANCE CheckpointLog WITH
         Roots  <- Words,
         log    <- LogView(l2Outputs),
         clock  <- now,
         period <- config.finalizationPeriodSeconds,
         open   <- initialized = 2

(* Every step of the contract is a step of the abstract checkpoint log, or *)
(* leaves the log as it is.                                                *)
ImplementsCheckpointLog == Log!Spec

-----------------------------------------------------------------------------
(* A statement of the source's comments that the code does not keep.       *)

(* checkpointBlockHash: "Block number must be in the past 256 blocks or    *)
(* this will revert", so no other entry ever changes.                      *)
OnlyRecentCheckpointsChange ==
  [][\A n \in L1Numbers :
       historicBlockHashes'[n] # historicBlockHashes[n] =>
         n < l1Number /\ n >= l1Number - Window]_vars
==============================================================================
