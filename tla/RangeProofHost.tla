---------------------------- MODULE RangeProofHost ----------------------------
(***************************************************************************)
(* The hosts that turn an L2 range into a proof: the handlers              *)
(* request_span_proof and get_proof_status of zkvm-host/bin/server.rs, the *)
(* command lines multi.rs, single.rs and fetch_and_save_proof.rs, with     *)
(* get_host_cli_args (host-utils/src/fetcher.rs), get_proof_stdin          *)
(* (host-utils/src/lib.rs) and load_kv_store (helpers.rs).                 *)
(*                                                                         *)
(* Several of them run at once: they share the nodes they read, the data   *)
(* directories and the proof files.  A run reads the arguments of its      *)
(* claim with one RPC each, while L1 grows and L2 may reorg; starts the    *)
(* native client, whose host writes every preimage the claim needs to the  *)
(* data directory; loads that directory; and has the program proved on it. *)
(*                                                                         *)
(* A preimage is named by its key: keys are hashes, so a file that is      *)
(* whole has the right content whoever wrote it.                           *)
(***************************************************************************)
EXTENDS Integers, ClosestBlock

CONSTANTS
  Runs,         \* the runs of the hosts
  Jobs,         \* what a run may be started for
  Forks,        \* L2 chains the L2 node may be on
  Derived,      \* the one that L1's data yields
  Height,       \* last block of each fork
  L2Block,      \* the block of each fork and number
  Storage,      \* storage hash of the message passer at each block
  L2Time, L1Time,   \* timestamps of L2 and of L1 blocks, by number
  IncludedIn,   \* the L1 block with the batch of each L2 number
  Margin,       \* the 600 seconds between claim and L1 head
  StartL1, MaxL1,   \* bounds on the latest L1 block
  Mod64,        \* u64 arithmetic is modulo this (2^64)
  NoKey

L1Numbers == 0 .. MaxL1
Numbers == DOMAIN L2Time
L2Blocks == {L2Block[f][n] : f \in Forks, n \in Numbers}
StorageHashes == {Storage[b] : b \in L2Blocks}

Keys == {<<"L1", n>> : n \in L1Numbers} \cup {<<"L2", b>> : b \in L2Blocks}

Job == [host : {"server", "multi", "single"}, start : Numbers, end : Numbers,
        use_cache : BOOLEAN, prove : BOOLEAN]

(* What get_host_cli_args reads; the latest L1 block while it searches.    *)
HostArgs ==
  [output_block : L2Blocks, output_storage : StorageHashes,
   claim_block : L2Blocks, claim_storage : StorageHashes,
   latest : L1Numbers, l1_head : L1Numbers]

ASSUME HostAssumption ==
  /\ Jobs \subseteq Job
  /\ \A j \in Jobs : j.host = "server" => ~j.use_cache
  /\ Derived \in Forks
  /\ Numbers \subseteq Nat /\ Height \in [Forks -> Numbers]
  /\ \A f \in Forks : 0 .. Height[f] \subseteq Numbers
  /\ L2Block \in [Forks -> [Numbers -> L2Blocks]]
  /\ \A f, g \in Forks : \A m, n \in Numbers :   \* a block has one number
       L2Block[f][m] = L2Block[g][n] => m = n
  /\ L2Time \in [Numbers -> Nat] /\ IncludedIn \in [Numbers -> Nat]
  /\ MaxL1 \in Nat /\ StartL1 \in L1Numbers
  /\ L1Time \in [L1Numbers -> Nat]
  /\ \A m, n \in L1Numbers : m < n => L1Time[m] < L1Time[n]
  /\ Margin \in Nat /\ Mod64 \in Nat \ {0}
  /\ NoKey \notin Keys

VARIABLES
  l2, reorgs, l1,      \* the L2 node's fork, and the latest L1 block
  job, pc, args,       \* of each run
  directories,         \* data directories that exist
  whole, partial,      \* their files: complete ones, half-written ones
  pending, writing,    \* preimages the native run still needs, and writes
  listed,              \* names load_kv_store has seen in the directory
  cache, damaged,      \* the keys it has read, and those read half-written
  proof_files,         \* the saved proofs, by range
  status_proofs,       \* history: proofs get_proof_status has answered
  reached,             \* history: had L1 passed the target of a run's search?
  alone, earlier       \* history: see CreateDirectory

nodeVars == <<l2, reorgs, l1>>
diskVars == <<directories, whole, partial>>
nativeVars == <<pending, writing>>
loadVars == <<listed, cache, damaged>>
proofVars == <<proof_files, status_proofs>>
historyVars == <<reached, alone, earlier>>
vars == <<nodeVars, job, pc, args, diskVars, nativeVars, loadVars, proofVars,
          historyVars>>

-----------------------------------------------------------------------------
(* l2_block_safe_head: single.rs subtracts one from the claimed block.     *)
SafeHead(r) ==
  IF job[r].host = "single" THEN (job[r].end + Mod64 - 1) % Mod64
                            ELSE job[r].start

(* Mutant, as are the ones below, which no action uses: a directory per    *)
(* claimed block.                                                          *)
DataDirByClaim(r) == <<"multi", 0, job[r].end>>

(* data/{chain}/single/{claim} and data/{chain}/multi/{start}-{claim}.     *)
DataDir(r) ==
  IF job[r].host = "single" THEN <<"single", 0, job[r].end>>
                            ELSE <<"multi", job[r].start, job[r].end>>

Dirs == {"single", "multi"} \X (Numbers \cup {0}) \X Numbers

(* Do two runs concern the same range and program?                         *)
SameRange(q, r) ==
  /\ (job[q].host = "single") <=> (job[r].host = "single")
  /\ SafeHead(q) = SafeHead(r) /\ job[q].end = job[r].end

(* The boot info of a run; an output root is the hash of the struct        *)
(* L2Output, that is of the block and the storage hash.                    *)
BootInfo(r) ==
  [l1_head        |-> args[r].l1_head,
   l2_output_root |-> <<args[r].output_block, args[r].output_storage>>,
   l2_claim       |-> <<args[r].claim_block, args[r].claim_storage>>,
   l2_claim_block |-> job[r].end]

RootOf(f, n) == <<L2Block[f][n], Storage[L2Block[f][n]]>>

(* What kona's program accepts: the roots are those of blocks of the chain *)
(* that L1 yields, the claim above the start, with its batch on L1 by the  *)
(* L1 head (see ValidityClient).                                           *)
Provable(info) ==
  /\ info.l2_claim = RootOf(Derived, info.l2_claim_block)
  /\ \E n \in Numbers : n < info.l2_claim_block
                          /\ info.l2_output_root = RootOf(Derived, n)
  /\ IncludedIn[info.l2_claim_block] <= info.l1_head

(* The preimages a run needs: the L1 headers from its head back to the     *)
(* origin of the start, and the state of every block it builds on.         *)
Needed(r) ==
  {<<"L1", n>> : n \in {m \in L1Numbers : /\ IncludedIn[SafeHead(r)] < m
                                          /\ m <= args[r].l1_head}}
    \cup {<<"L2", L2Block[Derived][n]>> :
            n \in {m \in Numbers : SafeHead(r) <= m /\ m < job[r].end}}

(* The program on what load_kv_store has read: verify() meets no damaged   *)
(* entry, nothing is missing, and the claim holds.                         *)
Accepted(r) ==
  /\ damaged[r] = {} /\ Needed(r) \subseteq cache[r]
  /\ Provable(BootInfo(r))

-----------------------------------------------------------------------------
Init ==
  /\ l2 \in Forks /\ reorgs = 0 /\ l1 \in StartL1 .. MaxL1
  /\ job \in [Runs -> Jobs]
  /\ pc = [r \in Runs |-> "output"]
  /\ args \in [Runs -> {[output_block   |-> L2Block[Derived][0],
                         output_storage |-> Storage[L2Block[Derived][0]],
                         claim_block    |-> L2Block[Derived][0],
                         claim_storage  |-> Storage[L2Block[Derived][0]],
                         latest |-> 0, l1_head |-> 0]}]
  /\ directories = {} /\ whole = {} /\ partial = {}
  /\ pending = [r \in Runs |-> {}] /\ writing = [r \in Runs |-> NoKey]
  /\ listed = [r \in Runs |-> {}] /\ cache = [r \in Runs |-> {}]
  /\ damaged = [r \in Runs |-> {}]
  /\ proof_files = <<>> /\ status_proofs = {}
  /\ reached = [r \in Runs |-> FALSE]
  /\ alone = [r \in Runs |-> TRUE] /\ earlier = [r \in Runs |-> {}]

Goto(r, from, to) == pc[r] = from /\ pc' = [pc EXCEPT ![r] = to]

(* get_host_cli_args: a block or the storage hash at it, read by number.   *)
Known(n) == n \in 0 .. Height[l2]

Read(r, field, value) ==
  /\ args' = [args EXCEPT ![r][field] = value]
  /\ UNCHANGED <<nodeVars, job, diskVars, nativeVars, loadVars, proofVars,
                 historyVars>>

ReadOutputBlock(r) ==
  /\ Goto(r, "output", "outputStorage") /\ Known(SafeHead(r))
  /\ Read(r, "output_block", L2Block[l2][SafeHead(r)])

(* Mutant: the block in place of its storage hash. *)
ReadOutputStorageAsBlock(r) ==
  /\ Goto(r, "outputStorage", "claim") /\ Known(SafeHead(r))
  /\ Read(r, "output_storage", L2Block[l2][SafeHead(r)])

ReadOutputStorage(r) ==
  /\ Goto(r, "outputStorage", "claim") /\ Known(SafeHead(r))
  /\ Read(r, "output_storage", Storage[L2Block[l2][SafeHead(r)]])

ReadClaimBlock(r) ==
  /\ Goto(r, "claim", "claimStorage") /\ Known(job[r].end)
  /\ Read(r, "claim_block", L2Block[l2][job[r].end])

(* Mutant: the storage hash of the wrong block. *)
ReadClaimStorageAtSafeHead(r) ==
  /\ Goto(r, "claimStorage", "latest") /\ Known(job[r].end)
  /\ Read(r, "claim_storage", Storage[L2Block[l2][SafeHead(r)]])

ReadClaimStorage(r) ==
  /\ Goto(r, "claimStorage", "latest") /\ Known(job[r].end)
  /\ Read(r, "claim_storage", Storage[L2Block[l2][job[r].end]])

(* find_block_by_timestamp as HeadSearch has it on an L1 that only grows,  *)
(* which FindBlock implements.                                             *)
Target(r) == L2Time[job[r].end] + Margin

ReadLatest(r) ==
  /\ Goto(r, "latest", "search")
  /\ Read(r, "latest", l1)

(* Mutants: the latest block, if it is late enough; the block after the    *)
(* latest one, always.                                                     *)
ClosestLatest(last, target) ==
  IF L1Time[last] >= target THEN last ELSE last + 1

ClosestAlwaysLast(last, target) == last + 1

Closest(last, target) == ClosestBlock(L1Time, last, target)

FindL1Head(r) ==
  /\ Goto(r, "search", "directory")
  /\ L1Time[0] <= Target(r)
  /\ Closest(args[r].latest, Target(r)) <= l1
  /\ args' = [args EXCEPT ![r].l1_head = Closest(args[r].latest, Target(r)),
                          ![r].latest = 0]
  /\ reached' = [reached EXCEPT ![r] = L1Time[args[r].latest] >= Target(r)]
  /\ UNCHANGED <<nodeVars, job, diskVars, nativeVars, loadVars, proofVars,
                 alone, earlier>>

(* The end of get_host_cli_args and create_dir_all: the directory exists,  *)
(* with the files it had.  With --use-cache the native run is skipped.     *)
(* History: is no other run of the range in the middle of a file (whether  *)
(* it still runs or has died there), and which ones have completed?        *)
NativeDone(q) == pc[q] \in {"list", "load", "stdin", "requested", "fulfilled",
                            "unfulfillable", "done"} /\ ~job[q].use_cache

CreateDirectory(r) ==
  /\ Goto(r, "directory", IF job[r].use_cache THEN "list" ELSE "native")
  /\ directories' = directories \cup {DataDir(r)}
  /\ pending' = [pending EXCEPT ![r] = IF job[r].use_cache THEN {} ELSE Needed(r)]
  /\ alone' = [alone EXCEPT ![r] =
       \A q \in Runs \ {r} : SameRange(q, r) => writing[q] = NoKey]
  /\ earlier' = [earlier EXCEPT ![r] =
       {q \in Runs \ {r} : SameRange(q, r) /\ NativeDone(q)}]
  /\ UNCHANGED <<nodeVars, job, args, whole, partial, writing, loadVars, proofVars,
                 reached>>

-----------------------------------------------------------------------------
(* The native client and its host, which are kona's: every preimage the    *)
(* client needs is found in the directory, or fetched and written.  A      *)
(* write is seen by others before it is complete, and may hit a file that  *)
(* is there already.                                                       *)
File(r, k) == <<DataDir(r), k>>

BeginWrite(r, k) ==
  /\ pc[r] = "native" /\ writing[r] = NoKey /\ k \in pending[r]
  /\ partial' = partial \cup {File(r, k)} /\ whole' = whole \ {File(r, k)}
  /\ writing' = [writing EXCEPT ![r] = k]
  /\ alone' = [q \in Runs |->
       alone[q] /\ ~(q # r /\ SameRange(q, r) /\ pc[q] \in {"native", "list", "load"})]
  /\ UNCHANGED <<nodeVars, job, pc, args, directories, pending, loadVars,
                 proofVars, reached, earlier>>

EndWrite(r) ==
  /\ pc[r] = "native" /\ writing[r] # NoKey
  /\ whole' = whole \cup {File(r, writing[r])}
  /\ partial' = partial \ {File(r, writing[r])}
  /\ writing' = [writing EXCEPT ![r] = NoKey]
  /\ pending' = [pending EXCEPT ![r] = @ \ {writing[r]}]
  /\ UNCHANGED <<nodeVars, job, pc, args, directories, loadVars, proofVars,
                 historyVars>>

FindFile(r, k) ==
  /\ pc[r] = "native" /\ writing[r] = NoKey /\ k \in pending[r]
  /\ File(r, k) \in whole
  /\ pending' = [pending EXCEPT ![r] = @ \ {k}]
  /\ UNCHANGED <<nodeVars, job, pc, args, diskVars, writing, loadVars,
                 proofVars, historyVars>>

(* Mutant: nobody waits for the native client. *)
NativeCompleteUnawaited(r) == Provable(BootInfo(r))

(* start_server_and_native_client returns Ok when the client, the same     *)
(* program run natively, has ended well.                                   *)
NativeComplete(r) ==
  pending[r] = {} /\ writing[r] = NoKey /\ Provable(BootInfo(r))

NativeEnd(r) ==
  /\ Goto(r, "native", "list") /\ NativeComplete(r)
  /\ UNCHANGED <<nodeVars, job, args, diskVars, nativeVars, loadVars, proofVars,
                 historyVars>>

-----------------------------------------------------------------------------
(* load_kv_store: read_dir, then one file after the other.                 *)
Present(r) == {k \in Keys : File(r, k) \in whole \cup partial}

ListFiles(r) ==
  /\ Goto(r, "list", "load") /\ DataDir(r) \in directories
  /\ listed' = [listed EXCEPT ![r] = Present(r)]
  /\ UNCHANGED <<nodeVars, job, args, diskVars, nativeVars, cache, damaged,
                 proofVars, historyVars>>

LoadFile(r, k) ==
  /\ pc[r] = "load" /\ k \in listed[r] \ cache[r]
  /\ cache' = [cache EXCEPT ![r] = @ \cup {k}]
  /\ damaged' = [damaged EXCEPT ![r] =
                   IF File(r, k) \in partial THEN @ \cup {k} ELSE @]
  /\ UNCHANGED <<nodeVars, job, pc, args, diskVars, nativeVars, listed,
                 proofVars, historyVars>>

LoadEnd(r) ==
  /\ Goto(r, "load", "stdin") /\ listed[r] \subseteq cache[r]
  /\ UNCHANGED <<nodeVars, job, args, diskVars, nativeVars, loadVars, proofVars,
                 historyVars>>

(* request_span_proof ends with the id of a request to the network.        *)
RequestProof(r) ==
  /\ job[r].host = "server" /\ Goto(r, "stdin", "requested")
  /\ UNCHANGED <<nodeVars, job, args, diskVars, nativeVars, loadVars, proofVars,
                 historyVars>>

(* Mutant: the file is named after the claimed block only. *)
ProofFileByClaim(r) == <<0, job[r].end>>

(* data/{chain}/proofs/{start}-{end}.bin                                   *)
ProofFile(r) == <<job[r].start, job[r].end>>

Save(r) ==
  proof_files' = [f \in DOMAIN proof_files \cup {ProofFile(r)} |->
                    IF f = ProofFile(r) THEN BootInfo(r) ELSE proof_files[f]]

(* multi.rs --prove proves and saves here; without it, and in single.rs,   *)
(* the program is executed only.                                           *)
RunLocally(r) ==
  /\ job[r].host # "server" /\ Goto(r, "stdin", "done") /\ Accepted(r)
  /\ IF job[r].host = "multi" /\ job[r].prove THEN Save(r)
                                              ELSE UNCHANGED proof_files
  /\ UNCHANGED <<nodeVars, job, args, diskVars, nativeVars, loadVars,
                 status_proofs, historyVars>>

(* The prover network, which may also give up. *)
NetworkProves(r) ==
  /\ Goto(r, "requested", "fulfilled") /\ Accepted(r)
  /\ UNCHANGED <<nodeVars, job, args, diskVars, nativeVars, loadVars, proofVars,
                 historyVars>>

NetworkGivesUp(r) ==
  /\ Goto(r, "requested", "unfulfillable")
  /\ UNCHANGED <<nodeVars, job, args, diskVars, nativeVars, loadVars, proofVars,
                 historyVars>>

(* get_proof_status: the proof once it is fulfilled, until then no bytes.  *)
GetProofStatus(r) ==
  /\ pc[r] = "fulfilled"
  /\ status_proofs' = status_proofs \cup {BootInfo(r)}
  /\ UNCHANGED <<nodeVars, job, pc, args, diskVars, nativeVars, loadVars,
                 proof_files, historyVars>>

(* fetch_and_save_proof with the id and the range of the request.          *)
FetchAndSaveProof(r) ==
  /\ pc[r] = "fulfilled" /\ Save(r)
  /\ UNCHANGED <<nodeVars, job, pc, args, diskVars, nativeVars, loadVars,
                 status_proofs, historyVars>>

-----------------------------------------------------------------------------
(* An unwrap, an expect or an overflow check fails on what has been read;  *)
(* in the server this ends the handler only.                               *)
Panic(r) ==
  /\ \/ pc[r] = "output" /\ ~Known(SafeHead(r))
     \/ pc[r] = "claim" /\ ~Known(job[r].end)
     \/ pc[r] = "search" /\ \/ L1Time[0] > Target(r)
                            \/ Closest(args[r].latest, Target(r)) > l1
     \/ pc[r] = "list" /\ DataDir(r) \notin directories
     \/ pc[r] = "stdin" /\ job[r].host # "server" /\ ~Accepted(r)
  /\ pc' = [pc EXCEPT ![r] = "panicked"]
  /\ UNCHANGED <<nodeVars, job, args, diskVars, nativeVars, loadVars, proofVars,
                 historyVars>>

(* What ends with an Err: an RPC, the data directory, the serialisation of *)
(* the store; in the server the native run and the request to the network. *)
(* A native run may die in the middle of a file.                           *)
Fail(r) ==
  /\ \/ pc[r] \in {"output", "outputStorage", "claim", "claimStorage", "latest",
                   "search", "directory", "stdin"}
     \/ pc[r] = "native" /\ job[r].host = "server"
  /\ pc' = [pc EXCEPT ![r] = "failed"]
  /\ UNCHANGED <<nodeVars, job, args, diskVars, nativeVars, loadVars, proofVars,
                 historyVars>>

(* What is unwrapped although it may fail: cargo metadata and the files of *)
(* the directory; in multi.rs and single.rs the native run and the prover. *)
FailUnwrapped(r) ==
  /\ \/ pc[r] \in {"directory", "list", "load"}
     \/ pc[r] \in {"native", "stdin"} /\ job[r].host # "server"
  /\ pc' = [pc EXCEPT ![r] = "hostPanicked"]
  /\ UNCHANGED <<nodeVars, job, args, diskVars, nativeVars, loadVars, proofVars,
                 historyVars>>

(* The nodes: L1 grows, L2 drops the blocks that L1's data does not yield. *)
GrowL1 ==
  /\ l1 < MaxL1 /\ l1' = l1 + 1
  /\ UNCHANGED <<l2, reorgs, job, pc, args, diskVars, nativeVars, loadVars,
                 proofVars, historyVars>>

ReorgL2 ==
  /\ l2 # Derived /\ l2' = Derived /\ reorgs' = reorgs + 1
  /\ UNCHANGED <<l1, job, pc, args, diskVars, nativeVars, loadVars, proofVars,
                 historyVars>>

ReadArgs(r) ==
  \/ ReadOutputBlock(r) \/ ReadOutputStorage(r) \/ ReadClaimBlock(r)
  \/ ReadClaimStorage(r) \/ ReadLatest(r) \/ FindL1Head(r) \/ CreateDirectory(r)

NativeRun(r) ==
  \/ \E k \in Keys : BeginWrite(r, k) \/ FindFile(r, k)
  \/ EndWrite(r) \/ NativeEnd(r)

LoadStore(r) == ListFiles(r) \/ (\E k \in Keys : LoadFile(r, k)) \/ LoadEnd(r)

Prove(r) ==
  \/ RequestProof(r) \/ RunLocally(r) \/ NetworkProves(r) \/ NetworkGivesUp(r)
  \/ GetProofStatus(r) \/ FetchAndSaveProof(r)

Step(r) == ReadArgs(r) \/ NativeRun(r) \/ LoadStore(r) \/ Panic(r)

Next ==
  \/ \E r \in Runs : Step(r) \/ Prove(r) \/ Fail(r) \/ FailUnwrapped(r)
  \/ GrowL1 \/ ReorgL2

Spec == Init /\ [][Next]_vars

(* Each run keeps going up to the request; nothing else owes anything.     *)
FairSpec == Spec /\ \A r \in Runs : WF_vars(Step(r))

-----------------------------------------------------------------------------
(* Every variable keeps its type: in particular the search yields an L1    *)
(* block that exists, and roots are hashes of blocks with storage hashes.  *)
Stages == {"output", "outputStorage", "claim", "claimStorage", "latest", "search",
           "directory", "native", "list", "load", "stdin", "requested",
           "fulfilled", "unfulfillable", "done", "panicked", "failed",
           "hostPanicked"}

TypeOK ==
  /\ l2 \in Forks /\ reorgs \in Nat /\ l1 \in L1Numbers
  /\ job \in [Runs -> Jobs] /\ pc \in [Runs -> Stages]
  /\ args \in [Runs -> HostArgs]
  /\ directories \subseteq Dirs
  /\ whole \subseteq Dirs \X Keys /\ partial \subseteq Dirs \X Keys
  /\ pending \in [Runs -> SUBSET Keys] /\ writing \in [Runs -> Keys \cup {NoKey}]
  /\ listed \in [Runs -> SUBSET Keys] /\ cache \in [Runs -> SUBSET Keys]
  /\ damaged \in [Runs -> SUBSET Keys]
  /\ DOMAIN proof_files \subseteq Numbers \X Numbers
  /\ reached \in [Runs -> BOOLEAN] /\ alone \in [Runs -> BOOLEAN]
  /\ earlier \in [Runs -> SUBSET Runs]

Loaded(r) ==
  pc[r] \in {"stdin", "requested", "fulfilled", "unfulfillable", "done"}

(* A run that has not skipped the native client loads every preimage its   *)
(* program needs, whatever other runs do to the shared directory.          *)
NativeStoreComplete ==
  \A r \in Runs : Loaded(r) /\ ~job[r].use_cache =>
    Needed(r) \subseteq cache[r]

(* Unless another run of the very same range wrote, or died writing, at    *)
(* the same time, the store loaded holds no half-written file, and the     *)
(* program accepts it: runs of other ranges or of the other program never  *)
(* disturb, an older run's files never hurt, and arguments read across a   *)
(* reorg do not come this far.                                             *)
UndisturbedStoreAccepted ==
  \A r \in Runs : Loaded(r) /\ alone[r] =>
    /\ damaged[r] = {}
    /\ ~job[r].use_cache => Accepted(r)

(* --use-cache is sound: the arguments are computed anew, and yet the      *)
(* store of an earlier complete run serves them, when L2 has not reorged   *)
(* and both searches saw an L1 block at or after the target.  How far L1   *)
(* has grown since must not matter.                                        *)
CacheServes ==
  reorgs = 0 =>
    \A r \in Runs : Loaded(r) /\ job[r].use_cache /\ alone[r] /\ reached[r] =>
      \A q \in earlier[r] : reached[q] =>
        BootInfo(q) = BootInfo(r) /\ Accepted(r)

(* A proof saved under a range is a proof of that range on the derived     *)
(* chain, and so is every proof get_proof_status hands out: although args  *)
(* may be read across a reorg, the store may be stale or half written, and *)
(* the file is named after the request and not after the proof.            *)
ProofsOfTheirRange ==
  /\ \A f \in DOMAIN proof_files :
       /\ Provable(proof_files[f])
       /\ proof_files[f].l2_claim_block = f[2]
       /\ proof_files[f].l2_output_root = RootOf(Derived, f[1])
  /\ \A info \in status_proofs : Provable(info)

(* While L2 does not reorg the two roots are those of the blocks asked     *)
(* for, on the chain of the node.                                          *)
RootsRead(r) == pc[r] \notin {"output", "outputStorage", "claim", "claimStorage",
                              "panicked", "failed", "hostPanicked"}

RootsOfOneChain ==
  reorgs = 0 =>
    \A r \in Runs : RootsRead(r) =>
      /\ BootInfo(r).l2_output_root = RootOf(l2, SafeHead(r))
      /\ BootInfo(r).l2_claim = RootOf(l2, job[r].end)

(* A request for a range the node has, when L1 has passed the target, gets *)
(* as far as its store, whatever the other runs do, unless an RPC, a file  *)
(* or the native run fails: no other unwrap or expect ends it.             *)
Answerable(r) ==
  /\ pc[r] = "output" /\ l2 = Derived
  /\ Known(SafeHead(r)) /\ Known(job[r].end) /\ SafeHead(r) < job[r].end
  /\ L1Time[0] <= Target(r) /\ L1Time[l1] >= Target(r)
  /\ \E n \in 0 .. l1 : n >= IncludedIn[job[r].end] /\ L1Time[n] <= Target(r)

RequestsAnswered ==
  \A r \in Runs : Answerable(r) ~> Loaded(r) \/ pc[r] \in {"failed", "hostPanicked"}
==============================================================================
