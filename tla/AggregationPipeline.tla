------------------------- MODULE AggregationPipeline -------------------------
(***************************************************************************)
(* From range proofs to an aggregation proof: the host, that is            *)
(* zkvm-host/bin/agg.rs or the handler request_agg_proof of                *)
(* zkvm-host/bin/server.rs, with fetch_header_preimages of                 *)
(* zkvm-host/src/utils.rs, and then the program of AggregationClient on    *)
(* the inputs the host has put together.                                   *)
(*                                                                         *)
(* The host reads L1 with one RPC per block, some by hash and the range of *)
(* headers by number in concurrent tasks, so L1 may grow or reorg between  *)
(* any two reads.  A block is identified with its hash and its header.     *)
(***************************************************************************)
EXTENDS Integers, Sequences, FiniteSets

CONSTANTS
  Blocks,       \* the L1 blocks of all forks
  Genesis, Parent, Number,   \* the first one, and parent and number of each
  NoBlock,      \* the parent of Genesis, and a header not read yet
  RpcFailed,    \* the result of a header task whose RPC failed
  MaxReorgs,    \* bound on the number of reorganisations
  Roots, ChainIds, BlockNumbers, ProvenInfos,   \* as in AggregationClient
  ProofLists,   \* the lists of range proofs the operator starts from
  FrontEnds,    \* "agg" and "server"
  None

Hashes == Blocks \cup {NoBlock}

VARIABLES
  tip, reorgs,        \* the L1 chain of the node
  front,              \* which program runs
  public_values,      \* the bytes committed by each range proof
  subproofs,          \* whether their files are read, and hold Compressed proofs
  latest_checkpoint_head_nb,   \* argument of agg.rs
  pc,
  next_info,          \* next boot info of the search for the earliest head
  start_header,       \* the earliest header so far, or NoBlock
  fetched,            \* the task of each block number and its result
  boot_infos, headers, latest_l1_checkpoint_head,   \* input of the program
  guest_pc, position, current_hash, l1_heads_map, committed,
  honest              \* history: what the operator started from was Honest

args == <<front, public_values, subproofs, latest_checkpoint_head_nb, honest>>
hostVars == <<args, pc, next_info, start_header, fetched>>
l1Vars == <<tip, reorgs>>
stdinVars == <<boot_infos, headers, latest_l1_checkpoint_head>>
guestVars == <<guest_pc, position, current_hash, l1_heads_map, committed>>
vars == <<hostVars, l1Vars, stdinVars, guestVars>>

Guest == INSTANCE AggregationClient WITH
           Headers <- Blocks, pc <- guest_pc,
           BootInfoLists <- ProofLists, HeaderLists <- {}, Checkpoints <- Blocks

(* Blocks form a tree of numbered blocks; every public value is a proven   *)
(* boot info.                                                              *)
ASSUME PipelineAssumption ==
  /\ Genesis \in Blocks /\ NoBlock \notin Blocks /\ RpcFailed \notin Hashes
  /\ Parent \in [Blocks -> Hashes] /\ Number \in [Blocks -> Nat]
  /\ Parent[Genesis] = NoBlock /\ Number[Genesis] = 0
  /\ \A b \in Blocks \ {Genesis} :
       Parent[b] \in Blocks /\ Number[b] = Number[Parent[b]] + 1
  /\ ProvenInfos \subseteq Guest!RawBootInfo /\ None \notin Guest!RawBootInfo
  /\ ProofLists \subseteq Seq(ProvenInfos)
  /\ FrontEnds \subseteq {"agg", "server"} /\ MaxReorgs \in Nat

-----------------------------------------------------------------------------
(* The five words of RawBootInfoStruct.                                    *)
AbiEncode(info) ==
  << info.l1_head, info.l2_output_root, info.l2_claim, info.l2_claim_block,
     info.chain_id >>

(* Mutant, as are the ones below, which no action uses: the number of the  *)
(* wrong word.                                                             *)
AbiDecodeShifted(words) ==
  [l1_head |-> words[1], l2_output_root |-> words[2], l2_claim |-> words[3],
   l2_claim_block |-> words[3], chain_id |-> words[5]]

AbiDecode(words) ==
  [l1_head |-> words[1], l2_output_root |-> words[2], l2_claim |-> words[3],
   l2_claim_block |-> words[4], chain_id |-> words[5]]

-----------------------------------------------------------------------------
(* A block and its ancestors. *)
ChainOf == [b \in Blocks |-> {h \in Blocks : Guest!OnChainOf(h, b)}]

Canonical(b) == b \in ChainOf[tip]
At(n) == CHOOSE b \in ChainOf[tip] : Number[b] = n

(* The proof files: all found, loaded and Compressed; one of them of       *)
(* another mode; or one missing or not readable.                           *)
SubproofKinds == {"compressed", "other", "unreadable"}

(* A list of proofs agg.rs should turn into an aggregation proof:          *)
(* consecutive ranges, proven at L1 heads of the chain, none of them above *)
(* the checkpoint.                                                         *)
InfoOf(i) == AbiDecode(public_values[i])

Honest ==
  /\ front = "agg" /\ public_values # <<>> /\ subproofs = "compressed"
  /\ latest_checkpoint_head_nb <= Number[tip]
  /\ \A i \in DOMAIN public_values :
       /\ i > 1 => Guest!Joined(InfoOf(i - 1), InfoOf(i))
       /\ Canonical(InfoOf(i).l1_head)
       /\ Number[InfoOf(i).l1_head] <= latest_checkpoint_head_nb

Init ==
  /\ tip \in Blocks /\ reorgs = 0
  /\ front \in FrontEnds
  /\ \E proofs \in ProofLists :
       public_values = [i \in DOMAIN proofs |-> AbiEncode(proofs[i])]
  /\ subproofs \in IF public_values = <<>> THEN {"compressed"} ELSE SubproofKinds
  /\ latest_checkpoint_head_nb \in {Number[b] : b \in Blocks}
  /\ latest_l1_checkpoint_head \in IF front = "server" THEN Blocks ELSE {NoBlock}
  /\ pc = "decode" /\ next_info = 1 /\ start_header = NoBlock
  /\ fetched = <<>> /\ boot_infos = <<>> /\ headers = <<>>
  /\ guest_pc = "sequence" /\ position = 0 /\ current_hash = NoBlock
  /\ l1_heads_map = <<>> /\ committed = None
  /\ honest = Honest

(* load_aggregation_proof_data, which panics on a file it cannot read.     *)
LoadProofs ==
  /\ pc = "decode" /\ front = "agg" /\ subproofs # "unreadable"
  /\ boot_infos' = [i \in DOMAIN public_values |-> AbiDecode(public_values[i])]
  /\ pc' = "checkpoint"
  /\ UNCHANGED <<args, next_info, start_header, fetched, headers,
                 latest_l1_checkpoint_head, l1Vars, guestVars>>

(* The handler reads the same bytes with bincode, where a hash has its     *)
(* length before it: the first read panics, if deserializing the proof has *)
(* not.  Only a request without proofs goes on.                            *)
ReadProofs ==
  /\ pc = "decode" /\ front = "server"
  /\ pc' = IF public_values = <<>> THEN "earliest" ELSE "panicked"
  /\ UNCHANGED <<args, next_info, start_header, fetched, stdinVars, l1Vars,
                 guestVars>>

(* get_header_by_number(latest_checkpoint_head_nb).hash_slow()             *)
ReadCheckpoint ==
  /\ pc = "checkpoint" /\ latest_checkpoint_head_nb <= Number[tip]
  /\ latest_l1_checkpoint_head' = At(latest_checkpoint_head_nb)
  /\ pc' = "earliest"
  /\ UNCHANGED <<args, next_info, start_header, fetched, boot_infos, headers,
                 l1Vars, guestVars>>

(* One iteration of get_earliest_l1_head_in_batch.  A node answers a hash  *)
(* of its chain, and may answer one it has abandoned.                      *)
Earlier(h) == start_header = NoBlock \/ Number[h] < Number[start_header]

ReadHead ==
  /\ pc = "earliest" /\ next_info <= Len(boot_infos)
  /\ boot_infos[next_info].l1_head \in Blocks
  /\ start_header' = IF Earlier(boot_infos[next_info].l1_head)
                       THEN boot_infos[next_info].l1_head ELSE start_header
  /\ next_info' = next_info + 1
  /\ UNCHANGED <<args, pc, fetched, stdinVars, l1Vars, guestVars>>

(* Mutant: the range ends before the checkpoint. *)
NumbersExclusive(first, last) == first .. last - 1

(* start_header.number ..= latest_header.number *)
NumbersToFetch(first, last) == first .. last

(* The header of the checkpoint is read and a task spawned per number.     *)
SpawnTasks ==
  /\ pc = "earliest" /\ next_info > Len(boot_infos) /\ start_header # NoBlock
  /\ fetched' = [n \in NumbersToFetch(Number[start_header],
                                      Number[latest_l1_checkpoint_head]) |-> NoBlock]
  /\ pc' = "headers"
  /\ UNCHANGED <<args, next_info, start_header, stdinVars, l1Vars, guestVars>>

(* One task: get_header_by_number, in any order.  The error of an RPC is   *)
(* the task's result, and no task waits for it.                            *)
FetchHeader(n) ==
  /\ pc = "headers" /\ fetched[n] = NoBlock /\ n <= Number[tip]
  /\ fetched' = [fetched EXCEPT ![n] = At(n)]
  /\ UNCHANGED <<args, pc, next_info, start_header, stdinVars, l1Vars, guestVars>>

HeaderRpcError(n) ==
  /\ pc = "headers" /\ fetched[n] = NoBlock
  /\ fetched' = [fetched EXCEPT ![n] = RpcFailed]
  /\ UNCHANGED <<args, pc, next_info, start_header, stdinVars, l1Vars, guestVars>>

(* The unwrap of a missing block panics inside the task: the others are    *)
(* not awaited, and the host returns the JoinError.                        *)
TaskPanics(n) ==
  /\ pc = "headers" /\ fetched[n] = NoBlock /\ n > Number[tip]
  /\ pc' = "taskPanicked"
  /\ UNCHANGED <<args, next_info, start_header, fetched, stdinVars, l1Vars, guestVars>>

(* try_join_all keeps the order of the tasks, not of their ends.           *)
AllFetched == \A n \in DOMAIN fetched : fetched[n] # NoBlock

HeaderRpcFailed == \E n \in DOMAIN fetched : fetched[n] = RpcFailed

InOrderOfNumber ==
  [i \in 1 .. Cardinality(DOMAIN fetched) |-> fetched[Number[start_header] + i - 1]]

(* The program gets its input: where AggregationClient starts.             *)
Submit ==
  /\ pc = "headers" /\ AllFetched /\ ~HeaderRpcFailed /\ subproofs = "compressed"
  /\ headers' = InOrderOfNumber
  /\ pc' = "submitted"
  /\ position' = Len(headers')
  /\ current_hash' = latest_l1_checkpoint_head
  /\ l1_heads_map' = [h \in Guest!Heads |-> FALSE]
  /\ UNCHANGED <<args, next_info, start_header, fetched, boot_infos,
                 latest_l1_checkpoint_head, l1Vars, guest_pc, committed>>

(* The panics of the host: a proof file it cannot read, a block the node   *)
(* does not have, no proofs, a header task that failed, a proof that is    *)
(* not Compressed.                                                         *)
MayLack(h) == h \notin Blocks \/ ~Canonical(h)

Panic ==
  /\ \/ pc = "decode" /\ front = "agg" /\ subproofs = "unreadable"
     \/ pc = "checkpoint" /\ latest_checkpoint_head_nb > Number[tip]
     \/ /\ pc = "earliest" /\ next_info <= Len(boot_infos)
        /\ MayLack(boot_infos[next_info].l1_head)
     \/ pc = "earliest" /\ next_info > Len(boot_infos) /\ start_header = NoBlock
     \/ /\ pc = "earliest" /\ next_info > Len(boot_infos)
        /\ MayLack(latest_l1_checkpoint_head)
     \/ pc = "headers" /\ AllFetched /\ (HeaderRpcFailed \/ subproofs = "other")
  /\ pc' = "panicked"
  /\ UNCHANGED <<args, next_info, start_header, fetched, stdinVars, l1Vars, guestVars>>

(* The other RPCs may fail too, and the host returns their error.  agg.rs  *)
(* asks for the chain id before it loads.                                  *)
RpcError ==
  /\ \/ pc = "decode" /\ front = "agg"
     \/ pc = "checkpoint"
     \/ pc = "earliest" /\ (next_info <= Len(boot_infos) \/ start_header # NoBlock)
  /\ pc' = "failed"
  /\ UNCHANGED <<args, next_info, start_header, fetched, stdinVars, l1Vars, guestVars>>

(* The program runs on what the host submitted.                            *)
RunGuest == pc = "submitted" /\ Guest!Next /\ UNCHANGED <<hostVars, l1Vars>>

(* L1 appends a block, or moves to a block of another fork.                *)
Grow ==
  /\ tip' \in {b \in Blocks \ {Genesis} : Parent[b] = tip}
  /\ UNCHANGED <<reorgs, hostVars, stdinVars, guestVars>>

Reorg ==
  /\ reorgs < MaxReorgs
  /\ tip' \in {b \in Blocks : b \notin ChainOf[tip] /\ tip \notin ChainOf[b]}
  /\ reorgs' = reorgs + 1
  /\ UNCHANGED <<hostVars, stdinVars, guestVars>>

HostStep ==
  \/ LoadProofs \/ ReadProofs \/ ReadCheckpoint \/ ReadHead \/ SpawnTasks
  \/ \E n \in DOMAIN fetched : FetchHeader(n) \/ TaskPanics(n)
  \/ Submit \/ Panic

Next ==
  \/ HostStep \/ RpcError \/ \E n \in DOMAIN fetched : HeaderRpcError(n)
  \/ RunGuest \/ Grow \/ Reorg

Spec == Init /\ [][Next]_vars

(* The host and the program keep running; L1 and the RPCs owe nothing.     *)
FairSpec == Spec /\ WF_vars(HostStep) /\ WF_vars(RunGuest)

-----------------------------------------------------------------------------
(* The inputs of the program have the types AggregationClient expects, at  *)
(* every stage of the host.                                                *)
TypeOK ==
  /\ tip \in Blocks /\ reorgs \in 0 .. MaxReorgs
  /\ pc \in {"decode", "checkpoint", "earliest", "headers", "submitted",
             "panicked", "taskPanicked", "failed"}
  /\ next_info \in 1 .. Len(public_values) + 1
  /\ start_header \in Hashes
  /\ DOMAIN fetched \subseteq Nat
  /\ \A n \in DOMAIN fetched : fetched[n] \in Hashes \cup {RpcFailed}
  /\ boot_infos \in Seq(Guest!RawBootInfo)
  /\ headers \in Seq(Blocks)
  /\ latest_l1_checkpoint_head \in Hashes
  /\ committed \in Guest!RawBootInfo \cup {None}
  /\ honest \in BOOLEAN

(* While L1 does not reorg, an honest list makes neither the host nor one  *)
(* of its tasks panic, unless the RPC of a header task failed, nor does it *)
(* make the program abort: the earliest head is found, the range of        *)
(* headers covers every head and arrives in the order the program walks    *)
(* it, whatever the order of the tasks and however L1 grows.               *)
HonestNeverAborts ==
  reorgs = 0 /\ honest =>
    /\ pc = "panicked" => HeaderRpcFailed
    /\ pc # "taskPanicked" /\ guest_pc # "aborted"

(* And it ends with an aggregation proof unless L1 reorgs or an RPC fails. *)
HonestSettles ==
  honest /\ [](reorgs = 0 /\ pc # "failed" /\ ~HeaderRpcFailed)
    => <>(guest_pc = "done")

(* Headers read by number on both sides of a reorg are never proved from:  *)
(* when the program commits, every header lies on the chain of the         *)
(* checkpoint, from the earliest head up to the checkpoint itself.         *)
NoProofAcrossForks ==
  guest_pc = "done" =>
    /\ headers # <<>> /\ headers[Len(headers)] = latest_l1_checkpoint_head
    /\ \A i \in DOMAIN headers : headers[i] \in ChainOf[latest_l1_checkpoint_head]
    /\ \A h \in Guest!Heads : h \in ChainOf[latest_l1_checkpoint_head]

-----------------------------------------------------------------------------
(* fetch_header_preimages: "Collect the results, filtering out any         *)
(* errors".  So, whatever RPC of a header task fails, the host does not    *)
(* panic on the list of results.                                           *)
ErrorsFilteredOut ==
  HeaderRpcFailed /\ subproofs = "compressed" => pc # "panicked"
==============================================================================
