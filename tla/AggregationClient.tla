-------------------------- MODULE AggregationClient --------------------------
(***************************************************************************)
(* The aggregation program, aggregation-client/src/main.rs.  It reads a    *)
(* list of boot infos (one per range proof), a checkpointed L1 head and a  *)
(* list of L1 headers, checks that they fit together, and commits to one   *)
(* boot info for the whole range.  The host that supplies the inputs is    *)
(* not trusted: any inputs may come.                                       *)
(*                                                                         *)
(* A header is identified with its hash; Parent is its parent_hash field,  *)
(* which may name a block nobody has a header for.  A failed assertion     *)
(* ends the program without a proof (Abort).                               *)
(***************************************************************************)
EXTENDS Integers, Sequences

CONSTANTS
  Headers,      \* the L1 headers that exist, on all forks
  Hashes,       \* block hashes
  Parent,       \* parent hash of each header
  Roots,        \* L2 output roots
  ChainIds,
  BlockNumbers, \* L2 block numbers
  ProvenInfos,  \* the boot infos a range proof under the hardcoded key exists for
  BootInfoLists, HeaderLists, Checkpoints,  \* the inputs the host may supply
  None          \* nothing committed

RawBootInfo ==
  [l1_head : Hashes, l2_output_root : Roots, l2_claim : Roots,
   l2_claim_block : BlockNumbers, chain_id : ChainIds]

ASSUME AggregationAssumption ==
  /\ Headers \subseteq Hashes
  /\ Parent \in [Headers -> Hashes]
  /\ ProvenInfos \subseteq RawBootInfo
  /\ BootInfoLists \subseteq Seq(RawBootInfo)
  /\ HeaderLists \subseteq Seq(Headers)
  /\ Checkpoints \subseteq Hashes
  /\ None \notin RawBootInfo

VARIABLES
  boot_infos, headers, latest_l1_checkpoint_head,   \* the inputs
  pc,            \* the stage of main
  position,      \* next header of the reversed iteration, 0 when it is over
  current_hash,  \* the hash the next header must have
  l1_heads_map,  \* which L1 heads have been met so far
  committed      \* the public values, or None

inputs == <<boot_infos, headers, latest_l1_checkpoint_head>>
loopVars == <<position, current_hash, l1_heads_map>>
vars == <<inputs, pc, loopVars, committed>>

Heads == {boot_infos[i].l1_head : i \in DOMAIN boot_infos}

Init ==
  /\ boot_infos \in BootInfoLists
  /\ headers \in HeaderLists
  /\ latest_l1_checkpoint_head \in Checkpoints
  /\ pc = "sequence"
  /\ position = Len(headers)
  /\ current_hash = latest_l1_checkpoint_head
  /\ l1_heads_map = [h \in Heads |-> FALSE]
  /\ committed = None

-----------------------------------------------------------------------------
(* Mutant, as are the ones below, which no action uses: consecutive infos  *)
(* need only agree on the chain.                                           *)
JoinedByChain(prev, next) == prev.chain_id = next.chain_id

(* Non-empty, and consecutive infos joined by root and chain id.           *)
Joined(prev, next) ==
  prev.l2_claim = next.l2_output_root /\ prev.chain_id = next.chain_id

Sequential ==
  /\ boot_infos # <<>>
  /\ \A i \in DOMAIN boot_infos :
       i > 1 => Joined(boot_infos[i - 1], boot_infos[i])

CheckSequence ==
  /\ pc = "sequence" /\ Sequential
  /\ pc' = "proofs"
  /\ UNCHANGED <<inputs, loopVars, committed>>

(* verify_sp1_proof on the encoded boot info of every range.               *)
AllProven == \A i \in DOMAIN boot_infos : boot_infos[i] \in ProvenInfos

VerifyProofs ==
  /\ pc = "proofs" /\ AllProven
  /\ pc' = "headers"
  /\ UNCHANGED <<inputs, loopVars, committed>>

(* Mutant: the hash of the header is not checked. *)
HeaderMatchesAny == TRUE

HeaderMatches == headers[position] = current_hash

(* Mutant: the head itself is never marked, only its ancestors. *)
MarkFoundParent ==
  [h \in DOMAIN l1_heads_map |->
     l1_heads_map[h] \/ h = Parent[headers[position]]]

MarkFound ==
  [h \in DOMAIN l1_heads_map |-> l1_heads_map[h] \/ h = current_hash]

(* Mutant: the headers are walked forwards. *)
VisitHeaderForward ==
  /\ pc = "headers" /\ position > 0 /\ HeaderMatches
  /\ l1_heads_map' = MarkFound
  /\ current_hash' = Parent[headers[position]]
  /\ position' = position + 1
  /\ UNCHANGED <<inputs, pc, committed>>

(* One iteration over headers.iter().rev().                                *)
VisitHeader ==
  /\ pc = "headers" /\ position > 0 /\ HeaderMatches
  /\ l1_heads_map' = MarkFound
  /\ current_hash' = Parent[headers[position]]
  /\ position' = position - 1
  /\ UNCHANGED <<inputs, pc, committed>>

AllFound == \A h \in DOMAIN l1_heads_map : l1_heads_map[h]

CheckHeads ==
  /\ pc = "headers" /\ position = 0 /\ AllFound
  /\ pc' = "commit"
  /\ UNCHANGED <<inputs, loopVars, committed>>

(* The consolidated boot info: the first pre-root, the rest from the last. *)
Consolidated ==
  LET last == boot_infos[Len(boot_infos)]
  IN  [l2_output_root |-> boot_infos[1].l2_output_root,
       l2_claim_block |-> last.l2_claim_block,
       l2_claim       |-> last.l2_claim,
       l1_head        |-> last.l1_head,
       chain_id       |-> last.chain_id]

Commit ==
  /\ pc = "commit"
  /\ committed' = Consolidated
  /\ pc' = "done"
  /\ UNCHANGED <<inputs, loopVars>>

(* A failed assertion, at the stage it belongs to. *)
Abort ==
  /\ \/ pc = "sequence" /\ ~Sequential
     \/ pc = "proofs" /\ ~AllProven
     \/ pc = "headers" /\ position > 0 /\ ~HeaderMatches
     \/ pc = "headers" /\ position = 0 /\ ~AllFound
  /\ pc' = "aborted"
  /\ UNCHANGED <<inputs, loopVars, committed>>

Next ==
  CheckSequence \/ VerifyProofs \/ VisitHeader \/ CheckHeads \/ Commit \/ Abort

Spec == Init /\ [][Next]_vars

-----------------------------------------------------------------------------
(* The inputs keep their types and the loop stays inside the header list.  *)
TypeOK ==
  /\ boot_infos \in Seq(RawBootInfo) /\ headers \in Seq(Headers)
  /\ latest_l1_checkpoint_head \in Hashes
  /\ pc \in {"sequence", "proofs", "headers", "commit", "done", "aborted"}
  /\ position \in 0 .. Len(headers)
  /\ current_hash \in Hashes
  /\ l1_heads_map \in [Heads -> BOOLEAN]
  /\ committed \in RawBootInfo \cup {None}

(* h is from or one of its ancestors: in every set that holds from and,    *)
(* with a header, its parent.                                              *)
ClosedUnderParent(S) == \A b \in Headers \cap S : Parent[b] \in S

OnChainOf(h, from) ==
  \A S \in SUBSET Hashes : from \in S /\ ClosedUnderParent(S) => h \in S

(* A commitment is made only when the L1 head of every boot info is the    *)
(* checkpointed head or an ancestor of it, whatever headers the host       *)
(* supplied: the walk over the headers must not be led off the chain.      *)
HeadsOnCheckpointChain ==
  committed # None =>
    \A h \in Heads : OnChainOf(h, latest_l1_checkpoint_head)

(* The committed range is a path of proven ranges: from its pre-root to    *)
(* its claim every root is reached by a range proof, all on the committed  *)
(* chain, and the claimed block belongs to the claimed root.               *)
Reaches(pre, post, chain) ==
  \A S \in SUBSET Roots :
    /\ pre \in S
    /\ \A p \in ProvenInfos :
         p.chain_id = chain /\ p.l2_output_root \in S => p.l2_claim \in S
    => post \in S

CommittedIsProvenPath ==
  committed # None =>
    /\ Reaches(committed.l2_output_root, committed.l2_claim, committed.chain_id)
    /\ \E p \in ProvenInfos :
         /\ p.l2_claim = committed.l2_claim
         /\ p.l2_claim_block = committed.l2_claim_block
         /\ p.l1_head = committed.l1_head /\ p.chain_id = committed.chain_id

(* What an input must be for an aggregation proof to exist: the headers,   *)
(* in ascending order, are a chain that ends in the checkpointed head, and *)
(* every L1 head is among them.                                            *)
LinkedToCheckpoint ==
  \A i \in DOMAIN headers :
    headers[i] = IF i = Len(headers) THEN latest_l1_checkpoint_head
                                     ELSE Parent[headers[i + 1]]

Acceptable ==
  /\ Sequential /\ AllProven /\ LinkedToCheckpoint
  /\ \A h \in Heads : \E i \in DOMAIN headers : headers[i] = h

(* The program rejects nothing acceptable and accepts nothing else.        *)
AcceptsExactly ==
  /\ pc = "done" => Acceptable /\ committed = Consolidated
  /\ pc = "aborted" => ~Acceptable

(* zkvm-host/src/utils.rs: "the latest L1 Head (which is validated on      *)
(* chain)".  The settlement contract validates the committed l1_head, so   *)
(* every range's L1 head would have to be on the chain of that one.        *)
HeadsOnCommittedChain ==
  committed # None => \A h \in Heads : OnChainOf(h, committed.l1_head)
==============================================================================
