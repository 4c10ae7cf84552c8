------------------------ MODULE AggregationClientProofs ------------------------
(***************************************************************************)
(* Machine-checked theorems about AggregationClient, for every header tree *)
(* and every input the host may supply.                                    *)
(***************************************************************************)
EXTENDS AggregationClient, WellFoundedInduction, TLAPS

(* What the reversed walk over the headers has established: the headers    *)
(* already visited are linked up to the checkpointed head, the hash        *)
(* expected next is the parent of the last one, and a head is marked       *)
(* exactly when it was visited.                                            *)
Expected(i) ==
  IF i = Len(headers) THEN latest_l1_checkpoint_head ELSE Parent[headers[i + 1]]

Visited(i) == i \in position + 1 .. Len(headers)

WalkInv ==
  /\ current_hash = Expected(position)
  /\ \A i \in 1 .. Len(headers) : Visited(i) => headers[i] = Expected(i)
  /\ \A h \in Heads :
       l1_heads_map[h] <=> \E i \in 1 .. Len(headers) : Visited(i) /\ headers[i] = h
  /\ OnChainOf(current_hash, latest_l1_checkpoint_head)
  /\ \A h \in Heads :
       l1_heads_map[h] => OnChainOf(h, latest_l1_checkpoint_head)

(* What each stage of main knows. *)
StageInv ==
  /\ pc \in {"sequence", "proofs"} => position = Len(headers)
  /\ pc \in {"proofs", "headers", "commit", "done"} => Sequential
  /\ pc \in {"headers", "commit", "done"} => AllProven
  /\ pc \in {"commit", "done"} => position = 0 /\ AllFound
  /\ pc = "done" => committed = Consolidated
  /\ pc # "done" => committed = None
  /\ pc = "aborted" => ~Acceptable

IInv == TypeOK /\ WalkInv /\ StageInv

LEMMA InitIInv == Init => IInv
<1> SUFFICES ASSUME Init PROVE IInv
  OBVIOUS
<1>1. /\ boot_infos \in Seq(RawBootInfo) /\ headers \in Seq(Headers)
      /\ latest_l1_checkpoint_head \in Hashes /\ position = Len(headers)
      /\ Len(headers) \in Nat
  BY AggregationAssumption DEF Init
<1>2. TypeOK
  BY <1>1 DEF Init, TypeOK
<1>3. WalkInv
  <2>1. current_hash = Expected(position)
    BY <1>1 DEF Init, Expected
  <2>2. \A i : ~Visited(i)
    BY <1>1 DEF Visited
  <2>3. \A h \in Heads : ~l1_heads_map[h]
    BY DEF Init
  <2>4. OnChainOf(current_hash, latest_l1_checkpoint_head)
    BY DEF OnChainOf, Init
  <2> QED
    BY <2>1, <2>2, <2>3, <2>4 DEF WalkInv
<1>4. StageInv
  BY DEF Init, StageInv
<1> QED
  BY <1>2, <1>3, <1>4 DEF IInv

(* One header of the walk. *)
LEMMA VisitIInv == ASSUME IInv, VisitHeader PROVE IInv'
<1>1. /\ headers \in Seq(Headers) /\ position \in 1 .. Len(headers)
      /\ Len(headers) \in Nat
      /\ current_hash = headers[position] /\ current_hash \in Headers
      /\ position' = position - 1
      /\ current_hash' = Parent[headers[position]]
      /\ l1_heads_map \in [Heads -> BOOLEAN]
      /\ l1_heads_map' = [h \in Heads |-> l1_heads_map[h] \/ h = current_hash]
      /\ UNCHANGED <<inputs, pc, committed>>
      /\ pc = "headers"
  BY DEF VisitHeader, HeaderMatches, MarkFound, IInv, TypeOK
<1>2. Heads' = Heads /\ headers' = headers
      /\ latest_l1_checkpoint_head' = latest_l1_checkpoint_head
      /\ boot_infos' = boot_infos
  BY <1>1 DEF Heads, inputs
<1>3. current_hash' \in Hashes
  BY <1>1, AggregationAssumption
<1>4. TypeOK'
  <2>1. l1_heads_map' \in [Heads' -> BOOLEAN]
    BY <1>1, <1>2
  <2>2. position' \in 0 .. Len(headers')
    BY <1>1, <1>2
  <2> QED
    BY <1>1, <1>2, <1>3, <2>1, <2>2 DEF TypeOK, IInv
<1>5. \A i \in 1 .. Len(headers) : Visited(i)' <=> Visited(i) \/ i = position
  BY <1>1, <1>2 DEF Visited
<1>6. \A i : Expected(i)' = Expected(i)
  BY <1>2 DEF Expected
<1>7. WalkInv'
  <2>1. current_hash' = Expected(position)'
    <3>1. position' # Len(headers') /\ position' + 1 = position
      BY <1>1, <1>2
    <3> QED
      BY <1>1, <1>2, <3>1 DEF Expected
  <2>2. \A i \in 1 .. Len(headers') : Visited(i)' => headers'[i] = Expected(i)'
    BY <1>1, <1>2, <1>5, <1>6 DEF IInv, WalkInv
  <2>3. \A h \in Heads' :
          l1_heads_map'[h] <=>
            \E i \in 1 .. Len(headers') : Visited(i)' /\ headers'[i] = h
    BY <1>1, <1>2, <1>5 DEF IInv, WalkInv
  <2>4. OnChainOf(current_hash', latest_l1_checkpoint_head)
    BY <1>1 DEF IInv, WalkInv, OnChainOf, ClosedUnderParent
  <2>5. \A h \in Heads :
          l1_heads_map'[h] => OnChainOf(h, latest_l1_checkpoint_head)
    BY <1>1 DEF IInv, WalkInv
  <2> QED
    BY <1>2, <2>1, <2>2, <2>3, <2>4, <2>5 DEF WalkInv, OnChainOf, ClosedUnderParent
<1>8. StageInv'
  <2>1. Sequential' /\ AllProven' /\ committed' = None /\ pc' = "headers"
    BY <1>1, <1>2 DEF IInv, StageInv, Sequential, AllProven
  <2> QED
    BY <2>1 DEF StageInv
<1> QED
  BY <1>4, <1>7, <1>8 DEF IInv

(* The stages that only move on. *)
LEMMA StageIInv ==
  ASSUME IInv, CheckSequence \/ VerifyProofs \/ CheckHeads \/ Commit
  PROVE  IInv'
<1>1. UNCHANGED <<inputs, loopVars>>
  BY DEF CheckSequence, VerifyProofs, CheckHeads, Commit
<1>2. /\ UNCHANGED <<boot_infos, headers, latest_l1_checkpoint_head>>
      /\ UNCHANGED <<position, current_hash, l1_heads_map>>
      /\ Heads' = Heads
  BY <1>1 DEF inputs, loopVars, Heads
<1>3. /\ Sequential' = Sequential /\ AllProven' = AllProven
      /\ AllFound' = AllFound /\ Consolidated' = Consolidated
  BY <1>2 DEF Sequential, AllProven, AllFound, Consolidated
<1>4. WalkInv'
  BY <1>2 DEF IInv, WalkInv, Expected, Visited, OnChainOf, ClosedUnderParent
<1>5. StageInv'
  BY <1>2, <1>3
  DEF IInv, StageInv, CheckSequence, VerifyProofs, CheckHeads, Commit
<1>6. TypeOK'
  <2>1. committed' \in RawBootInfo \cup {None}
    <3>1. CASE Commit
      <4>1. /\ boot_infos \in Seq(RawBootInfo) /\ boot_infos # <<>>
            /\ committed' = Consolidated
        BY <3>1 DEF IInv, TypeOK, StageInv, Commit, Sequential
      <4>2. /\ boot_infos[1] \in RawBootInfo
            /\ boot_infos[Len(boot_infos)] \in RawBootInfo
        BY <4>1
      <4> QED
        BY <4>1, <4>2 DEF Consolidated, RawBootInfo
    <3>2. CASE committed' = committed
      BY <3>2 DEF IInv, TypeOK
    <3> QED
      BY <3>1, <3>2 DEF CheckSequence, VerifyProofs, CheckHeads
  <2>2. pc' \in {"proofs", "headers", "commit", "done"}
    BY DEF CheckSequence, VerifyProofs, CheckHeads, Commit
  <2> QED
    BY <1>2, <2>1, <2>2 DEF IInv, TypeOK
<1> QED
  BY <1>4, <1>5, <1>6 DEF IInv

(* An assertion fails only on inputs that are not acceptable. *)
LEMMA AbortIInv == ASSUME IInv, Abort PROVE IInv'
<1>1. /\ UNCHANGED <<boot_infos, headers, latest_l1_checkpoint_head>>
      /\ UNCHANGED <<position, current_hash, l1_heads_map, committed>>
      /\ pc' = "aborted" /\ pc # "done"
      /\ Heads' = Heads
  BY DEF Abort, inputs, loopVars, Heads
<1>2. TypeOK'
  BY <1>1 DEF IInv, TypeOK
<1>3. WalkInv'
  BY <1>1 DEF IInv, WalkInv, Expected, Visited, OnChainOf, ClosedUnderParent
<1>4. ~Acceptable
  <2>1. CASE ~Sequential \/ ~AllProven
    BY <2>1 DEF Acceptable
  <2>2. CASE pc = "headers" /\ position > 0 /\ ~HeaderMatches
    <3>1. position \in DOMAIN headers /\ headers \in Seq(Headers)
      BY <2>2 DEF IInv, TypeOK
    <3>2. headers[position] # Expected(position)
      BY <2>2 DEF IInv, WalkInv, HeaderMatches
    <3> QED
      BY <3>1, <3>2 DEF Acceptable, LinkedToCheckpoint, Expected
  <2>3. CASE pc = "headers" /\ position = 0 /\ ~AllFound
    <3>1. PICK h \in Heads : ~l1_heads_map[h]
      BY <2>3 DEF AllFound, IInv, TypeOK
    <3>2. headers \in Seq(Headers)
      BY DEF IInv, TypeOK
    <3>3. \A i \in 1 .. Len(headers) : Visited(i)
      BY <2>3 DEF Visited
    <3>4. \A i \in 1 .. Len(headers) : headers[i] # h
      BY <3>1, <3>3 DEF IInv, WalkInv
    <3> QED
      BY <3>2, <3>4 DEF Acceptable
  <2> QED
    BY <2>1, <2>2, <2>3 DEF Abort
<1>5. StageInv'
  <2>1. Acceptable' = Acceptable
    BY <1>1 DEF Acceptable, Sequential, AllProven, LinkedToCheckpoint, Heads
  <2>2. committed = None
    BY <1>1 DEF IInv, StageInv
  <2> QED
    BY <1>1, <1>4, <2>1, <2>2 DEF StageInv
<1> QED
  BY <1>2, <1>3, <1>5 DEF IInv

LEMMA NextIInv == IInv /\ [Next]_vars => IInv'
<1> SUFFICES ASSUME IInv, [Next]_vars PROVE IInv'
  OBVIOUS
<1>1. CASE CheckSequence \/ VerifyProofs \/ CheckHeads \/ Commit
  BY <1>1, StageIInv
<1>2. CASE VisitHeader
  BY <1>2, VisitIInv
<1>3. CASE Abort
  BY <1>3, AbortIInv
<1>4. CASE UNCHANGED vars
  <2>1. /\ UNCHANGED <<boot_infos, headers, latest_l1_checkpoint_head, pc>>
        /\ UNCHANGED <<position, current_hash, l1_heads_map, committed>>
    BY <1>4 DEF vars, inputs, loopVars
  <2>2. TypeOK'
    BY <2>1 DEF IInv, TypeOK, Heads
  <2>3. WalkInv'
    BY <2>1 DEF IInv, WalkInv, Heads, Expected, Visited, OnChainOf,
                ClosedUnderParent
  <2>4. StageInv'
    <3>1. /\ Sequential' = Sequential /\ AllProven' = AllProven
          /\ AllFound' = AllFound /\ Consolidated' = Consolidated
          /\ Acceptable' = Acceptable
      BY <2>1 DEF Sequential, AllProven, AllFound, Consolidated, Acceptable,
                  LinkedToCheckpoint, Heads
    <3> QED
      BY <2>1, <3>1 DEF IInv, StageInv
  <2> QED
    BY <2>2, <2>3, <2>4 DEF IInv
<1> QED
  BY <1>1, <1>2, <1>3, <1>4 DEF Next

LEMMA Invariance == Spec => []IInv
<1>1. Init => IInv
  BY InitIInv
<1>2. IInv /\ [Next]_vars => IInv'
  BY NextIInv
<1> QED
  BY <1>1, <1>2, PTL DEF Spec

(* No choice of headers leads the walk off the checkpointed chain: when    *)
(* the program commits, every range's L1 head is on that chain.            *)
THEOREM HeadsVerified == Spec => []HeadsOnCheckpointChain
<1>1. IInv => HeadsOnCheckpointChain
  <2> SUFFICES ASSUME IInv, committed # None, NEW h \in Heads
               PROVE  OnChainOf(h, latest_l1_checkpoint_head)
    BY DEF HeadsOnCheckpointChain
  <2>1. AllFound
    BY DEF IInv, StageInv
  <2>2. l1_heads_map[h]
    BY <2>1 DEF AllFound, IInv, TypeOK
  <2> QED
    BY <2>2 DEF IInv, WalkInv
<1> QED
  BY <1>1, Invariance, PTL

(* The program commits on exactly the acceptable inputs, to the            *)
(* consolidated boot info, and aborts on the others.                       *)
THEOREM AcceptanceExact == Spec => []AcceptsExactly
<1>1. IInv => AcceptsExactly
  <2> SUFFICES ASSUME IInv, pc = "done" PROVE Acceptable
    BY DEF IInv, StageInv, AcceptsExactly
  <2>1. /\ position = 0 /\ AllFound /\ Sequential /\ AllProven
        /\ headers \in Seq(Headers)
    BY DEF IInv, StageInv, TypeOK
  <2>2. \A i \in 1 .. Len(headers) : Visited(i)
    BY <2>1 DEF Visited
  <2>3. \A i \in 1 .. Len(headers) : headers[i] = Expected(i)
    BY <2>2 DEF IInv, WalkInv
  <2>4. LinkedToCheckpoint
    BY <2>1, <2>3 DEF LinkedToCheckpoint, Expected
  <2>5. \A h \in Heads : l1_heads_map[h]
    BY <2>1 DEF AllFound, IInv, TypeOK
  <2>6. \A h \in Heads : \E i \in DOMAIN headers : headers[i] = h
    BY <2>1, <2>5 DEF IInv, WalkInv
  <2> QED
    BY <2>1, <2>4, <2>6 DEF Acceptable
<1> QED
  BY <1>1, Invariance, PTL

-----------------------------------------------------------------------------
(* Induction along the list of ranges: a set of positions that is not      *)
(* empty has a first one, as < is well founded on Nat.                     *)
Less == {p \in Nat \X Nat : p[1] < p[2]}

LEMMA LeastPosition ==
  ASSUME NEW T, T \subseteq Nat, T # {}
  PROVE  \E x \in T : \A y \in T : x <= y
<1>1. IsWellFoundedOn({p \in Nat \X Nat : p[1] < p[2]}, Nat)
  BY NatLessThanWellFounded DEF OpToRel
<1>2. IsWellFoundedOn(Less, Nat)
  BY <1>1 DEF Less
<1>3. PICK x \in T : \A y \in T : ~(<<y, x>> \in Less)
  BY <1>2, WFMin
<1>4. \A y, z \in Nat : <<y, z>> \in Less <=> y < z
  BY DEF Less
<1>5. \A y \in T : ~(y < x)
  BY <1>3, <1>4
<1>6. \A y \in T : x <= y
  BY <1>5
<1> QED
  BY <1>6

(* What holds of the first position, and of each one if of the one before  *)
(* it, holds of all.                                                       *)
LEMMA AlongTheList ==
  ASSUME NEW n \in Nat, NEW Good \in SUBSET (1 .. n),
         n >= 1 => 1 \in Good,
         \A i \in 2 .. n : i - 1 \in Good => i \in Good
  PROVE  Good = 1 .. n
<1> DEFINE Bad == (1 .. n) \ Good
<1>1. SUFFICES ASSUME Bad # {} PROVE FALSE
  OBVIOUS
<1>2. Bad \subseteq Nat
  OBVIOUS
<1>3. PICK i \in Bad : \A j \in Bad : i <= j
  BY <1>1, <1>2, LeastPosition
<1>4. i \in 1 .. n /\ i \notin Good
  OBVIOUS
<1>5. i \in 2 .. n
  BY <1>4
<1>6. i - 1 \in 1 .. n /\ ~(i <= i - 1)
  BY <1>5
<1>7. i - 1 \in Good
  BY <1>3, <1>6
<1> QED
  BY <1>4, <1>5, <1>7

(* Consecutive ranges are all on the chain of the last.                    *)
LEMMA OneChain ==
  ASSUME boot_infos \in Seq(RawBootInfo), Sequential
  PROVE  \A i \in 1 .. Len(boot_infos) :
           boot_infos[i].chain_id = boot_infos[Len(boot_infos)].chain_id
<1> DEFINE n == Len(boot_infos)
           Good == {i \in 1 .. n : boot_infos[i].chain_id = boot_infos[1].chain_id}
<1>1. n \in Nat /\ n >= 1
  BY DEF Sequential
<1>2. 1 \in Good
  BY <1>1
<1>3. ASSUME NEW i \in 2 .. n, i - 1 \in Good PROVE i \in Good
  <2>1. i \in 1 .. n /\ i > 1 /\ i \in DOMAIN boot_infos
    BY <1>1, <1>3
  <2>2. boot_infos[i - 1].chain_id = boot_infos[i].chain_id
    BY <2>1 DEF Sequential, Joined
  <2>3. boot_infos[i - 1].chain_id = boot_infos[1].chain_id
    BY <1>3
  <2> QED
    BY <2>1, <2>2, <2>3
<1>4. Good \in SUBSET (1 .. n)
  OBVIOUS
<1> HIDE DEF Good
<1>5. Good = 1 .. n
  BY <1>1, <1>2, <1>3, <1>4, AlongTheList
<1>6. n \in Good
  BY <1>1, <1>5
<1> QED
  BY <1>5, <1>6 DEF Good

(* Every claim of the list is reached from the first pre-root.             *)
LEMMA ClaimsReached ==
  ASSUME boot_infos \in Seq(RawBootInfo), Sequential, AllProven,
         NEW i \in 1 .. Len(boot_infos)
  PROVE  Reaches(boot_infos[1].l2_output_root, boot_infos[i].l2_claim,
                 boot_infos[Len(boot_infos)].chain_id)
<1> DEFINE n == Len(boot_infos)
           chain == boot_infos[n].chain_id
<1> SUFFICES ASSUME NEW S \in SUBSET Roots,
                    boot_infos[1].l2_output_root \in S,
                    \A p \in ProvenInfos :
                      p.chain_id = chain /\ p.l2_output_root \in S
                        => p.l2_claim \in S
             PROVE  boot_infos[i].l2_claim \in S
  BY DEF Reaches
<1> DEFINE Good == {j \in 1 .. n : boot_infos[j].l2_claim \in S}
<1>1. n \in Nat /\ n >= 1
  BY DEF Sequential
<1>2. \A j \in 1 .. n : boot_infos[j] \in ProvenInfos
                       /\ boot_infos[j].chain_id = chain
  BY OneChain DEF AllProven
<1>3. 1 \in Good
  BY <1>1, <1>2
<1>4. ASSUME NEW j \in 2 .. n, j - 1 \in Good PROVE j \in Good
  <2>1. j \in 1 .. n /\ j > 1 /\ j \in DOMAIN boot_infos
    BY <1>1, <1>4
  <2>2. boot_infos[j - 1].l2_claim = boot_infos[j].l2_output_root
    BY <2>1 DEF Sequential, Joined
  <2>3. boot_infos[j].l2_output_root \in S
    BY <1>4, <2>2
  <2> QED
    BY <1>2, <2>1, <2>3
<1>5. Good \in SUBSET (1 .. n)
  OBVIOUS
<1> HIDE DEF Good
<1>6. Good = 1 .. n
  BY <1>1, <1>3, <1>4, <1>5, AlongTheList
<1> QED
  BY <1>6 DEF Good

(* A commitment is a path of proven ranges on one chain, however many they *)
(* are, and the committed number belongs to the committed root, although   *)
(* the program joins ranges by roots alone.                                *)
THEOREM ProvenPath == Spec => []CommittedIsProvenPath
<1>1. IInv => CommittedIsProvenPath
  <2> SUFFICES ASSUME IInv, committed # None PROVE CommittedIsProvenPath
    BY DEF CommittedIsProvenPath
  <2> DEFINE last == boot_infos[Len(boot_infos)]
  <2>1. /\ pc = "done" /\ committed = Consolidated
        /\ Sequential /\ AllProven /\ boot_infos \in Seq(RawBootInfo)
    BY DEF IInv, StageInv, TypeOK
  <2>2. Len(boot_infos) \in 1 .. Len(boot_infos)
    BY <2>1 DEF Sequential
  <2>3. /\ committed.l2_output_root = boot_infos[1].l2_output_root
        /\ committed.l2_claim = last.l2_claim
        /\ committed.l2_claim_block = last.l2_claim_block
        /\ committed.l1_head = last.l1_head
        /\ committed.chain_id = last.chain_id
    BY <2>1 DEF Consolidated
  <2>4. Reaches(committed.l2_output_root, committed.l2_claim, committed.chain_id)
    BY <2>1, <2>2, <2>3, ClaimsReached
  <2>5. last \in ProvenInfos
    BY <2>1, <2>2 DEF AllProven
  <2> QED
    BY <2>3, <2>4, <2>5 DEF CommittedIsProvenPath
<1> QED
  BY <1>1, Invariance, PTL

(* The inputs keep their types and the loop stays inside the header list,  *)
(* for every input.                                                        *)
THEOREM TypeCorrect == Spec => []TypeOK
<1>1. IInv => TypeOK
  BY DEF IInv
<1> QED
  BY <1>1, Invariance, PTL

-----------------------------------------------------------------------------
(* What a settled commitment is worth.  C holds the <<chain id, block,     *)
(* root>> of the canonical L2 outputs: a statement is sound when from a    *)
(* canonical root it claims a canonical one, at its own block number.      *)
SoundInfo(C, info) ==
  (\E output \in C :
     output[1] = info.chain_id /\ output[3] = info.l2_output_root)
  => <<info.chain_id, info.l2_claim_block, info.l2_claim>> \in C

(* If every proven range is sound, so is their consolidation, although the *)
(* program drops all claims and numbers between the first and the last.    *)
LEMMA ConsolidatedSound ==
  ASSUME boot_infos \in Seq(RawBootInfo), Sequential, NEW C,
         \A i \in 1 .. Len(boot_infos) : SoundInfo(C, boot_infos[i])
  PROVE  SoundInfo(C, Consolidated)
<1> DEFINE n == Len(boot_infos)
           chain == boot_infos[n].chain_id
           claimed(i) == <<chain, boot_infos[i].l2_claim_block,
                           boot_infos[i].l2_claim>>
           Good == {i \in 1 .. n : claimed(i) \in C}
<1>1. n \in Nat /\ n >= 1
  BY DEF Sequential
<1>2. \A i \in 1 .. n : boot_infos[i].chain_id = chain
  BY OneChain
<1>3. /\ Consolidated.chain_id = chain
      /\ Consolidated.l2_output_root = boot_infos[1].l2_output_root
      /\ Consolidated.l2_claim_block = boot_infos[n].l2_claim_block
      /\ Consolidated.l2_claim = boot_infos[n].l2_claim
  BY DEF Consolidated
<1> SUFFICES ASSUME \E output \in C :
                      /\ output[1] = chain
                      /\ output[3] = boot_infos[1].l2_output_root
             PROVE  claimed(n) \in C
  BY <1>3 DEF SoundInfo
<1>4. 1 \in Good
  BY <1>1, <1>2 DEF SoundInfo
<1>5. ASSUME NEW i \in 2 .. n, i - 1 \in Good PROVE i \in Good
  <2>1. i \in 1 .. n /\ i > 1 /\ i \in DOMAIN boot_infos
    BY <1>1, <1>5
  <2>2. boot_infos[i - 1].l2_claim = boot_infos[i].l2_output_root
    BY <2>1 DEF Sequential, Joined
  <2>3. claimed(i - 1) \in C
    BY <1>5
  <2>4. claimed(i - 1)[1] = chain
        /\ claimed(i - 1)[3] = boot_infos[i].l2_output_root
    BY <2>2
  <2>5. \E output \in C :
          /\ output[1] = boot_infos[i].chain_id
          /\ output[3] = boot_infos[i].l2_output_root
    BY <1>2, <2>1, <2>3, <2>4
  <2> QED
    BY <1>2, <2>1, <2>5 DEF SoundInfo
<1>6. Good \in SUBSET (1 .. n)
  OBVIOUS
<1> HIDE DEF Good
<1>7. Good = 1 .. n
  BY <1>1, <1>4, <1>5, <1>6, AlongTheList
<1> QED
  BY <1>1, <1>7 DEF Good

(* The settlement contract sees of a proof only the committed values, and  *)
(* of L1 heads only the committed one.  Whole(L1): if that one is on L1,   *)
(* so are the heads of all the ranges.                                     *)
Whole(L1) == committed.l1_head \in L1 => \A h \in Heads : h \in L1

(* If range proofs made from heads on L1 are sound, a commitment that is   *)
(* whole and names a head on L1 is sound: a canonical pre-root leads to    *)
(* the canonical root of the claimed block.  This is what ZKL2OutputOracle *)
(* assumes of the proofs it calls WholeOnL1.                               *)
THEOREM WholeSound ==
  ASSUME NEW CONSTANT C, NEW CONSTANT L1 \in SUBSET Hashes,
         \A p \in ProvenInfos : p.l1_head \in L1 => SoundInfo(C, p)
  PROVE  Spec => [](committed # None /\ Whole(L1) /\ committed.l1_head \in L1
                      => SoundInfo(C, committed))
<1>1. IInv =>
        (committed # None /\ Whole(L1) /\ committed.l1_head \in L1
           => SoundInfo(C, committed))
  <2> SUFFICES ASSUME IInv, committed # None, Whole(L1), committed.l1_head \in L1
               PROVE  SoundInfo(C, committed)
    OBVIOUS
  <2>1. /\ committed = Consolidated
        /\ Sequential /\ AllProven /\ boot_infos \in Seq(RawBootInfo)
    BY DEF IInv, StageInv, TypeOK
  <2>2. ASSUME NEW i \in 1 .. Len(boot_infos)
        PROVE  SoundInfo(C, boot_infos[i])
    <3>1. boot_infos[i].l1_head \in Heads
      BY <2>1 DEF Heads
    <3>2. boot_infos[i] \in ProvenInfos
      BY <2>1 DEF AllProven
    <3> QED
      BY <3>1, <3>2 DEF Whole
  <2> QED
    BY <2>1, <2>2, ConsolidatedSound
<1> QED
  BY <1>1, Invariance, PTL

(* When a commitment is whole on a chain L1 that holds the parents of its  *)
(* blocks: when it is of one range, when the heads lie on the chain of the *)
(* committed one, and when the head that was checkpointed is on L1.  The   *)
(* program sees to none of them; the committed boot info does not name the *)
(* checkpointed head.  The host of agg.rs sees to the last while L1 only   *)
(* grows (AggregationPipelineProofs!SettlesSound).                         *)
MadeWhole(L1) ==
  \/ Len(boot_infos) = 1
  \/ HeadsOnCommittedChain
  \/ latest_l1_checkpoint_head \in L1

THEOREM WhenWhole ==
  ASSUME NEW CONSTANT L1 \in SUBSET Hashes, ClosedUnderParent(L1)
  PROVE  Spec => [](committed # None /\ MadeWhole(L1) => Whole(L1))
<1>1. IInv /\ HeadsOnCheckpointChain =>
        (committed # None /\ MadeWhole(L1) => Whole(L1))
  <2> SUFFICES ASSUME IInv, HeadsOnCheckpointChain, committed # None,
                      MadeWhole(L1), committed.l1_head \in L1, NEW h \in Heads
               PROVE  h \in L1
    BY DEF Whole
  <2>1. CASE Len(boot_infos) = 1
    <3>1. committed = Consolidated /\ boot_infos \in Seq(RawBootInfo)
      BY DEF IInv, StageInv, TypeOK
    <3>2. h = boot_infos[1].l1_head
      BY <2>1, <3>1 DEF Heads
    <3>3. Consolidated.l1_head = boot_infos[1].l1_head
      BY <2>1 DEF Consolidated
    <3> QED
      BY <3>1, <3>2, <3>3
  <2>2. CASE HeadsOnCommittedChain
    BY <2>2 DEF HeadsOnCommittedChain, OnChainOf
  <2>3. CASE latest_l1_checkpoint_head \in L1
    BY <2>3 DEF HeadsOnCheckpointChain, OnChainOf
  <2> QED
    BY <2>1, <2>2, <2>3 DEF MadeWhole
<1> QED
  BY <1>1, Invariance, HeadsVerified, PTL
==============================================================================
