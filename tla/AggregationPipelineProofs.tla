----------------------- MODULE AggregationPipelineProofs -----------------------
(***************************************************************************)
(* Machine-checked theorems about the aggregation host composed with the   *)
(* aggregation program, for every tree of L1 blocks and every list of      *)
(* range proofs.  What AggregationClientProofs shows of the program is     *)
(* used here by instance, for arbitrary inputs.                            *)
(***************************************************************************)
EXTENDS AggregationPipeline, FiniteSetTheorems, TLAPS

G == INSTANCE AggregationClientProofs WITH
       Headers <- Blocks, pc <- guest_pc,
       BootInfoLists <- Seq(Guest!RawBootInfo), HeaderLists <- Seq(Blocks),
       Checkpoints <- Hashes

LEMMA GuestAssumption == G!AggregationAssumption
  BY PipelineAssumption
  DEF G!AggregationAssumption, Guest!RawBootInfo, G!RawBootInfo, Hashes

LEMMA GuestInit == G!Init => G!IInv
  BY G!InitIInv, GuestAssumption

LEMMA GuestNext == G!IInv /\ [G!Next]_(G!vars) => G!IInv'
  BY G!NextIInv, GuestAssumption

LEMMA GuestTypes == G!RawBootInfo = Guest!RawBootInfo
  BY DEF G!RawBootInfo, Guest!RawBootInfo

-----------------------------------------------------------------------------
(* Chains.  A block, its parent's chain, and nothing else.                 *)
LEMMA ChainMembers ==
  ASSUME NEW x \in Blocks
  PROVE  x \in ChainOf[x] /\ ChainOf[x] \subseteq Blocks
  BY DEF ChainOf, Guest!OnChainOf

LEMMA ChainClosed ==
  ASSUME NEW x \in Blocks, NEW h \in ChainOf[x], h # Genesis
  PROVE  Parent[h] \in ChainOf[x]
  BY PipelineAssumption DEF ChainOf, Guest!OnChainOf, Guest!ClosedUnderParent

LEMMA ChainOfGenesis == ChainOf[Genesis] = {Genesis}
<1> DEFINE S == {Genesis, NoBlock}
<1>1. S \in SUBSET Hashes /\ Genesis \in S /\ Guest!ClosedUnderParent(S)
  BY PipelineAssumption DEF Hashes, Guest!ClosedUnderParent
<1>2. ASSUME NEW h \in ChainOf[Genesis] PROVE h \in S
  <2>1. Guest!OnChainOf(h, Genesis)
    BY PipelineAssumption DEF ChainOf
  <2> HIDE DEF S
  <2> QED
    BY <1>1, <2>1 DEF Guest!OnChainOf
<1>3. Genesis \in ChainOf[Genesis] /\ ChainOf[Genesis] \subseteq Blocks
  BY PipelineAssumption, ChainMembers
<1> QED
  BY <1>2, <1>3, PipelineAssumption

LEMMA ChainOfChild ==
  ASSUME NEW x \in Blocks, x # Genesis
  PROVE  ChainOf[x] = {x} \cup ChainOf[Parent[x]]
<1>1. Parent[x] \in Blocks
  BY PipelineAssumption
<1>2. ASSUME NEW h \in ChainOf[Parent[x]] PROVE h \in ChainOf[x]
  <2>1. h \in Blocks /\ Guest!OnChainOf(h, Parent[x])
    BY <1>1, <1>2 DEF ChainOf
  <2>2. ASSUME NEW S \in SUBSET Hashes, x \in S, Guest!ClosedUnderParent(S)
        PROVE  h \in S
    <3>1. Parent[x] \in S
      BY <2>2 DEF Guest!ClosedUnderParent
    <3> QED
      BY <2>1, <2>2, <3>1 DEF Guest!OnChainOf
  <2> QED
    BY <2>1, <2>2 DEF ChainOf, Guest!OnChainOf
<1>3. ASSUME NEW h \in ChainOf[x], h # x PROVE h \in ChainOf[Parent[x]]
  <2>1. h \in Blocks /\ Guest!OnChainOf(h, x)
    BY <1>3 DEF ChainOf
  <2>2. ASSUME NEW S \in SUBSET Hashes, Parent[x] \in S,
               Guest!ClosedUnderParent(S)
        PROVE  h \in S
    <3>1. /\ S \cup {x} \in SUBSET Hashes
          /\ Guest!ClosedUnderParent(S \cup {x})
      BY <2>2 DEF Guest!ClosedUnderParent, Hashes
    <3> QED
      BY <1>3, <2>1, <3>1 DEF Guest!OnChainOf
  <2> QED
    BY <1>1, <2>1, <2>2 DEF ChainOf, Guest!OnChainOf
<1> QED
  BY <1>2, <1>3, ChainMembers

(* The blocks of a chain have the numbers from 0 to that of its tip, each  *)
(* once: by the least number of a tip for which it were not so.            *)
Numbered(x) ==
  /\ \A h \in ChainOf[x] : Number[h] <= Number[x]
  /\ \A h, k \in ChainOf[x] : Number[h] = Number[k] => h = k
  /\ \A n \in 0 .. Number[x] : \E h \in ChainOf[x] : Number[h] = n

LEMMA NumberedGenesis == Numbered(Genesis)
  BY ChainOfGenesis, PipelineAssumption DEF Numbered

LEMMA NumberedChild ==
  ASSUME NEW x \in Blocks, x # Genesis, Numbered(Parent[x])
  PROVE  Numbered(x)
<1> DEFINE p == Parent[x]
<1>1. /\ p \in Blocks /\ Number[x] = Number[p] + 1
      /\ Number[x] \in Nat /\ Number[p] \in Nat
      /\ \A h \in Blocks : Number[h] \in Nat
  BY PipelineAssumption
<1>2. ChainOf[x] = {x} \cup ChainOf[p]
  BY ChainOfChild
<1>3. ChainOf[p] \subseteq Blocks
  BY <1>1, ChainMembers
<1> HIDE DEF p
<1>4. \A h \in ChainOf[p] : Number[h] <= Number[p]
  BY DEF Numbered, p
<1>5. \A h \in ChainOf[x] : Number[h] <= Number[x]
  BY <1>1, <1>2, <1>3, <1>4
<1>6. \A h \in ChainOf[p] : Number[h] # Number[x]
  BY <1>1, <1>3, <1>4
<1>7. \A h, k \in ChainOf[x] : Number[h] = Number[k] => h = k
  BY <1>2, <1>6 DEF Numbered, p
<1>8. ASSUME NEW n \in 0 .. Number[x]
      PROVE  \E h \in ChainOf[x] : Number[h] = n
  <2>1. CASE n = Number[x]
    BY <1>2, <2>1
  <2>2. CASE n # Number[x]
    <3>1. n \in 0 .. Number[p]
      BY <1>1, <2>2
    <3> QED
      BY <1>2, <3>1 DEF Numbered, p
  <2> QED
    BY <2>1, <2>2
<1> QED
  BY <1>5, <1>7, <1>8 DEF Numbered

LEMMA ChainNumbered == \A x \in Blocks : Numbered(x)
<1> DEFINE Bad == {n \in Nat : \E x \in Blocks : Number[x] = n /\ ~Numbered(x)}
<1>1. SUFFICES ASSUME NEW y \in Blocks, ~Numbered(y) PROVE FALSE
  OBVIOUS
<1>2. Bad \subseteq Nat /\ Bad # {}
  BY <1>1, PipelineAssumption
<1>3. PICK n \in Bad : \A m \in Bad : n <= m
  BY <1>2, G!LeastPosition, GuestAssumption
<1>4. PICK x \in Blocks : Number[x] = n /\ ~Numbered(x)
  OBVIOUS
<1>5. x # Genesis
  BY <1>4, NumberedGenesis
<1>6. /\ Parent[x] \in Blocks /\ Number[Parent[x]] \in Nat
      /\ Number[x] \in Nat /\ Number[x] = Number[Parent[x]] + 1
  BY <1>5, PipelineAssumption
<1>7. ~Numbered(Parent[x])
  BY <1>4, <1>5, NumberedChild
<1>8. Number[Parent[x]] \in Bad
  BY <1>6, <1>7
<1>9. ~(n <= Number[Parent[x]])
  BY <1>4, <1>6
<1> QED
  BY <1>3, <1>8, <1>9

(* What the node answers to a number it has.                               *)
LEMMA AtNumber ==
  ASSUME tip \in Blocks, NEW n \in Nat, n <= Number[tip]
  PROVE  At(n) \in ChainOf[tip] /\ Number[At(n)] = n /\ At(n) \in Blocks
<1>1. n \in 0 .. Number[tip]
  BY PipelineAssumption
<1>2. \E h \in ChainOf[tip] : Number[h] = n
  BY <1>1, ChainNumbered DEF Numbered
<1> QED
  BY <1>2, ChainMembers DEF At
LEMMA OneBlockPerNumber ==
  ASSUME tip \in Blocks, NEW h \in ChainOf[tip], NEW k \in ChainOf[tip],
         Number[h] = Number[k]
  PROVE  h = k
  BY ChainNumbered DEF Numbered

-----------------------------------------------------------------------------
(* The inductive invariant.  The public values encode a list of proofs.    *)
Decoded == [i \in DOMAIN public_values |-> AbiDecode(public_values[i])]

EncodesProofs ==
  \E proofs \in ProofLists :
    public_values = [i \in DOMAIN proofs |-> AbiEncode(proofs[i])]

(* What the stages of the host know. *)
HostInv ==
  /\ front \in {"agg", "server"} /\ latest_checkpoint_head_nb \in Nat
  /\ EncodesProofs
  /\ front = "server" \/ pc \in {"earliest", "headers"} =>
       latest_l1_checkpoint_head \in Blocks
  /\ pc = "checkpoint" => front = "agg"
  /\ pc = "decode" => boot_infos = <<>>
  /\ pc \in {"checkpoint", "earliest", "headers"} =>
       Len(boot_infos) = Len(public_values)
  /\ pc = "headers" =>
       /\ start_header \in Blocks
       /\ DOMAIN fetched =
            Number[start_header] .. Number[latest_l1_checkpoint_head]

(* Once it runs, the program is where AggregationClientProofs says.        *)
GuestInv ==
  /\ pc = "submitted" => G!IInv
  /\ pc # "submitted" => guest_pc = "sequence" /\ committed = None

(* The search for the earliest head is right about the heads it has read.  *)
EarliestSoFar ==
  /\ start_header = NoBlock => next_info = 1
  /\ start_header # NoBlock => Canonical(start_header)
  /\ \A i \in 1 .. Len(public_values) :
       i < next_info => Number[start_header] <= Number[boot_infos[i].l1_head]

(* While L1 only grows, what an honest operator started from stays honest, *)
(* and what the host has read is on the chain of the node.                 *)
HonestInv ==
  honest /\ reorgs = 0 =>
    /\ Honest /\ pc # "taskPanicked"
    /\ pc = "panicked" => HeaderRpcFailed
    /\ pc \in {"checkpoint", "earliest", "headers", "submitted"} =>
         boot_infos = Decoded
    /\ pc \in {"earliest", "headers", "submitted"} =>
         /\ Canonical(latest_l1_checkpoint_head)
         /\ Number[latest_l1_checkpoint_head] = latest_checkpoint_head_nb
    /\ pc \in {"decode", "checkpoint"} => next_info = 1 /\ start_header = NoBlock
    /\ pc \in {"earliest", "headers"} => EarliestSoFar
    /\ pc = "headers" =>
         /\ next_info = Len(public_values) + 1
         /\ \A n \in DOMAIN fetched : fetched[n] \notin {NoBlock, RpcFailed} =>
              Canonical(fetched[n]) /\ Number[fetched[n]] = n
    /\ pc = "submitted" => G!Acceptable

IInv == TypeOK /\ HostInv /\ GuestInv /\ HonestInv

(* What agg.rs makes of the public values. *)
LEMMA PublicValuesTyped ==
  ASSUME EncodesProofs
  PROVE  /\ Decoded \in Seq(ProvenInfos) /\ Decoded \in Seq(Guest!RawBootInfo)
         /\ Len(Decoded) = Len(public_values)
         /\ DOMAIN public_values = 1 .. Len(public_values)
         /\ Len(public_values) \in Nat
<1>1. PICK proofs \in ProofLists :
        public_values = [i \in DOMAIN proofs |-> AbiEncode(proofs[i])]
  BY DEF EncodesProofs
<1>2. /\ proofs \in Seq(ProvenInfos) /\ DOMAIN proofs = 1 .. Len(proofs)
      /\ Len(proofs) \in Nat
  BY PipelineAssumption
<1>3. \A p \in ProvenInfos : p \in Guest!RawBootInfo
  BY PipelineAssumption
<1>4. ASSUME NEW p \in Guest!RawBootInfo
      PROVE  AbiDecode(AbiEncode(p)) = p
  BY DEF AbiDecode, AbiEncode, Guest!RawBootInfo
<1>5. \A i \in 1 .. Len(proofs) : proofs[i] \in ProvenInfos
  BY <1>2
<1>6. /\ DOMAIN public_values = 1 .. Len(proofs)
      /\ \A i \in 1 .. Len(proofs) : public_values[i] = AbiEncode(proofs[i])
  BY <1>1, <1>2
<1>7. \A i \in 1 .. Len(proofs) : AbiDecode(public_values[i]) \in ProvenInfos
  BY <1>3, <1>4, <1>5, <1>6
<1>8. Len(public_values) = Len(proofs)
  <2> DEFINE Word == {AbiEncode(p) : p \in ProvenInfos}
  <2>1. public_values \in Seq(Word)
    BY <1>2, <1>5, <1>6, <1>1
  <2> QED
    BY <1>2, <1>6, <2>1
<1>9. Decoded \in Seq(ProvenInfos) /\ Len(Decoded) = Len(proofs)
  BY <1>2, <1>6, <1>7 DEF Decoded
<1>10. Decoded \in Seq(Guest!RawBootInfo)
  BY <1>3, <1>9
<1> QED
  BY <1>2, <1>6, <1>8, <1>9, <1>10

(* The program's state is left alone. *)
LEMMA GuestFrame ==
  ASSUME G!IInv, UNCHANGED <<stdinVars, guestVars>>
  PROVE  G!IInv'
<1>1. UNCHANGED G!vars
  BY DEF stdinVars, guestVars, G!vars, G!inputs, G!loopVars
<1> QED
  BY <1>1, GuestNext

(* What the operator started from, on an unchanged chain. *)
LEMMA ArgsFrame ==
  ASSUME UNCHANGED <<args, tip>>
  PROVE  /\ EncodesProofs' <=> EncodesProofs
         /\ Decoded' = Decoded /\ (Honest' <=> Honest)
         /\ UNCHANGED <<front, public_values, latest_checkpoint_head_nb, honest>>
<1>1. /\ UNCHANGED <<front, public_values, latest_checkpoint_head_nb, honest>>
      /\ UNCHANGED <<subproofs, tip>>
  BY DEF args
<1>2. EncodesProofs' <=> EncodesProofs
  BY <1>1 DEF EncodesProofs
<1>3. Decoded' = Decoded
  BY <1>1 DEF Decoded
<1>4. Honest' <=> Honest
  BY <1>1 DEF Honest, InfoOf, Canonical
<1> QED
  BY <1>1, <1>2, <1>3, <1>4

LEMMA InitIInv == Init => IInv
<1> SUFFICES ASSUME Init PROVE IInv
  OBVIOUS
<1>1. EncodesProofs /\ front \in {"agg", "server"}
  BY PipelineAssumption DEF Init, EncodesProofs
<1>2. /\ Len(public_values) \in Nat /\ latest_checkpoint_head_nb \in Nat
      /\ tip \in Blocks
  BY <1>1, PublicValuesTyped, PipelineAssumption DEF Init
<1>3. TypeOK
  <2>1. latest_l1_checkpoint_head \in Hashes
    BY DEF Init, Hashes
  <2>2. reorgs \in 0 .. MaxReorgs /\ next_info \in 1 .. Len(public_values) + 1
    BY <1>2, PipelineAssumption DEF Init
  <2>3. honest \in BOOLEAN
    BY DEF Init, Honest
  <2>4. start_header \in Hashes
    BY DEF Init, Hashes
  <2> QED
    BY <1>2, <2>1, <2>2, <2>3, <2>4 DEF Init, TypeOK
<1>4. HostInv
  BY <1>1, <1>2 DEF Init, HostInv
<1>5. GuestInv
  BY DEF Init, GuestInv
<1>6. HonestInv
  BY DEF Init, HonestInv
<1> QED
  BY <1>3, <1>4, <1>5, <1>6 DEF IInv

-----------------------------------------------------------------------------
(* The steps of the host, one lemma per action. *)
LEMMA LoadProofsIInv == ASSUME IInv, LoadProofs PROVE IInv'
<1>1. /\ UNCHANGED <<args, tip>> /\ UNCHANGED <<next_info, start_header, fetched>>
      /\ UNCHANGED <<headers, latest_l1_checkpoint_head, reorgs>>
      /\ UNCHANGED <<guest_pc, committed>>
      /\ pc = "decode" /\ pc' = "checkpoint" /\ front = "agg"
      /\ boot_infos' = Decoded
  BY DEF LoadProofs, l1Vars, guestVars, Decoded
<1>2. /\ EncodesProofs' /\ Decoded' = Decoded /\ (Honest' <=> Honest)
      /\ UNCHANGED <<front, public_values, latest_checkpoint_head_nb, honest>>
  BY <1>1, ArgsFrame DEF IInv, HostInv
<1>3. Decoded \in Seq(Guest!RawBootInfo) /\ Len(Decoded) = Len(public_values)
  BY PublicValuesTyped DEF IInv, HostInv
<1>4. TypeOK'
  BY <1>1, <1>2, <1>3 DEF IInv, TypeOK
<1>5. HostInv'
  BY <1>1, <1>2, <1>3 DEF IInv, HostInv
<1>6. GuestInv'
  BY <1>1 DEF IInv, GuestInv
<1>7. HonestInv'
  BY <1>1, <1>2 DEF IInv, HonestInv
<1> QED
  BY <1>4, <1>5, <1>6, <1>7 DEF IInv

LEMMA ReadProofsIInv == ASSUME IInv, ReadProofs PROVE IInv'
<1>1. /\ UNCHANGED <<args, tip>> /\ UNCHANGED <<next_info, start_header, fetched>>
      /\ UNCHANGED <<headers, boot_infos, latest_l1_checkpoint_head, reorgs>>
      /\ UNCHANGED <<guest_pc, committed>>
      /\ pc = "decode" /\ front = "server"
      /\ pc' \in {"earliest", "panicked"}
      /\ pc' = "earliest" => public_values = <<>>
  BY DEF ReadProofs, l1Vars, guestVars, stdinVars
<1>2. /\ EncodesProofs' /\ Decoded' = Decoded /\ (Honest' <=> Honest)
      /\ UNCHANGED <<front, public_values, latest_checkpoint_head_nb, honest>>
  BY <1>1, ArgsFrame DEF IInv, HostInv
<1>3. TypeOK'
  BY <1>1, <1>2 DEF IInv, TypeOK
<1>4. HostInv'
  BY <1>1, <1>2 DEF IInv, HostInv
<1>5. GuestInv'
  BY <1>1 DEF IInv, GuestInv
<1>6. HonestInv'
  BY <1>1, <1>2 DEF IInv, HonestInv, Honest
<1> QED
  BY <1>3, <1>4, <1>5, <1>6 DEF IInv

LEMMA ReadCheckpointIInv == ASSUME IInv, ReadCheckpoint PROVE IInv'
<1> DEFINE head == At(latest_checkpoint_head_nb)
<1>1. /\ UNCHANGED <<args, tip>> /\ UNCHANGED <<next_info, start_header, fetched>>
      /\ UNCHANGED <<headers, boot_infos, reorgs>>
      /\ UNCHANGED <<guest_pc, committed>>
      /\ pc = "checkpoint" /\ pc' = "earliest"
      /\ latest_l1_checkpoint_head' = head
      /\ latest_checkpoint_head_nb <= Number[tip]
  BY DEF ReadCheckpoint, l1Vars, guestVars
<1>2. /\ EncodesProofs' /\ Decoded' = Decoded /\ (Honest' <=> Honest)
      /\ UNCHANGED <<front, public_values, latest_checkpoint_head_nb, honest>>
  BY <1>1, ArgsFrame DEF IInv, HostInv
<1>3. /\ head \in ChainOf[tip] /\ head \in Blocks
      /\ Number[head] = latest_checkpoint_head_nb
  BY <1>1, AtNumber DEF IInv, HostInv, TypeOK
<1> HIDE DEF head
<1>4. TypeOK'
  BY <1>1, <1>2, <1>3 DEF IInv, TypeOK, Hashes
<1>5. HostInv'
  BY <1>1, <1>2, <1>3 DEF IInv, HostInv
<1>6. GuestInv'
  BY <1>1 DEF IInv, GuestInv
<1>7. HonestInv'
  <2> SUFFICES ASSUME honest, reorgs = 0
               PROVE  /\ Canonical(latest_l1_checkpoint_head)'
                      /\ Number[latest_l1_checkpoint_head'] =
                           latest_checkpoint_head_nb
                      /\ boot_infos' = Decoded' /\ Honest'
                      /\ EarliestSoFar'
    BY <1>1, <1>2 DEF HonestInv
  <2>1. next_info = 1 /\ start_header = NoBlock /\ boot_infos = Decoded /\ Honest
    BY <1>1 DEF IInv, HonestInv
  <2>2. Len(public_values) \in Nat
    BY PublicValuesTyped DEF IInv, HostInv
  <2>3. EarliestSoFar'
    BY <1>1, <1>2, <2>1, <2>2 DEF EarliestSoFar
  <2> QED
    BY <1>1, <1>2, <1>3, <2>1, <2>3 DEF Canonical
<1> QED
  BY <1>4, <1>5, <1>6, <1>7 DEF IInv

LEMMA ReadHeadIInv == ASSUME IInv, ReadHead PROVE IInv'
<1> DEFINE head == boot_infos[next_info].l1_head
<1>1. /\ UNCHANGED <<args, tip>> /\ UNCHANGED <<fetched, reorgs>>
      /\ UNCHANGED <<headers, boot_infos, latest_l1_checkpoint_head>>
      /\ UNCHANGED <<guest_pc, committed, pc>>
      /\ pc = "earliest" /\ next_info <= Len(boot_infos)
      /\ head \in Blocks
      /\ start_header' = IF Earlier(head) THEN head ELSE start_header
      /\ next_info' = next_info + 1
  BY DEF ReadHead, l1Vars, guestVars, stdinVars
<1>2. /\ EncodesProofs' /\ Decoded' = Decoded /\ (Honest' <=> Honest)
      /\ UNCHANGED <<front, public_values, latest_checkpoint_head_nb, honest>>
  BY <1>1, ArgsFrame DEF IInv, HostInv
<1>3. /\ Len(public_values) \in Nat /\ Len(boot_infos) = Len(public_values)
      /\ next_info \in 1 .. Len(public_values)
  BY <1>1, PublicValuesTyped DEF IInv, HostInv, TypeOK
<1>4. TypeOK'
  BY <1>1, <1>2, <1>3 DEF IInv, TypeOK, Hashes
<1>5. HostInv'
  BY <1>1, <1>2, <1>3 DEF IInv, HostInv
<1>6. GuestInv'
  BY <1>1 DEF IInv, GuestInv
<1>7. HonestInv'
  <2> SUFFICES ASSUME honest, reorgs = 0 PROVE EarliestSoFar'
    BY <1>1, <1>2 DEF HonestInv, IInv, Canonical
  <2>1. EarliestSoFar /\ boot_infos = Decoded /\ Honest
    BY <1>1 DEF IInv, HonestInv
  <2>2. Canonical(head)
    <3>1. next_info \in DOMAIN public_values
      BY <1>3, PublicValuesTyped DEF IInv, HostInv
    <3>2. head = InfoOf(next_info).l1_head
      BY <2>1, <3>1 DEF Decoded, InfoOf
    <3> QED
      BY <2>1, <3>1, <3>2 DEF Honest
  <2>3. start_header' # NoBlock /\ Canonical(start_header)'
    BY <1>1, <2>1, <2>2, PipelineAssumption DEF EarliestSoFar, Earlier, Canonical
  <2>4. ASSUME NEW i \in 1 .. Len(public_values), i < next_info'
        PROVE  Number[start_header'] <= Number[boot_infos[i].l1_head]
    <3>1. i < next_info \/ i = next_info
      BY <1>1, <1>3, <2>4
    <3>2. start_header = NoBlock => next_info = 1
      BY <2>1 DEF EarliestSoFar
    <3>3. /\ Number[head] \in Nat
          /\ start_header # NoBlock => Number[start_header] \in Nat
      BY <1>1, PipelineAssumption DEF IInv, TypeOK, Hashes
    <3>4. CASE i = next_info
      BY <1>1, <3>3, <3>4 DEF Earlier
    <3>5. CASE i < next_info
      <4>1. start_header # NoBlock
        BY <1>3, <3>2, <3>5
      <4>2. Number[start_header] <= Number[boot_infos[i].l1_head]
        BY <2>1, <3>5 DEF EarliestSoFar
      <4>3. CASE Earlier(head)
        <5>1. Number[head] < Number[start_header] /\ start_header' = head
          BY <1>1, <4>1, <4>3 DEF Earlier
        <5>2. Number[boot_infos[i].l1_head] \in Nat
          <6>1. i \in DOMAIN public_values
            BY <1>3, PublicValuesTyped DEF IInv, HostInv
          <6>2. InfoOf(i).l1_head \in ChainOf[tip]
            BY <2>1, <6>1 DEF Honest, Canonical
          <6>3. boot_infos[i].l1_head \in Blocks
            BY <2>1, <6>1, <6>2, ChainMembers
            DEF Decoded, InfoOf, IInv, TypeOK
          <6> QED
            BY <6>3, PipelineAssumption
        <5> QED
          BY <3>3, <4>1, <4>2, <5>1, <5>2
      <4>4. CASE ~Earlier(head)
        BY <1>1, <4>2, <4>4
      <4> QED
        BY <4>3, <4>4
    <3> QED
      BY <3>1, <3>4, <3>5
  <2> QED
    BY <1>1, <1>2, <2>3, <2>4 DEF EarliestSoFar
<1> QED
  BY <1>4, <1>5, <1>6, <1>7 DEF IInv

LEMMA SpawnTasksIInv == ASSUME IInv, SpawnTasks PROVE IInv'
<1> DEFINE numbers == Number[start_header] .. Number[latest_l1_checkpoint_head]
<1>1. /\ UNCHANGED <<args, tip>> /\ UNCHANGED <<next_info, start_header, reorgs>>
      /\ UNCHANGED <<headers, boot_infos, latest_l1_checkpoint_head>>
      /\ UNCHANGED <<guest_pc, committed>>
      /\ pc = "earliest" /\ pc' = "headers"
      /\ next_info > Len(boot_infos) /\ start_header # NoBlock
      /\ fetched' = [n \in numbers |-> NoBlock]
  BY DEF SpawnTasks, l1Vars, guestVars, stdinVars, NumbersToFetch
<1>2. /\ EncodesProofs' /\ Decoded' = Decoded /\ (Honest' <=> Honest)
      /\ UNCHANGED <<front, public_values, latest_checkpoint_head_nb, honest>>
  BY <1>1, ArgsFrame DEF IInv, HostInv
<1>3. /\ start_header \in Blocks /\ latest_l1_checkpoint_head \in Blocks
      /\ Number[start_header] \in Nat
      /\ Number[latest_l1_checkpoint_head] \in Nat
  BY <1>1, PipelineAssumption DEF IInv, TypeOK, HostInv, Hashes
<1>4. numbers \subseteq Nat /\ DOMAIN fetched' = numbers
      /\ \A n \in numbers : fetched'[n] = NoBlock
  BY <1>1, <1>3
<1>5. TypeOK'
  BY <1>1, <1>2, <1>4 DEF IInv, TypeOK, Hashes
<1>6. HostInv'
  BY <1>1, <1>2, <1>3, <1>4 DEF IInv, HostInv
<1>7. GuestInv'
  BY <1>1 DEF IInv, GuestInv
<1>8. HonestInv'
  <2> SUFFICES ASSUME honest, reorgs = 0
               PROVE  EarliestSoFar' /\ next_info' = Len(public_values') + 1
    BY <1>1, <1>2, <1>4 DEF HonestInv, IInv, Canonical
  <2>1. EarliestSoFar
    BY <1>1 DEF IInv, HonestInv
  <2>2. EarliestSoFar'
    BY <1>1, <1>2, <2>1 DEF EarliestSoFar, Canonical
  <2>3. next_info = Len(public_values) + 1
    BY <1>1, PublicValuesTyped DEF IInv, HostInv, TypeOK
  <2> QED
    BY <1>1, <1>2, <2>2, <2>3
<1> QED
  BY <1>5, <1>6, <1>7, <1>8 DEF IInv

LEMMA FetchHeaderIInv ==
  ASSUME IInv, NEW n \in DOMAIN fetched, FetchHeader(n) PROVE IInv'
<1>1. /\ UNCHANGED <<args, tip>> /\ UNCHANGED <<next_info, start_header, reorgs>>
      /\ UNCHANGED <<headers, boot_infos, latest_l1_checkpoint_head>>
      /\ UNCHANGED <<guest_pc, committed, pc>>
      /\ pc = "headers" /\ n <= Number[tip]
      /\ fetched' = [fetched EXCEPT ![n] = At(n)]
  BY DEF FetchHeader, l1Vars, guestVars, stdinVars
<1>2. /\ EncodesProofs' /\ Decoded' = Decoded /\ (Honest' <=> Honest)
      /\ UNCHANGED <<front, public_values, latest_checkpoint_head_nb, honest>>
  BY <1>1, ArgsFrame DEF IInv, HostInv
<1>3. At(n) \in ChainOf[tip] /\ At(n) \in Blocks /\ Number[At(n)] = n
  BY <1>1, AtNumber DEF IInv, TypeOK
<1>4. /\ DOMAIN fetched' = DOMAIN fetched
      /\ \A m \in DOMAIN fetched : fetched'[m] = fetched[m] \/ m = n
      /\ fetched'[n] = At(n)
  BY <1>1
<1>5. TypeOK'
  BY <1>1, <1>2, <1>3, <1>4 DEF IInv, TypeOK, Hashes
<1>6. HostInv'
  BY <1>1, <1>2, <1>4 DEF IInv, HostInv
<1>7. GuestInv'
  BY <1>1 DEF IInv, GuestInv
<1>8. HonestInv'
  <2> SUFFICES ASSUME honest, reorgs = 0
               PROVE  /\ EarliestSoFar'
                      /\ \A m \in DOMAIN fetched' :
                           fetched'[m] \notin {NoBlock, RpcFailed} =>
                           Canonical(fetched[m])' /\ Number[fetched'[m]] = m
    BY <1>1, <1>2 DEF HonestInv, IInv, Canonical
  <2>1. EarliestSoFar'
    BY <1>1, <1>2 DEF EarliestSoFar, Canonical, IInv, HonestInv
  <2>2. ASSUME NEW m \in DOMAIN fetched, fetched'[m] \notin {NoBlock, RpcFailed}
        PROVE  Canonical(fetched[m])' /\ Number[fetched'[m]] = m
    <3>1. CASE m = n
      BY <1>1, <1>3, <1>4, <3>1 DEF Canonical
    <3>2. CASE m # n
      <4>1. fetched'[m] = fetched[m]
        BY <1>4, <3>2
      <4> QED
        BY <1>1, <2>2, <4>1 DEF Canonical, IInv, HonestInv
    <3> QED
      BY <3>1, <3>2
  <2> QED
    BY <1>4, <2>1, <2>2
<1> QED
  BY <1>5, <1>6, <1>7, <1>8 DEF IInv

LEMMA HeaderRpcErrorIInv ==
  ASSUME IInv, NEW n \in DOMAIN fetched, HeaderRpcError(n) PROVE IInv'
<1>1. /\ UNCHANGED <<args, tip>> /\ UNCHANGED <<next_info, start_header, reorgs>>
      /\ UNCHANGED <<headers, boot_infos, latest_l1_checkpoint_head>>
      /\ UNCHANGED <<guest_pc, committed, pc>>
      /\ pc = "headers" /\ fetched' = [fetched EXCEPT ![n] = RpcFailed]
  BY DEF HeaderRpcError, l1Vars, guestVars, stdinVars
<1>2. /\ EncodesProofs' /\ Decoded' = Decoded /\ (Honest' <=> Honest)
      /\ UNCHANGED <<front, public_values, latest_checkpoint_head_nb, honest>>
  BY <1>1, ArgsFrame DEF IInv, HostInv
<1>3. /\ DOMAIN fetched' = DOMAIN fetched
      /\ \A m \in DOMAIN fetched : fetched'[m] \in {fetched[m], RpcFailed}
  BY <1>1
<1>4. TypeOK'
  BY <1>1, <1>2, <1>3 DEF IInv, TypeOK
<1>5. HostInv'
  BY <1>1, <1>2, <1>3 DEF IInv, HostInv
<1>6. GuestInv'
  BY <1>1 DEF IInv, GuestInv
<1>7. HonestInv'
  <2>1. EarliestSoFar' <=> EarliestSoFar
    BY <1>1, <1>2 DEF EarliestSoFar, Canonical
  <2>2. \A m \in DOMAIN fetched : fetched'[m] # RpcFailed =>
          fetched'[m] = fetched[m] /\ (Canonical(fetched[m])' <=> Canonical(fetched[m]))
    BY <1>1, <1>3 DEF Canonical
  <2> QED
    BY <1>1, <1>2, <1>3, <2>1, <2>2 DEF IInv, HonestInv, Canonical
<1> QED
  BY <1>4, <1>5, <1>6, <1>7 DEF IInv

(* The headers given to the program, in order of number. *)
LEMMA HeadersTyped ==
  ASSUME IInv, pc = "headers", AllFetched, ~HeaderRpcFailed
  PROVE  LET first == Number[start_header]
             last  == Number[latest_l1_checkpoint_head]
         IN  /\ first \in Nat /\ last \in Nat
             /\ Len(InOrderOfNumber) = IF first > last THEN 0 ELSE last - first + 1
             /\ InOrderOfNumber \in Seq(Blocks)
             /\ \A i \in 1 .. Len(InOrderOfNumber) :
                  /\ first + i - 1 \in DOMAIN fetched
                  /\ InOrderOfNumber[i] = fetched[first + i - 1]
<1> DEFINE first == Number[start_header]
           last == Number[latest_l1_checkpoint_head]
           len == IF first > last THEN 0 ELSE last - first + 1
<1>1. first \in Nat /\ last \in Nat /\ DOMAIN fetched = first .. last
  BY PipelineAssumption DEF IInv, HostInv
<1>2. \A n \in first .. last : fetched[n] \in Blocks
  BY <1>1 DEF IInv, TypeOK, AllFetched, HeaderRpcFailed, Hashes
<1> HIDE DEF first, last
<1>3. Cardinality(first .. last) = len
  BY <1>1, FS_Interval
<1>4. len \in Nat
  BY <1>1
<1>5. InOrderOfNumber = [i \in 1 .. len |-> fetched[first + i - 1]]
  BY <1>1, <1>3 DEF InOrderOfNumber, first
<1>6. \A i \in 1 .. len : first + i - 1 \in first .. last
  BY <1>1
<1> HIDE DEF len
<1>7. InOrderOfNumber \in Seq(Blocks) /\ Len(InOrderOfNumber) = len
  BY <1>2, <1>4, <1>5, <1>6
<1>8. \A i \in 1 .. len : InOrderOfNumber[i] = fetched[first + i - 1]
  BY <1>5
<1> QED
  BY <1>1, <1>6, <1>7, <1>8 DEF first, last, len

(* What an honest operator's host submits is acceptable to the program.    *)
LEMMA HonestInput ==
  ASSUME IInv, pc = "headers", AllFetched, ~HeaderRpcFailed, honest, reorgs = 0,
         headers' = InOrderOfNumber,
         UNCHANGED <<boot_infos, latest_l1_checkpoint_head>>
  PROVE  G!Acceptable'
<1> DEFINE first == Number[start_header]
           last == Number[latest_l1_checkpoint_head]
           n == Len(InOrderOfNumber)
<1>1. /\ first \in Nat /\ last \in Nat
      /\ n = IF first > last THEN 0 ELSE last - first + 1
      /\ InOrderOfNumber \in Seq(Blocks)
      /\ \A i \in 1 .. n : /\ first + i - 1 \in DOMAIN fetched
                          /\ InOrderOfNumber[i] = fetched[first + i - 1]
  BY HeadersTyped
<1>2. /\ Honest /\ boot_infos = Decoded /\ EarliestSoFar
      /\ Canonical(latest_l1_checkpoint_head)
      /\ last = latest_checkpoint_head_nb
      /\ next_info = Len(public_values) + 1
      /\ \A m \in DOMAIN fetched : fetched[m] \notin {NoBlock, RpcFailed} =>
           Canonical(fetched[m]) /\ Number[fetched[m]] = m
  BY DEF IInv, HonestInv
<1> HIDE DEF first, last, n
<1>3. \A i \in 1 .. n : /\ InOrderOfNumber[i] \in ChainOf[tip]
                       /\ Number[InOrderOfNumber[i]] = first + i - 1
  BY <1>1, <1>2 DEF AllFetched, HeaderRpcFailed, Canonical
<1>4. /\ tip \in Blocks /\ ChainOf[tip] \subseteq Blocks
      /\ latest_l1_checkpoint_head \in ChainOf[tip]
  BY <1>2, ChainMembers DEF IInv, TypeOK, Canonical
<1>5. ASSUME NEW h \in ChainOf[tip], NEW k \in ChainOf[tip],
             Number[h] = Number[k]
      PROVE  h = k
  BY <1>4, <1>5, OneBlockPerNumber
<1>6. n \in Nat
  BY <1>1
<1>7. G!LinkedToCheckpoint'
  <2>1. ASSUME NEW i \in 1 .. n
        PROVE  InOrderOfNumber[i] =
                 IF i = n THEN latest_l1_checkpoint_head
                          ELSE Parent[InOrderOfNumber[i + 1]]
    <3>1. CASE i = n
      <4>1. Number[InOrderOfNumber[i]] = last
        BY <1>1, <1>3, <3>1
      <4>2. InOrderOfNumber[i] \in ChainOf[tip]
        BY <1>3
      <4> QED
        BY <1>4, <1>5, <3>1, <4>1, <4>2 DEF last
    <3>2. CASE i # n
      <4> DEFINE child == InOrderOfNumber[i + 1]
      <4>1. i + 1 \in 1 .. n /\ first + (i + 1) - 1 = first + i
        BY <1>1, <1>6, <3>2
      <4>2. child \in ChainOf[tip] /\ Number[child] = first + i
        BY <1>3, <4>1
      <4> HIDE DEF child
      <4>3. child \in Blocks /\ child # Genesis
        BY <1>1, <1>4, <4>2, PipelineAssumption
      <4>4. Parent[child] \in ChainOf[tip]
        BY <1>4, <4>2, <4>3, ChainClosed
      <4>5. /\ Number[Parent[child]] \in Nat
            /\ Number[child] = Number[Parent[child]] + 1
        BY <4>3, PipelineAssumption
      <4>6. Number[Parent[child]] = first + i - 1
        BY <1>1, <4>2, <4>5
      <4>7. InOrderOfNumber[i] = Parent[child]
        BY <1>3, <1>5, <4>4, <4>6
      <4> QED
        BY <3>2, <4>7 DEF child
    <3> QED
      BY <3>1, <3>2
  <2>2. DOMAIN headers' = 1 .. n /\ Len(headers') = n
    BY <1>1 DEF n
  <2> QED
    BY <2>1, <2>2 DEF G!LinkedToCheckpoint
<1>8. ASSUME NEW i \in DOMAIN boot_infos
      PROVE  \E j \in 1 .. n : InOrderOfNumber[j] = boot_infos[i].l1_head
  <2> DEFINE h == boot_infos[i].l1_head
  <2>1. i \in DOMAIN public_values /\ i \in 1 .. Len(public_values)
        /\ Len(public_values) \in Nat
    BY <1>2, PublicValuesTyped DEF Decoded, IInv, HostInv
  <2>2. h = InfoOf(i).l1_head
    BY <1>2, <2>1 DEF Decoded, InfoOf
  <2>3. h \in ChainOf[tip] /\ Number[h] <= last
    BY <1>2, <2>1, <2>2 DEF Honest, Canonical
  <2>4. Number[h] \in Nat
    BY <1>4, <2>3, PipelineAssumption
  <2>5. i < next_info
    BY <1>2, <2>1
  <2>6. first <= Number[h]
    BY <1>2, <2>1, <2>5 DEF EarliestSoFar, first
  <2> HIDE DEF h
  <2>7. Number[h] - first + 1 \in 1 .. n
        /\ first + (Number[h] - first + 1) - 1 = Number[h]
    BY <1>1, <2>3, <2>4, <2>6
  <2>8. InOrderOfNumber[Number[h] - first + 1] = h
    BY <1>3, <1>5, <2>3, <2>7
  <2> QED
    BY <2>7, <2>8 DEF h
<1>9. /\ Decoded \in Seq(ProvenInfos) /\ DOMAIN Decoded = DOMAIN public_values
      /\ DOMAIN public_values = 1 .. Len(public_values)
      /\ Len(public_values) \in Nat
  BY PublicValuesTyped DEF IInv, HostInv, Decoded
<1>10. G!Sequential'
  <2>1. Decoded # <<>>
    BY <1>2, <1>9 DEF Honest
  <2>2. ASSUME NEW i \in DOMAIN Decoded, i > 1
        PROVE  G!Joined(Decoded[i - 1], Decoded[i])
    <3>1. i \in DOMAIN public_values /\ i - 1 \in DOMAIN public_values
      BY <1>9, <2>2
    <3>2. Guest!Joined(InfoOf(i - 1), InfoOf(i))
      BY <1>2, <2>2, <3>1 DEF Honest
    <3> QED
      BY <3>1, <3>2 DEF Decoded, InfoOf, G!Joined, Guest!Joined
  <2> QED
    BY <1>2, <2>1, <2>2 DEF G!Sequential
<1>11. G!AllProven'
  BY <1>2, <1>9 DEF G!AllProven
<1>12. \A h \in G!Heads' : \E j \in DOMAIN headers' : headers'[j] = h
  <2>1. DOMAIN headers' = 1 .. n
    BY <1>1 DEF n
  <2> QED
    BY <1>8, <2>1 DEF G!Heads
<1> QED
  BY <1>7, <1>10, <1>11, <1>12 DEF G!Acceptable

LEMMA SubmitIInv == ASSUME IInv, Submit PROVE IInv'
<1>1. /\ UNCHANGED <<args, tip>> /\ UNCHANGED <<next_info, start_header, reorgs>>
      /\ UNCHANGED <<fetched, boot_infos, latest_l1_checkpoint_head>>
      /\ UNCHANGED <<guest_pc, committed>>
      /\ pc = "headers" /\ pc' = "submitted" /\ AllFetched /\ ~HeaderRpcFailed
      /\ headers' = InOrderOfNumber
      /\ position' = Len(headers') /\ current_hash' = latest_l1_checkpoint_head
      /\ l1_heads_map' = [h \in Guest!Heads |-> FALSE]
  BY DEF Submit, l1Vars
<1>2. /\ EncodesProofs' /\ Decoded' = Decoded /\ (Honest' <=> Honest)
      /\ UNCHANGED <<front, public_values, latest_checkpoint_head_nb, honest>>
  BY <1>1, ArgsFrame DEF IInv, HostInv
<1>3. headers' \in Seq(Blocks)
  BY <1>1, HeadersTyped
<1>4. TypeOK'
  BY <1>1, <1>2, <1>3 DEF IInv, TypeOK
<1>5. HostInv'
  BY <1>1, <1>2 DEF IInv, HostInv
<1>6. GuestInv'
  <2>1. G!Init'
    <3>1. guest_pc' = "sequence" /\ committed' = None
      BY <1>1 DEF IInv, GuestInv
    <3>2. boot_infos' \in Seq(Guest!RawBootInfo)
          /\ latest_l1_checkpoint_head' \in Hashes
      BY <1>4 DEF TypeOK
    <3>3. l1_heads_map' = [h \in G!Heads' |-> FALSE]
      BY <1>1 DEF Guest!Heads, G!Heads
    <3> QED
      BY <1>1, <1>3, <3>1, <3>2, <3>3 DEF G!Init
  <2>2. (G!Init => G!IInv)'
    BY GuestInit, PTL
  <2> QED
    BY <1>1, <2>1, <2>2 DEF GuestInv
<1>7. HonestInv'
  <2> SUFFICES ASSUME honest, reorgs = 0 PROVE G!Acceptable'
    BY <1>1, <1>2 DEF HonestInv, IInv, Canonical
  <2> QED
    BY <1>1, HonestInput
<1> QED
  BY <1>4, <1>5, <1>6, <1>7 DEF IInv

(* An honest operator's host panics while L1 only grows only if the RPC of *)
(* a header task failed, and no task does.                                 *)
LEMMA HonestNeverPanics ==
  ASSUME IInv, Panic, honest, reorgs = 0 PROVE HeaderRpcFailed
<1>1. /\ Honest /\ tip \in Blocks /\ Number[tip] \in Nat
      /\ latest_checkpoint_head_nb <= Number[tip]
  BY PipelineAssumption DEF IInv, HonestInv, Honest, TypeOK
<1>2. /\ DOMAIN public_values = 1 .. Len(public_values)
      /\ Len(public_values) \in Nat /\ Len(public_values) >= 1
  BY <1>1, PublicValuesTyped DEF IInv, HostInv, Honest
<1>3. CASE pc = "checkpoint" /\ latest_checkpoint_head_nb > Number[tip]
  BY <1>1, <1>3 DEF IInv, HostInv
<1>4. CASE pc = "earliest"
  <2>1. /\ boot_infos = Decoded /\ Len(boot_infos) = Len(public_values)
        /\ Canonical(latest_l1_checkpoint_head) /\ EarliestSoFar
    BY <1>4 DEF IInv, HonestInv, HostInv
  <2>2. CASE next_info <= Len(boot_infos)
    <3>1. next_info \in DOMAIN public_values
      BY <1>2, <2>1, <2>2 DEF IInv, TypeOK
    <3>2. boot_infos[next_info].l1_head = InfoOf(next_info).l1_head
      BY <2>1, <3>1 DEF Decoded, InfoOf
    <3>3. Canonical(boot_infos[next_info].l1_head)
      BY <1>1, <3>1, <3>2 DEF Honest
    <3>4. ~MayLack(boot_infos[next_info].l1_head)
      BY <1>1, <3>3, ChainMembers DEF MayLack, Canonical
    <3>5. ~(next_info > Len(boot_infos))
      BY <1>2, <2>1, <2>2 DEF IInv, TypeOK
    <3> QED
      BY <1>4, <3>4, <3>5 DEF Panic
  <2>3. CASE next_info > Len(boot_infos)
    <3>1. start_header # NoBlock
      BY <1>2, <2>1, <2>3 DEF EarliestSoFar
    <3>2. ~MayLack(latest_l1_checkpoint_head)
      BY <1>1, <2>1, ChainMembers DEF MayLack, Canonical
    <3>3. ~(next_info <= Len(boot_infos))
      BY <1>2, <2>1, <2>3 DEF IInv, TypeOK
    <3> QED
      BY <1>4, <3>1, <3>2, <3>3 DEF Panic
  <2> QED
    BY <1>2, <2>1, <2>2, <2>3 DEF IInv, TypeOK
<1>5. CASE pc = "decode" /\ subproofs = "unreadable"
  BY <1>1, <1>5 DEF Honest
<1>6. CASE pc = "headers" /\ (HeaderRpcFailed \/ subproofs = "other")
  BY <1>1, <1>6 DEF Honest
<1> QED
  BY <1>3, <1>4, <1>5, <1>6 DEF Panic

LEMMA HonestTasks ==
  ASSUME IInv, NEW n \in DOMAIN fetched, TaskPanics(n), honest, reorgs = 0
  PROVE  FALSE
<1>1. /\ Number[tip] \in Nat /\ latest_checkpoint_head_nb <= Number[tip]
      /\ pc = "headers" /\ n > Number[tip]
  BY PipelineAssumption DEF IInv, HonestInv, Honest, TypeOK, TaskPanics
<1>2. /\ DOMAIN fetched = Number[start_header] .. Number[latest_l1_checkpoint_head]
      /\ start_header \in Blocks
      /\ Number[latest_l1_checkpoint_head] = latest_checkpoint_head_nb
      /\ latest_checkpoint_head_nb \in Nat
  BY <1>1 DEF IInv, HostInv, HonestInv
<1>3. Number[start_header] \in Nat
  BY <1>2, PipelineAssumption
<1> QED
  BY <1>1, <1>2, <1>3

Stop == Panic \/ RpcError \/ \E n \in DOMAIN fetched : TaskPanics(n)

LEMMA StopIInv == ASSUME IInv, Stop PROVE IInv'
<1>1. /\ UNCHANGED <<args, tip>> /\ UNCHANGED <<next_info, start_header, reorgs>>
      /\ UNCHANGED <<fetched, headers, boot_infos, latest_l1_checkpoint_head>>
      /\ UNCHANGED <<guest_pc, committed>>
      /\ pc # "submitted" /\ pc' \in {"panicked", "taskPanicked", "failed"}
      /\ pc' = "panicked" => Panic
      /\ pc' = "taskPanicked" => \E n \in DOMAIN fetched : TaskPanics(n)
  BY DEF Stop, Panic, RpcError, TaskPanics, l1Vars, guestVars, stdinVars
<1>2. /\ EncodesProofs' /\ Decoded' = Decoded /\ (Honest' <=> Honest)
      /\ UNCHANGED <<front, public_values, latest_checkpoint_head_nb, honest>>
  BY <1>1, ArgsFrame DEF IInv, HostInv
<1>3. TypeOK'
  BY <1>1, <1>2 DEF IInv, TypeOK
<1>4. HostInv'
  BY <1>1, <1>2 DEF IInv, HostInv
<1>5. GuestInv'
  BY <1>1 DEF IInv, GuestInv
<1>6. HonestInv'
  <2>1. HeaderRpcFailed' <=> HeaderRpcFailed
    BY <1>1 DEF HeaderRpcFailed
  <2> QED
    BY <1>1, <1>2, <2>1, HonestNeverPanics, HonestTasks DEF HonestInv, IInv
<1> QED
  BY <1>3, <1>4, <1>5, <1>6 DEF IInv

-----------------------------------------------------------------------------
(* The program, and L1. *)
LEMMA RunGuestIInv == ASSUME IInv, RunGuest PROVE IInv'
<1>1. /\ UNCHANGED <<args, tip>> /\ UNCHANGED <<next_info, start_header, reorgs>>
      /\ UNCHANGED <<fetched, pc>> /\ pc = "submitted"
      /\ Guest!Next
  BY DEF RunGuest, l1Vars, hostVars
<1>2. UNCHANGED <<boot_infos, headers, latest_l1_checkpoint_head>>
  BY <1>1
  DEF Guest!Next, Guest!CheckSequence, Guest!VerifyProofs, Guest!VisitHeader,
      Guest!CheckHeads, Guest!Commit, Guest!Abort, Guest!inputs
<1>3. G!Next
  <2>1. CASE Guest!CheckSequence
    BY <2>1
    DEF Guest!CheckSequence, G!CheckSequence, Guest!Sequential, G!Sequential,
        Guest!Joined, G!Joined, Guest!inputs, G!inputs, Guest!loopVars,
        G!loopVars, G!Next
  <2>2. CASE Guest!VerifyProofs
    BY <2>2
    DEF Guest!VerifyProofs, G!VerifyProofs, Guest!AllProven, G!AllProven,
        Guest!inputs, G!inputs, Guest!loopVars, G!loopVars, G!Next
  <2>3. CASE Guest!VisitHeader
    BY <2>3
    DEF Guest!VisitHeader, G!VisitHeader, Guest!HeaderMatches, G!HeaderMatches,
        Guest!MarkFound, G!MarkFound, Guest!inputs, G!inputs, G!Next
  <2>4. CASE Guest!CheckHeads
    BY <2>4
    DEF Guest!CheckHeads, G!CheckHeads, Guest!AllFound, G!AllFound,
        Guest!inputs, G!inputs, Guest!loopVars, G!loopVars, G!Next
  <2>5. CASE Guest!Commit
    BY <2>5
    DEF Guest!Commit, G!Commit, Guest!Consolidated, G!Consolidated,
        Guest!inputs, G!inputs, Guest!loopVars, G!loopVars, G!Next
  <2>6. CASE Guest!Abort
    BY <2>6
    DEF Guest!Abort, G!Abort, Guest!Sequential, G!Sequential, Guest!Joined,
        G!Joined, Guest!AllProven, G!AllProven, Guest!HeaderMatches,
        G!HeaderMatches, Guest!AllFound, G!AllFound, Guest!inputs, G!inputs,
        Guest!loopVars, G!loopVars, G!Next
  <2> QED
    BY <1>1, <2>1, <2>2, <2>3, <2>4, <2>5, <2>6 DEF Guest!Next
<1>4. G!IInv'
  BY <1>1, <1>3, GuestNext DEF IInv, GuestInv
<1>5. /\ EncodesProofs' /\ Decoded' = Decoded /\ (Honest' <=> Honest)
      /\ UNCHANGED <<front, public_values, latest_checkpoint_head_nb, honest>>
  BY <1>1, ArgsFrame DEF IInv, HostInv
<1>6. TypeOK'
  <2>1. committed' \in Guest!RawBootInfo \cup {None}
    BY <1>4, GuestTypes DEF G!IInv, G!TypeOK
  <2> QED
    BY <1>1, <1>2, <1>5, <2>1 DEF IInv, TypeOK
<1>7. HostInv'
  BY <1>1, <1>2, <1>5 DEF IInv, HostInv
<1>8. GuestInv'
  BY <1>1, <1>4 DEF GuestInv
<1>9. HonestInv'
  <2> SUFFICES ASSUME honest, reorgs = 0 PROVE G!Acceptable'
    BY <1>1, <1>2, <1>5 DEF HonestInv, IInv, Canonical
  <2>1. G!Acceptable
    BY <1>1 DEF IInv, HonestInv
  <2> QED
    BY <1>2, <2>1
    DEF G!Acceptable, G!Sequential, G!AllProven, G!LinkedToCheckpoint, G!Heads
<1> QED
  BY <1>6, <1>7, <1>8, <1>9 DEF IInv

(* Growth keeps the chain and its answers; a reorg ends what is promised.  *)
LEMMA L1IInv == ASSUME IInv, Grow \/ Reorg PROVE IInv'
<1>1. /\ UNCHANGED args /\ UNCHANGED <<next_info, start_header, fetched, pc>>
      /\ UNCHANGED stdinVars /\ UNCHANGED guestVars
  BY DEF Grow, Reorg, hostVars
<1>2. /\ UNCHANGED <<front, public_values, latest_checkpoint_head_nb, honest>>
      /\ UNCHANGED <<boot_infos, headers, latest_l1_checkpoint_head>>
      /\ UNCHANGED <<subproofs, guest_pc, committed>>
  BY <1>1 DEF args, stdinVars, guestVars
<1>3. EncodesProofs' /\ Decoded' = Decoded
  BY <1>2 DEF EncodesProofs, Decoded, IInv, HostInv
<1>4. /\ tip \in Blocks /\ tip' \in Blocks
      /\ reorgs' \in 0 .. MaxReorgs /\ reorgs \in Nat
      /\ reorgs' = reorgs \/ reorgs' = reorgs + 1
      /\ reorgs' = reorgs => Grow
  BY PipelineAssumption DEF Grow, Reorg, IInv, TypeOK
<1>5. TypeOK'
  BY <1>1, <1>2, <1>4 DEF IInv, TypeOK
<1>6. HostInv'
  BY <1>1, <1>2, <1>3 DEF IInv, HostInv
<1>7. GuestInv'
  <2>1. CASE pc = "submitted"
    BY <1>1, <2>1, GuestFrame DEF IInv, GuestInv
  <2>2. CASE pc # "submitted"
    BY <1>1, <1>2, <2>2 DEF IInv, GuestInv
  <2> QED
    BY <2>1, <2>2
<1>8. HonestInv'
  <2> SUFFICES ASSUME honest, reorgs' = 0 PROVE HonestInv'
    BY <1>2 DEF HonestInv
  <2>1. Grow /\ reorgs = 0
    BY <1>4
  <2>2. tip' # Genesis /\ Parent[tip'] = tip
    BY <2>1 DEF Grow
  <2>3. /\ ChainOf[tip] \subseteq ChainOf[tip']
        /\ Number[tip'] = Number[tip] + 1
        /\ Number[tip] \in Nat
    BY <1>4, <2>2, ChainOfChild, PipelineAssumption
  <2>4. \A h : Canonical(h) => Canonical(h)'
    BY <2>3 DEF Canonical
  <2>5. Honest => Honest'
    <3>1. latest_checkpoint_head_nb \in Nat
      BY DEF IInv, HostInv
    <3>2. latest_checkpoint_head_nb <= Number[tip]
            => latest_checkpoint_head_nb <= Number[tip']
      BY <2>3, <3>1
    <3> QED
      BY <1>2, <2>4, <3>2 DEF Honest, InfoOf
  <2>6. EarliestSoFar => EarliestSoFar'
    BY <1>1, <1>2, <2>4 DEF EarliestSoFar
  <2>7. G!Acceptable => G!Acceptable'
    BY <1>2
    DEF G!Acceptable, G!Sequential, G!AllProven, G!LinkedToCheckpoint, G!Heads
  <2>8. Canonical(latest_l1_checkpoint_head)
          => Canonical(latest_l1_checkpoint_head)'
    BY <1>2, <2>3 DEF Canonical
  <2>9. \A n \in DOMAIN fetched :
          Canonical(fetched[n]) => Canonical(fetched[n])'
    BY <1>1, <2>3 DEF Canonical
  <2>10. HeaderRpcFailed' <=> HeaderRpcFailed
    BY <1>1 DEF HeaderRpcFailed
  <2> QED
    BY <1>1, <1>2, <1>3, <2>1, <2>5, <2>6, <2>7, <2>8, <2>9, <2>10
    DEF IInv, HonestInv
<1> QED
  BY <1>5, <1>6, <1>7, <1>8 DEF IInv

LEMMA StutterIInv == ASSUME IInv, UNCHANGED vars PROVE IInv'
<1>1. /\ UNCHANGED args /\ UNCHANGED <<next_info, start_header, fetched, pc>>
      /\ UNCHANGED stdinVars /\ UNCHANGED guestVars /\ UNCHANGED <<tip, reorgs>>
  BY DEF vars, hostVars, l1Vars
<1>2. /\ UNCHANGED <<boot_infos, headers, latest_l1_checkpoint_head>>
      /\ UNCHANGED <<guest_pc, committed>>
  BY <1>1 DEF stdinVars, guestVars
<1>3. /\ EncodesProofs' /\ Decoded' = Decoded /\ (Honest' <=> Honest)
      /\ UNCHANGED <<front, public_values, latest_checkpoint_head_nb, honest>>
  BY <1>1, ArgsFrame DEF IInv, HostInv
<1>4. TypeOK'
  BY <1>1, <1>2, <1>3 DEF IInv, TypeOK
<1>5. HostInv'
  BY <1>1, <1>2, <1>3 DEF IInv, HostInv
<1>6. GuestInv'
  <2>1. CASE pc = "submitted"
    BY <1>1, <2>1, GuestFrame DEF IInv, GuestInv
  <2>2. CASE pc # "submitted"
    BY <1>1, <1>2, <2>2 DEF IInv, GuestInv
  <2> QED
    BY <2>1, <2>2
<1>7. HonestInv'
  <2>1. G!Acceptable' <=> G!Acceptable
    BY <1>2
    DEF G!Acceptable, G!Sequential, G!AllProven, G!LinkedToCheckpoint, G!Heads
  <2>2. EarliestSoFar' <=> EarliestSoFar
    BY <1>1, <1>2, <1>3 DEF EarliestSoFar, Canonical
  <2>3. HeaderRpcFailed' <=> HeaderRpcFailed
    BY <1>1 DEF HeaderRpcFailed
  <2> QED
    BY <1>1, <1>2, <1>3, <2>1, <2>2, <2>3 DEF IInv, HonestInv, Canonical
<1> QED
  BY <1>4, <1>5, <1>6, <1>7 DEF IInv

LEMMA NextIInv == IInv /\ [Next]_vars => IInv'
<1> SUFFICES ASSUME IInv, [Next]_vars PROVE IInv'
  OBVIOUS
<1>1. CASE LoadProofs
  BY <1>1, LoadProofsIInv
<1>2. CASE ReadProofs
  BY <1>2, ReadProofsIInv
<1>3. CASE ReadCheckpoint
  BY <1>3, ReadCheckpointIInv
<1>4. CASE ReadHead
  BY <1>4, ReadHeadIInv
<1>5. CASE SpawnTasks
  BY <1>5, SpawnTasksIInv
<1>6. CASE \E n \in DOMAIN fetched : FetchHeader(n)
  BY <1>6, FetchHeaderIInv
<1>7. CASE Submit
  BY <1>7, SubmitIInv
<1>8. CASE Stop
  BY <1>8, StopIInv
<1>9. CASE RunGuest
  BY <1>9, RunGuestIInv
<1>10. CASE Grow \/ Reorg
  BY <1>10, L1IInv
<1>11. CASE UNCHANGED vars
  BY <1>11, StutterIInv
<1>12. CASE \E n \in DOMAIN fetched : HeaderRpcError(n)
  BY <1>12, HeaderRpcErrorIInv
<1> QED
  BY <1>1, <1>2, <1>3, <1>4, <1>5, <1>6, <1>7, <1>8, <1>9, <1>10, <1>11, <1>12
  DEF Next, HostStep, Stop

LEMMA Invariance == Spec => []IInv
<1>1. Init => IInv
  BY InitIInv
<1>2. IInv /\ [Next]_vars => IInv'
  BY NextIInv
<1> QED
  BY <1>1, <1>2, PTL DEF Spec

-----------------------------------------------------------------------------
(* Host and program keep their types, and the inputs of the program have   *)
(* those it expects, for every tree of blocks and every list of proofs.    *)
THEOREM TypeCorrect == Spec => []TypeOK
<1>1. IInv => TypeOK
  BY DEF IInv
<1> QED
  BY <1>1, Invariance, PTL

(* While L1 only grows, an honest operator's host panics only on the       *)
(* failed RPC of a header task, no task panics, and the program never      *)
(* aborts on what is submitted: for every number of ranges, every order of *)
(* the tasks, every failure of an RPC and every growth between the reads.  *)
THEOREM HonestSafe == Spec => []HonestNeverAborts
<1>1. IInv => HonestNeverAborts
  <2> SUFFICES ASSUME IInv, reorgs = 0, honest
               PROVE  /\ pc = "panicked" => HeaderRpcFailed
                      /\ pc # "taskPanicked" /\ guest_pc # "aborted"
    BY DEF HonestNeverAborts
  <2>1. CASE pc = "submitted"
    <3>1. G!Acceptable /\ G!IInv
      BY <2>1 DEF IInv, HonestInv, GuestInv
    <3> QED
      BY <2>1, <3>1 DEF G!IInv, G!StageInv
  <2>2. CASE pc # "submitted"
    BY <2>2 DEF IInv, HonestInv, GuestInv
  <2> QED
    BY <2>1, <2>2
<1> QED
  BY <1>1, Invariance, PTL

(* Whatever L1 does between the reads, a proof is made from one chain: the *)
(* headers end in the checkpoint, and they and all L1 heads are on its     *)
(* chain.                                                                  *)
THEOREM OneFork == Spec => []NoProofAcrossForks
<1>1. IInv => NoProofAcrossForks
  <2> SUFFICES ASSUME IInv, guest_pc = "done" PROVE NoProofAcrossForks
    BY DEF NoProofAcrossForks
  <2> DEFINE n == Len(headers)
             cp == latest_l1_checkpoint_head
  <2>1. pc = "submitted" /\ G!IInv
    BY DEF IInv, GuestInv
  <2>2. /\ G!Sequential /\ G!AllProven /\ position = 0 /\ G!AllFound
        /\ headers \in Seq(Blocks) /\ n \in Nat /\ boot_infos \in Seq(Guest!RawBootInfo)
    BY <2>1 DEF G!IInv, G!StageInv, IInv, TypeOK
  <2>3. \A i \in 1 .. n :
          headers[i] = IF i = n THEN cp ELSE Parent[headers[i + 1]]
    BY <2>1, <2>2 DEF G!IInv, G!WalkInv, G!Visited, G!Expected
  <2>4. \A h \in G!Heads : \E i \in 1 .. n : headers[i] = h
    BY <2>1, <2>2 DEF G!IInv, G!TypeOK, G!WalkInv, G!AllFound
  <2>5. n >= 1
    <3>1. boot_infos[1].l1_head \in G!Heads
      BY <2>2 DEF G!Sequential, G!Heads
    <3> QED
      BY <2>2, <2>4, <3>1
  <2>6. headers[n] = cp /\ cp \in Blocks
    BY <2>2, <2>3, <2>5
  <2> DEFINE Good == {j \in 1 .. n : headers[n + 1 - j] \in ChainOf[cp]}
  <2> HIDE DEF n, cp
  <2>7. 1 \in Good
    BY <2>2, <2>5, <2>6, ChainMembers
  <2>8. ASSUME NEW j \in 2 .. n, j - 1 \in Good PROVE j \in Good
    <3> DEFINE i == n + 1 - j
    <3>1. /\ i \in 1 .. n /\ i + 1 \in 1 .. n /\ i # n
          /\ n + 1 - (j - 1) = i + 1 /\ j \in 1 .. n
      BY <2>2
    <3>2. headers[i + 1] \in ChainOf[cp]
      BY <2>8, <3>1
    <3>3. headers[i] = Parent[headers[i + 1]] /\ headers[i] \in Blocks
      BY <2>2, <2>3, <3>1 DEF n
    <3>4. headers[i + 1] # Genesis
      BY <3>3, PipelineAssumption
    <3>5. headers[i] \in ChainOf[cp]
      BY <2>6, <3>2, <3>3, <3>4, ChainClosed
    <3> QED
      BY <3>1, <3>5
  <2>9. Good \in SUBSET (1 .. n)
    OBVIOUS
  <2> HIDE DEF Good
  <2>10. Good = 1 .. n
    BY <2>2, <2>5, <2>7, <2>8, <2>9, G!AlongTheList, GuestAssumption
  <2>11. ASSUME NEW i \in 1 .. n PROVE headers[i] \in ChainOf[cp]
    <3>1. n + 1 - i \in 1 .. n /\ n + 1 - (n + 1 - i) = i
      BY <2>2
    <3>2. n + 1 - i \in Good
      BY <2>10, <3>1
    <3> QED
      BY <3>1, <3>2 DEF Good
  <2>12. \A h \in Guest!Heads : h \in ChainOf[cp]
    BY <2>4, <2>11 DEF Guest!Heads, G!Heads
  <2>13. headers # <<>> /\ DOMAIN headers = 1 .. n
    BY <2>2, <2>5 DEF n
  <2> QED
    BY <2>6, <2>11, <2>12, <2>13 DEF NoProofAcrossForks, n, cp
<1> QED
  BY <1>1, Invariance, PTL

-----------------------------------------------------------------------------
(* A chain holds the chains of its blocks.                                 *)
LEMMA ChainsNest ==
  ASSUME NEW x \in Blocks, NEW y \in ChainOf[x]
  PROVE  ChainOf[y] \subseteq ChainOf[x]
<1>1. y \in Blocks /\ Guest!OnChainOf(y, x)
  BY DEF ChainOf
<1>2. ASSUME NEW h \in ChainOf[y] PROVE h \in ChainOf[x]
  <2>1. h \in Blocks /\ Guest!OnChainOf(h, y)
    BY <1>1, <1>2 DEF ChainOf
  <2>2. ASSUME NEW S \in SUBSET Hashes, x \in S, Guest!ClosedUnderParent(S)
        PROVE  h \in S
    <3>1. y \in S
      BY <1>1, <2>2 DEF Guest!OnChainOf
    <3> QED
      BY <2>1, <2>2, <3>1 DEF Guest!OnChainOf
  <2>3. Guest!OnChainOf(h, x)
    BY <2>2 DEF Guest!OnChainOf
  <2> QED
    BY <2>1, <2>3 DEF ChainOf
<1> QED
  BY <1>2

(* agg.rs reads its checkpoint by number, so it is a block of the node's   *)
(* chain and stays one while L1 only grows, whatever list of proofs and    *)
(* whatever number the operator gave.                                      *)
CheckpointInv ==
  front = "agg" /\ reorgs = 0 /\ pc \in {"earliest", "headers", "submitted"}
    => Canonical(latest_l1_checkpoint_head)

LEMMA NextCheckpoint ==
  IInv /\ CheckpointInv /\ [Next]_vars => CheckpointInv'
<1> SUFFICES ASSUME IInv, CheckpointInv, [Next]_vars PROVE CheckpointInv'
  OBVIOUS
<1>1. tip \in Blocks /\ Number[tip] \in Nat /\ latest_checkpoint_head_nb \in Nat
  BY PipelineAssumption DEF IInv, TypeOK, HostInv
<1>2. CASE LoadProofs
  BY <1>2 DEF LoadProofs, CheckpointInv
<1>3. CASE ReadProofs
  BY <1>3 DEF ReadProofs, args, CheckpointInv
<1>4. CASE ReadCheckpoint
  <2>1. At(latest_checkpoint_head_nb) \in ChainOf[tip]
    BY <1>1, <1>4, AtNumber DEF ReadCheckpoint
  <2> QED
    BY <1>4, <2>1 DEF ReadCheckpoint, l1Vars, CheckpointInv, Canonical
<1>5. CASE ReadHead \/ SpawnTasks
  BY <1>5 DEF ReadHead, SpawnTasks, args, stdinVars, l1Vars, CheckpointInv,
     Canonical
<1>6. CASE \E n \in DOMAIN fetched : FetchHeader(n) \/ HeaderRpcError(n)
  BY <1>6 DEF FetchHeader, HeaderRpcError, args, stdinVars, l1Vars, CheckpointInv,
     Canonical
<1>7. CASE Submit
  BY <1>7 DEF Submit, args, l1Vars, CheckpointInv, Canonical
<1>8. CASE Stop
  BY <1>8 DEF Stop, Panic, RpcError, TaskPanics, CheckpointInv
<1>9. CASE RunGuest
  <2>1. /\ UNCHANGED <<front, pc, tip, reorgs>>
        /\ Guest!Next
    BY <1>9 DEF RunGuest, hostVars, args, l1Vars
  <2>2. UNCHANGED latest_l1_checkpoint_head
    BY <2>1
    DEF Guest!Next, Guest!CheckSequence, Guest!VerifyProofs, Guest!VisitHeader,
        Guest!CheckHeads, Guest!Commit, Guest!Abort, Guest!inputs
  <2> QED
    BY <2>1, <2>2 DEF CheckpointInv, Canonical
<1>10. CASE Grow
  <2>1. /\ UNCHANGED <<front, pc, reorgs, latest_l1_checkpoint_head>>
        /\ tip' \in Blocks /\ tip' # Genesis /\ Parent[tip'] = tip
    BY <1>10 DEF Grow, hostVars, args, stdinVars
  <2>2. ChainOf[tip] \subseteq ChainOf[tip']
    BY <2>1, ChainOfChild
  <2> QED
    BY <2>1, <2>2 DEF CheckpointInv, Canonical
<1>11. CASE Reorg
  <2>1. reorgs' # 0
    BY <1>11 DEF Reorg, IInv, TypeOK
  <2> QED
    BY <2>1 DEF CheckpointInv
<1>12. CASE UNCHANGED vars
  BY <1>12 DEF vars, hostVars, args, stdinVars, l1Vars, CheckpointInv, Canonical
<1> QED
  BY <1>2, <1>3, <1>4, <1>5, <1>6, <1>7, <1>8, <1>9, <1>10, <1>11, <1>12
  DEF Next, HostStep, Stop

LEMMA CheckpointOnL1 == Spec => [](IInv /\ CheckpointInv)
<1>1. Init => IInv /\ CheckpointInv
  BY InitIInv DEF Init, CheckpointInv
<1>2. IInv /\ CheckpointInv /\ [Next]_vars => (IInv /\ CheckpointInv)'
  BY NextIInv, NextCheckpoint
<1> QED
  BY <1>1, <1>2, PTL DEF Spec

(* What agg.rs settles while L1 only grows is sound if range proofs from   *)
(* heads on L1 are: C holds the canonical L2 outputs.  The checkpoint it   *)
(* reads by number is the one thing AggregationClientProofs!WhenWhole      *)
(* leaves open; the list of proofs need not be honest, and may hold proofs *)
(* from other forks that say anything.                                     *)
RangeProofsSound(C) ==
  \A p \in ProvenInfos : p.l1_head \in ChainOf[tip] => G!SoundInfo(C, p)

THEOREM SettlesSound ==
  ASSUME NEW CONSTANT C
  PROVE  Spec => [](front = "agg" /\ reorgs = 0 /\ committed # None =>
                      (RangeProofsSound(C) => G!SoundInfo(C, committed)))
<1>1. IInv /\ CheckpointInv /\ NoProofAcrossForks =>
        (front = "agg" /\ reorgs = 0 /\ committed # None =>
           (RangeProofsSound(C) => G!SoundInfo(C, committed)))
  <2> SUFFICES ASSUME IInv, CheckpointInv, NoProofAcrossForks,
                      front = "agg", reorgs = 0, committed # None,
                      RangeProofsSound(C)
               PROVE  G!SoundInfo(C, committed)
    OBVIOUS
  <2>1. pc = "submitted" /\ G!IInv
    BY DEF IInv, GuestInv
  <2>2. /\ guest_pc = "done" /\ committed = G!Consolidated
        /\ G!Sequential /\ G!AllProven /\ boot_infos \in Seq(G!RawBootInfo)
    BY <2>1 DEF G!IInv, G!StageInv, G!TypeOK
  <2>3. latest_l1_checkpoint_head \in ChainOf[tip] /\ tip \in Blocks
    BY <2>1 DEF CheckpointInv, Canonical, IInv, TypeOK
  <2>4. \A h \in Guest!Heads : h \in ChainOf[tip]
    BY <2>2, <2>3, ChainsNest DEF NoProofAcrossForks
  <2>5. ASSUME NEW i \in 1 .. Len(boot_infos)
        PROVE  G!SoundInfo(C, boot_infos[i])
    <3>1. i \in DOMAIN boot_infos
      BY <2>2
    <3>2. boot_infos[i] \in ProvenInfos
      BY <2>2, <3>1 DEF G!AllProven
    <3>3. boot_infos[i].l1_head \in ChainOf[tip]
      BY <2>4, <3>1 DEF Guest!Heads
    <3> QED
      BY <3>2, <3>3 DEF RangeProofsSound
  <2> QED
    BY <2>2, <2>5, G!ConsolidatedSound, GuestAssumption
<1> QED
  BY <1>1, CheckpointOnL1, OneFork, PTL
==============================================================================
