------------------------ MODULE ZKL2OutputOracleProofs ------------------------
(***************************************************************************)
(* Machine-checked theorems about ZKL2OutputOracle, for every value of the *)
(* constants that meets the assumptions of that module.                    *)
(***************************************************************************)
EXTENDS ZKL2OutputOracle, WellFoundedInduction, TLAPS

(* Once initialize has run the interval and the block time are positive,   *)
(* and at all times the starting block leaves room below 2^128 for every   *)
(* block whose L2 time is in the past.                                     *)
ConfigSound ==
  /\ initialized = 2 =>
       config.submissionInterval > 0 /\ config.l2BlockTime > 0
  /\ config.startingBlockNumber + MaxTime < Mod128

(* The inductive invariant behind the order of the outputs: ConfigSound    *)
(* keeps the uint128 casts of a proposal exact and its block above the     *)
(* latest one.                                                             *)
IInv == TypeOK /\ OutputsOrdered /\ EventsReplayOutputs /\ ConfigSound

-----------------------------------------------------------------------------
(* Facts about lists of outputs. *)

LEMMA PrefixFacts ==
  ASSUME NEW S, NEW s \in Seq(S), NEW i \in 0 .. Len(s)
  PROVE  /\ SubSeq(s, 1, i) \in Seq(S)
         /\ Len(SubSeq(s, 1, i)) = i
         /\ \A j \in 1 .. i : SubSeq(s, 1, i)[j] = s[j]
  OBVIOUS

LEMMA AppendFacts ==
  ASSUME NEW S, NEW s \in Seq(S), NEW e \in S
  PROVE  /\ Append(s, e) \in Seq(S)
         /\ Len(Append(s, e)) = Len(s) + 1
         /\ \A j \in 1 .. Len(s) : Append(s, e)[j] = s[j]
         /\ Append(s, e)[Len(s) + 1] = e
  OBVIOUS

(* A prefix of an ordered list is ordered. *)
LEMMA OrderedPrefix ==
  ASSUME NEW s \in Seq(OutputProposal), Ordered(s), NEW i \in 0 .. Len(s)
  PROVE  Ordered(SubSeq(s, 1, i))
BY DEF Ordered

(* An output above the last one, and no older, keeps the list ordered. *)
LEMMA OrderedAppend ==
  ASSUME NEW s \in Seq(OutputProposal), Ordered(s), NEW e \in OutputProposal,
         \A i \in DOMAIN s : s[i].timestamp <= e.timestamp,
         s # <<>> => s[Len(s)].l2BlockNumber < e.l2BlockNumber
  PROVE  Ordered(Append(s, e))
<1>1. \A i \in DOMAIN s : s[i].l2BlockNumber < e.l2BlockNumber
  <2> SUFFICES ASSUME NEW i \in DOMAIN s
               PROVE  s[i].l2BlockNumber < e.l2BlockNumber
    OBVIOUS
  <2>1. s[Len(s)].l2BlockNumber < e.l2BlockNumber
    OBVIOUS
  <2>2. i = Len(s) \/ s[i].l2BlockNumber < s[Len(s)].l2BlockNumber
    BY DEF Ordered
  <2>3. s[i] \in OutputProposal /\ s[Len(s)] \in OutputProposal
    OBVIOUS
  <2> QED
    BY <2>1, <2>2, <2>3 DEF OutputProposal
<1> QED
  BY <1>1 DEF Ordered

(* A product with a positive factor is no smaller than the other factor. *)
LEMMA ProductAtLeast ==
  ASSUME NEW x \in Nat, NEW y \in Nat, y > 0
  PROVE  x * y \in Nat /\ x <= x * y
<1>1. PICK k \in Nat : y = k + 1
  <2>1. y - 1 \in Nat
    OBVIOUS
  <2> QED
    BY <2>1
<1>2. x * y = x * k + x /\ x * k \in Nat
  BY <1>1
<1> QED
  BY <1>2

(* The casts of initialize and proposeL2Output to uint128 are exact below  *)
(* 2^128.                                                                  *)
LEMMA U128Exact ==
  ASSUME NEW x \in Nat, x < Mod128
  PROVE  U128(x) = x
  BY ChainAssumption DEF U128

(* The block of a proposal that passes the checks of proposeL2Output fits  *)
(* in a uint128: l2BlockTime is positive, so it is less than MaxTime       *)
(* blocks above the first one.                                             *)
LEMMA ClaimFits ==
  ASSUME IInv, initialized = 2, NEW blk \in Nat, BlockInRange(blk)
  PROVE  blk < Mod128
<1> DEFINE offset == blk - config.startingBlockNumber
<1>1. /\ config.startingBlockNumber \in Nat /\ config.startingTimestamp \in Nat
      /\ config.l2BlockTime \in Nat /\ config.l2BlockTime > 0
      /\ config.startingBlockNumber + MaxTime < Mod128
      /\ now \in 0 .. MaxTime
  BY DEF IInv, TypeOK, ConfigSound, Config
<1>2. offset \in Nat
  BY <1>1 DEF BlockInRange
<1>3. offset <= offset * config.l2BlockTime /\ offset * config.l2BlockTime \in Nat
  BY <1>1, <1>2, ProductAtLeast
<1>4. config.startingTimestamp + offset * config.l2BlockTime < now
  BY DEF BlockInRange, computeL2Timestamp
<1>5. offset < MaxTime
  BY <1>1, <1>2, <1>3, <1>4, ChainAssumption
<1> QED
  BY <1>1, <1>5, ChainAssumption

-----------------------------------------------------------------------------
(* The inductive invariant. *)

LEMMA InitIInv == Init => IInv
<1> SUFFICES ASSUME Init PROVE IInv
  OBVIOUS
<1>1. PICK s \in ProxyStorage :
        /\ l2Outputs = s.l2Outputs
        /\ config = s.config
        /\ initialized = s.initialized
        /\ attested = [i \in 1 .. Len(s.l2Outputs) |-> NoProof]
        /\ replayed = s.l2Outputs
  BY DEF Init
<1>2. /\ s.l2Outputs \in Seq(OutputProposal)
      /\ s.config \in Config
      /\ s.initialized \in {0, 1}
      /\ Ordered(s.l2Outputs)
      /\ s.config.startingBlockNumber + MaxTime < Mod128
      /\ \A i \in DOMAIN s.l2Outputs : s.l2Outputs[i].timestamp <= StartTime
  BY StorageAssumption
<1>3. /\ attested \in Seq(PublicValues \cup {NoProof})
      /\ Len(attested) = Len(l2Outputs)
  BY <1>1, <1>2
<1>4. TypeOK
  <2>1. /\ owner \in Addresses
        /\ vkey \in Words /\ verifierGateway \in Addresses
        /\ historicBlockHashes \in [L1Numbers -> Words]
    BY InputAssumption DEF Init, Addresses
  <2>2. now \in 0 .. MaxTime /\ l1Number \in L1Numbers
    BY ChainAssumption DEF Init, L1Numbers
  <2>3. initialized \in 0 .. 2
    BY <1>1, <1>2
  <2> QED
    BY <1>1, <1>2, <1>3, <2>1, <2>2, <2>3 DEF TypeOK
<1>5. OutputsOrdered
  <2>1. now = StartTime
    BY DEF Init
  <2> QED
    BY <1>1, <1>2, <2>1 DEF OutputsOrdered
<1>6. ConfigSound /\ EventsReplayOutputs
  BY <1>1, <1>2 DEF ConfigSound, EventsReplayOutputs
<1> QED
  BY <1>4, <1>5, <1>6 DEF IInv

(* initialize: the seed, or the list from before the upgrade. *)
LEMMA InitializeIInv ==
  ASSUME IInv, NEW a \in InitParams, Initialize(a)
  PROVE  IInv'
<1> DEFINE seed == [outputRoot    |-> a.startingOutputRoot,
                    timestamp     |-> U128(a.config.startingTimestamp),
                    l2BlockNumber |-> U128(a.config.startingBlockNumber)]
<1>1. a \in InitializeArgs /\ a.config \in Config
  BY InputAssumption DEF InitializeArgs
<1>2. /\ a.config.startingBlockNumber \in Nat
      /\ a.config.startingTimestamp \in Nat
      /\ a.config.startingTimestamp <= now /\ now \in 0 .. MaxTime
      /\ a.config.startingBlockNumber + MaxTime < Mod128
      /\ MaxTime \in Nat /\ MaxTime < Mod128 /\ Mod128 \in Nat
  BY <1>1, ChainAssumption, WidthAssumption DEF Config, Initialize, IInv, TypeOK
<1>3. /\ U128(a.config.startingTimestamp) = a.config.startingTimestamp
      /\ U128(a.config.startingBlockNumber) = a.config.startingBlockNumber
  BY <1>2, U128Exact
<1>4. seed \in OutputProposal
  BY <1>1, <1>2, <1>3 DEF OutputProposal, InitializeArgs
<1>5. CASE l2Outputs = <<>>
  <2>1. /\ l2Outputs' = <<seed>> /\ attested' = <<NoProof>>
        /\ replayed' = <<seed>> /\ config' = a.config
    BY <1>5 DEF Initialize, SeededOutputs, SeededAttested, InitializedConfig
  <2>2. TypeOK'
    BY <1>1, <1>4, <2>1 DEF TypeOK, Initialize, IInv, InitializeArgs, contextVars
  <2>3. OutputsOrdered'
    BY <1>2, <1>3, <2>1 DEF OutputsOrdered, Ordered, Initialize, contextVars
  <2>4. ConfigSound'
    BY <1>2, <2>1 DEF ConfigSound, Initialize
  <2> QED
    BY <2>1, <2>2, <2>3, <2>4 DEF IInv, EventsReplayOutputs
<1>6. CASE l2Outputs # <<>>
  <2>1. /\ l2Outputs' = l2Outputs /\ attested' = attested
        /\ replayed' = l2Outputs
        /\ config' = [a.config EXCEPT
                        !.startingBlockNumber = config.startingBlockNumber,
                        !.startingTimestamp   = config.startingTimestamp]
    BY <1>6 DEF Initialize, SeededOutputs, SeededAttested, InitializedConfig
  <2>2. /\ config' \in Config
        /\ config'.startingBlockNumber = config.startingBlockNumber
        /\ config'.submissionInterval = a.config.submissionInterval
        /\ config'.l2BlockTime = a.config.l2BlockTime
    BY <1>1, <2>1 DEF Config, IInv, TypeOK
  <2>3. TypeOK'
    BY <1>1, <2>1, <2>2 DEF TypeOK, Initialize, IInv, InitializeArgs, contextVars
  <2>4. OutputsOrdered'
    BY <2>1 DEF OutputsOrdered, IInv, Initialize, contextVars
  <2>5. ConfigSound'
    BY <2>2 DEF ConfigSound, Initialize, IInv
  <2> QED
    BY <2>1, <2>3, <2>4, <2>5 DEF IInv, EventsReplayOutputs
<1> QED
  BY <1>5, <1>6

(* deleteL2Outputs keeps a prefix of the list. *)
LEMMA DeleteIInv ==
  ASSUME IInv, NEW sender \in Accounts, NEW i \in 0 .. Len(l2Outputs),
         DeleteL2Outputs(sender, i)
  PROVE  IInv'
<1>1. /\ l2Outputs \in Seq(OutputProposal)
      /\ attested \in Seq(PublicValues \cup {NoProof})
      /\ Len(attested) = Len(l2Outputs)
      /\ Ordered(l2Outputs)
      /\ replayed = l2Outputs
  BY DEF IInv, TypeOK, OutputsOrdered, EventsReplayOutputs
<1>2. /\ l2Outputs' = SubSeq(l2Outputs, 1, i)
      /\ attested' = SubSeq(attested, 1, i)
      /\ replayed' = SubSeq(replayed, 1, i)
      /\ UNCHANGED <<adminVars, setupVars, contextVars, historicBlockHashes>>
  BY DEF DeleteL2Outputs
<1>3. /\ l2Outputs' \in Seq(OutputProposal) /\ Len(l2Outputs') = i
      /\ \A j \in 1 .. i : l2Outputs'[j] = l2Outputs[j]
  BY <1>1, <1>2, PrefixFacts
<1>4. /\ attested' \in Seq(PublicValues \cup {NoProof})
      /\ Len(attested') = i
  BY <1>1, <1>2, PrefixFacts
<1>5. TypeOK'
  BY <1>1, <1>2, <1>3, <1>4
  DEF IInv, TypeOK, adminVars, setupVars, contextVars
<1>6. OutputsOrdered'
  <2>1. Ordered(l2Outputs')
    BY <1>1, <1>2, OrderedPrefix
  <2>2. \A j \in 1 .. i : l2Outputs'[j].timestamp <= now'
    BY <1>1, <1>2, <1>3 DEF IInv, OutputsOrdered, contextVars
  <2> QED
    BY <1>3, <2>1, <2>2 DEF OutputsOrdered
<1>7. ConfigSound' /\ EventsReplayOutputs'
  BY <1>1, <1>2 DEF IInv, ConfigSound, EventsReplayOutputs, setupVars
<1> QED
  BY <1>5, <1>6, <1>7 DEF IInv

(* proposeL2Output appends an output that is above the last one and as     *)
(* late as the block it is mined in.                                       *)
LEMMA ProposeIInv ==
  ASSUME IInv, NEW sender \in Accounts, NEW root \in ClaimRoots,
         NEW blk \in ClaimBlocks, NEW n \in L1Numbers, NEW hash \in ClaimHeads,
         ProposeL2Output(sender, root, blk, n, hash)
  PROVE  IInv'
<1> DEFINE new == StoredOutput(root, blk)
           values == ProposedValues(root, blk, hash)
<1>1. /\ l2Outputs \in Seq(OutputProposal) /\ l2Outputs # <<>>
      /\ attested \in Seq(PublicValues \cup {NoProof})
      /\ Len(attested) = Len(l2Outputs)
      /\ Ordered(l2Outputs)
      /\ replayed = l2Outputs
      /\ initialized = 2 /\ BlockInRange(blk)
      /\ config \in Config
      /\ now \in 0 .. MaxTime
  BY DEF IInv, TypeOK, OutputsOrdered, EventsReplayOutputs, ProposeL2Output
<1>2. /\ l2Outputs' = Append(l2Outputs, new)
      /\ attested' = Append(attested, values)
      /\ replayed' = ObservedProposal(root, blk)
      /\ UNCHANGED <<adminVars, setupVars, contextVars, historicBlockHashes>>
  BY DEF ProposeL2Output
<1>3. blk \in Nat /\ root \in Words /\ hash \in Words
  BY InputAssumption, ChainAssumption
<1>4. U128(blk) = blk
  BY <1>1, <1>3, ClaimFits, U128Exact
<1>5. U128(now) = now
  BY <1>1, ChainAssumption, WidthAssumption, U128Exact
<1>6. new = [outputRoot |-> root, timestamp |-> now, l2BlockNumber |-> blk]
  BY <1>4, <1>5 DEF StoredOutput
<1>7. new \in OutputProposal
  BY <1>1, <1>3, <1>6, ChainAssumption DEF OutputProposal
<1>8. values \in PublicValues
  <2>1. l2Outputs[Len(l2Outputs)] \in OutputProposal
    BY <1>1
  <2> QED
    BY <1>1, <1>3, <2>1
    DEF ProposedValues, PublicValues, nextOutputIndex, Config, OutputProposal
<1>9. TypeOK'
  <2>1. l2Outputs' \in Seq(OutputProposal) /\ Len(l2Outputs') = Len(l2Outputs) + 1
    BY <1>1, <1>2, <1>7, AppendFacts
  <2>2. /\ attested' \in Seq(PublicValues \cup {NoProof})
        /\ Len(attested') = Len(attested) + 1
    BY <1>1, <1>2, <1>8, AppendFacts
  <2>3. replayed' \in Seq(OutputProposal)
    <3>1. replayed' = Append(SubSeq(l2Outputs, 1, Len(l2Outputs)), new)
      BY <1>1, <1>2, <1>6 DEF ObservedProposal, nextOutputIndex
    <3> QED
      BY <1>1, <1>7, <3>1
  <2> QED
    BY <1>1, <1>2, <2>1, <2>2, <2>3
    DEF IInv, TypeOK, adminVars, setupVars, contextVars
<1>10. OutputsOrdered'
  <2>1. \A i \in DOMAIN l2Outputs : l2Outputs[i].timestamp <= now
    BY DEF IInv, OutputsOrdered
  <2>2. l2Outputs[Len(l2Outputs)].l2BlockNumber < blk
    <3>1. l2Outputs[Len(l2Outputs)] \in OutputProposal
      BY <1>1
    <3>2. config.submissionInterval > 0 /\ config.submissionInterval \in Nat
      BY <1>1 DEF IInv, ConfigSound, Config
    <3> QED
      BY <1>1, <1>3, <3>1, <3>2
      DEF BlockInRange, nextBlockNumber, latestBlockNumber, OutputProposal
  <2>3. Ordered(l2Outputs')
    BY <1>1, <1>2, <1>6, <1>7, <2>1, <2>2, OrderedAppend
  <2>4. \A i \in DOMAIN l2Outputs' : l2Outputs'[i].timestamp <= now
    BY <1>1, <1>2, <1>6, <1>7, <2>1
  <2> QED
    BY <1>2, <2>3, <2>4 DEF OutputsOrdered, contextVars
<1>11. EventsReplayOutputs'
  <2>1. SubSeq(l2Outputs, 1, Len(l2Outputs)) = l2Outputs
    BY <1>1
  <2> QED
    BY <1>1, <1>2, <1>6, <2>1
    DEF EventsReplayOutputs, ObservedProposal, nextOutputIndex
<1>12. ConfigSound'
  BY <1>2 DEF IInv, ConfigSound, setupVars
<1> QED
  BY <1>9, <1>10, <1>11, <1>12 DEF IInv

(* The other transactions leave the list and the configuration alone, and  *)
(* time only grows.                                                        *)
LEMMA OtherIInv ==
  ASSUME IInv,
         \/ \E n \in L1Numbers, hash \in ClaimHeads : CheckpointBlockHash(n, hash)
         \/ \E sender \in Accounts, a \in Addresses : TransferOwnership(sender, a)
         \/ \E sender \in Accounts, key \in NewVKeys : UpdateVKey(sender, key)
         \/ \E sender \in Accounts, g \in Gateways :
              UpdateVerifierGateway(sender, g)
         \/ NextL1Block
         \/ UNCHANGED vars
  PROVE  IInv'
<1> USE DEF outputVars, adminVars, setupVars, contextVars
<1>1. ASSUME NEW n \in L1Numbers, NEW hash \in ClaimHeads,
             CheckpointBlockHash(n, hash)
      PROVE  IInv'
  <2>1. hash \in Words
    BY InputAssumption, ChainAssumption
  <2>2. historicBlockHashes' \in [L1Numbers -> Words]
    BY <1>1, <2>1 DEF CheckpointBlockHash, IInv, TypeOK
  <2> QED
    BY <1>1, <2>2 DEF CheckpointBlockHash, IInv, TypeOK, OutputsOrdered,
                      EventsReplayOutputs, ConfigSound
<1>2. ASSUME NEW sender \in Accounts, NEW a \in Addresses,
             TransferOwnership(sender, a)
      PROVE  IInv'
  BY <1>2 DEF TransferOwnership, IInv, TypeOK, OutputsOrdered,
              EventsReplayOutputs, ConfigSound
<1>3. ASSUME NEW sender \in Accounts, NEW key \in NewVKeys,
             UpdateVKey(sender, key)
      PROVE  IInv'
  BY <1>3, InputAssumption DEF UpdateVKey, IInv, TypeOK, OutputsOrdered,
                               EventsReplayOutputs, ConfigSound
<1>4. ASSUME NEW sender \in Accounts, NEW g \in Gateways,
             UpdateVerifierGateway(sender, g)
      PROVE  IInv'
  BY <1>4 DEF UpdateVerifierGateway, IInv, TypeOK, OutputsOrdered,
              EventsReplayOutputs, ConfigSound, Addresses
<1>5. CASE NextL1Block
  <2>1. /\ now' \in 0 .. MaxTime /\ now < now' /\ l1Number' \in L1Numbers
        /\ UNCHANGED <<outputVars, adminVars, setupVars, historicBlockHashes>>
    BY <1>5, ChainAssumption DEF NextL1Block, IInv, TypeOK, L1Numbers
  <2>2. TypeOK'
    BY <2>1 DEF IInv, TypeOK
  <2>3. OutputsOrdered'
    <3>1. /\ l2Outputs' = l2Outputs /\ Ordered(l2Outputs)
          /\ \A i \in DOMAIN l2Outputs : l2Outputs[i].timestamp <= now
      BY <2>1 DEF IInv, OutputsOrdered
    <3>2. \A i \in DOMAIN l2Outputs : l2Outputs[i].timestamp \in Nat
      <4>1. l2Outputs \in Seq(OutputProposal)
        BY DEF IInv, TypeOK
      <4>2. \A i \in DOMAIN l2Outputs : l2Outputs[i] \in OutputProposal
        BY <4>1
      <4> QED
        BY <4>2 DEF OutputProposal
    <3>3. now \in Nat /\ now' \in Nat
      BY <2>1, ChainAssumption DEF IInv, TypeOK
    <3> QED
      BY <2>1, <3>1, <3>2, <3>3 DEF OutputsOrdered
  <2> QED
    BY <2>1, <2>2, <2>3 DEF IInv, EventsReplayOutputs, ConfigSound
<1>6. CASE UNCHANGED vars
  BY <1>6 DEF vars, IInv, TypeOK, OutputsOrdered, EventsReplayOutputs,
              ConfigSound
<1> QED
  BY <1>1, <1>2, <1>3, <1>4, <1>5, <1>6

LEMMA NextIInv == IInv /\ [Next]_vars => IInv'
<1> SUFFICES ASSUME IInv, [Next]_vars PROVE IInv'
  OBVIOUS
<1>1. CASE \E a \in InitParams : Initialize(a)
  BY <1>1, InitializeIInv
<1>2. CASE \E sender \in Accounts, i \in 0 .. Len(l2Outputs) :
             DeleteL2Outputs(sender, i)
  BY <1>2, DeleteIInv
<1>3. CASE \E sender \in Accounts, root \in ClaimRoots, blk \in ClaimBlocks,
              n \in L1Numbers, hash \in ClaimHeads :
             ProposeL2Output(sender, root, blk, n, hash)
  BY <1>3, ProposeIInv
<1>4. CASE \/ \E n \in L1Numbers, hash \in ClaimHeads : CheckpointBlockHash(n, hash)
           \/ \E sender \in Accounts, a \in Addresses : TransferOwnership(sender, a)
           \/ \E sender \in Accounts, key \in NewVKeys : UpdateVKey(sender, key)
           \/ \E sender \in Accounts, g \in Gateways :
                UpdateVerifierGateway(sender, g)
           \/ NextL1Block
           \/ UNCHANGED vars
  BY <1>4, OtherIInv
<1> QED
  BY <1>1, <1>2, <1>3, <1>4 DEF Next

(* Every reachable state of the contract satisfies the invariant. *)
THEOREM Invariance == Spec => []IInv
<1>1. Init => IInv
  BY InitIInv
<1>2. IInv /\ [Next]_vars => IInv'
  BY NextIInv
<1> QED
  BY <1>1, <1>2, PTL DEF Spec

(* The slots, the block context and the history variables keep their       *)
(* types, for any parameters of the deployment.                            *)
THEOREM TypeCorrect == Spec => []TypeOK
<1>1. IInv => TypeOK
  BY DEF IInv
<1> QED
  BY <1>1, Invariance, PTL

(* The list stays ordered by block and by time, through every history of   *)
(* proposals, deletions and the upgrade.                                   *)
THEOREM Order == Spec => []OutputsOrdered
<1>1. IInv => OutputsOrdered
  BY DEF IInv
<1> QED
  BY <1>1, Invariance, PTL

(* The events always suffice to rebuild the list. *)
THEOREM EventsFaithful == Spec => []EventsReplayOutputs
<1>1. IInv => EventsReplayOutputs
  BY DEF IInv
<1> QED
  BY <1>1, Invariance, PTL

-----------------------------------------------------------------------------
(* Finality and the empty list. *)

LEMMA DeleteKeepsFinalized ==
  ASSUME IInv, NEW sender \in Accounts, NEW i \in 0 .. Len(l2Outputs),
         DeleteL2Outputs(sender, i),
         NEW j \in DOMAIN l2Outputs, Finalized(j)
  PROVE  j \in DOMAIN l2Outputs' /\ l2Outputs'[j] = l2Outputs[j]
<1>1. /\ l2Outputs \in Seq(OutputProposal) /\ Ordered(l2Outputs)
      /\ i < Len(l2Outputs)
      /\ l2Outputs' = SubSeq(l2Outputs, 1, i)
      /\ now - l2Outputs[i + 1].timestamp < config.finalizationPeriodSeconds
      /\ now - l2Outputs[j].timestamp >= config.finalizationPeriodSeconds
  BY DEF IInv, TypeOK, OutputsOrdered, DeleteL2Outputs, NotFinalized, Finalized
<1>2. /\ l2Outputs[i + 1].timestamp \in Nat /\ l2Outputs[j].timestamp \in Nat
      /\ now \in Nat /\ config.finalizationPeriodSeconds \in Nat
  <2>1. l2Outputs[i + 1] \in OutputProposal /\ l2Outputs[j] \in OutputProposal
    BY <1>1
  <2>2. now \in Nat
    <3>1. now \in 0 .. MaxTime
      BY DEF IInv, TypeOK
    <3> QED
      BY <3>1, ChainAssumption
  <2>3. config.finalizationPeriodSeconds \in Nat
    <3>1. config \in Config
      BY DEF IInv, TypeOK
    <3> QED
      BY <3>1 DEF Config
  <2>4. l2Outputs[i + 1].timestamp \in Nat /\ l2Outputs[j].timestamp \in Nat
    BY <2>1 DEF OutputProposal
  <2> QED
    BY <2>2, <2>3, <2>4
<1>3. l2Outputs[j].timestamp < l2Outputs[i + 1].timestamp
  BY <1>1, <1>2
<1>4. j <= i
  <2> SUFFICES ASSUME j > i PROVE FALSE
    BY <1>1
  <2>1. j = i + 1 \/ l2Outputs[i + 1].timestamp <= l2Outputs[j].timestamp
    BY <1>1 DEF Ordered
  <2> QED
    BY <1>2, <1>3, <2>1
<1> QED
  BY <1>1, <1>4

LEMMA AppendKeepsOutputs ==
  ASSUME IInv, NEW e, l2Outputs' = Append(l2Outputs, e),
         NEW j \in DOMAIN l2Outputs
  PROVE  j \in DOMAIN l2Outputs' /\ l2Outputs'[j] = l2Outputs[j]
BY DEF IInv, TypeOK

(* The transactions, and the passing of time, that do not touch the list. *)
LEMMA OutputsUntouched ==
  ASSUME \/ \E n \in L1Numbers, hash \in ClaimHeads : CheckpointBlockHash(n, hash)
         \/ \E sender \in Accounts, a \in Addresses : TransferOwnership(sender, a)
         \/ \E sender \in Accounts, key \in NewVKeys : UpdateVKey(sender, key)
         \/ \E sender \in Accounts, g \in Gateways :
              UpdateVerifierGateway(sender, g)
         \/ NextL1Block
         \/ UNCHANGED vars
  PROVE  UNCHANGED <<outputVars, setupVars>>
BY DEF CheckpointBlockHash, TransferOwnership, UpdateVKey,
       UpdateVerifierGateway, NextL1Block, vars, outputVars, setupVars

LEMMA NextFinalized == IInv /\ [Next]_vars => FinalizedStep
<1> SUFFICES ASSUME IInv, [Next]_vars, NEW j \in DOMAIN l2Outputs, Finalized(j)
             PROVE  j \in DOMAIN l2Outputs' /\ l2Outputs'[j] = l2Outputs[j]
  BY DEF FinalizedStep
<1>1. CASE \E a \in InitParams : Initialize(a)
  <2>1. l2Outputs # <<>>
    BY DEF IInv, TypeOK
  <2> QED
    BY <1>1, <2>1 DEF Initialize, SeededOutputs
<1>2. CASE \E sender \in Accounts, i \in 0 .. Len(l2Outputs) :
             DeleteL2Outputs(sender, i)
  BY <1>2, DeleteKeepsFinalized
<1>3. CASE \E sender \in Accounts, root \in ClaimRoots, blk \in ClaimBlocks,
              n \in L1Numbers, hash \in ClaimHeads :
             ProposeL2Output(sender, root, blk, n, hash)
  BY <1>3, AppendKeepsOutputs DEF ProposeL2Output
<1>4. CASE UNCHANGED <<outputVars, setupVars>>
  BY <1>4 DEF outputVars
<1> QED
  BY <1>1, <1>2, <1>3, <1>4, OutputsUntouched DEF Next

(* An output whose finalisation period has passed stays in its place, with *)
(* its root, through every later transaction: the challenger cannot reach  *)
(* it, although deleteL2Outputs checks only the first output it deletes.   *)
THEOREM Finality == Spec => FinalizedStable
<1>1. IInv /\ [Next]_vars => [FinalizedStep]_vars
  BY NextFinalized
<1> QED
  BY <1>1, Invariance, PTL DEF Spec, FinalizedStable

(* Deleting the only output within its finalisation period ends the        *)
(* contract: no later transaction adds an output.                          *)
THEOREM EmptyForGood == Spec => EmptyIsAbsorbing
<1> DEFINE Stays == initialized = 2 /\ l2Outputs = <<>> => l2Outputs' = <<>>
<1>1. ASSUME [Next]_vars, initialized = 2, l2Outputs = <<>>
      PROVE  l2Outputs' = <<>>
  <2>1. CASE \E sender \in Accounts, i \in 0 .. Len(l2Outputs) :
               DeleteL2Outputs(sender, i)
    BY <1>1, <2>1 DEF DeleteL2Outputs
  <2>2. CASE UNCHANGED <<outputVars, setupVars>>
    BY <1>1, <2>2 DEF outputVars
  <2>3. ~ \E a \in InitParams : Initialize(a)
    BY <1>1 DEF Initialize, reinitializer
  <2>4. ~ \E sender \in Accounts, root \in ClaimRoots, blk \in ClaimBlocks,
             n \in L1Numbers, hash \in ClaimHeads :
            ProposeL2Output(sender, root, blk, n, hash)
    BY <1>1 DEF ProposeL2Output
  <2> QED
    BY <1>1, <2>1, <2>2, <2>3, <2>4, OutputsUntouched DEF Next
<1>2. [Next]_vars => [Stays]_vars
  BY <1>1
<1> QED
  BY <1>2, PTL DEF Spec, EmptyIsAbsorbing

-----------------------------------------------------------------------------
(* What the proofs behind the outputs say. *)

(* A checkpoint is empty or the hash of a past block, and no output is     *)
(* proved before initialize has fixed the chain id and the block time.     *)
Grounded ==
  /\ \A n \in L1Numbers : historicBlockHashes[n] # ZeroWord =>
       n < l1Number /\ historicBlockHashes[n] = L1Hash[n]
  /\ initialized < 2 => \A i \in DOMAIN l2Outputs : ~IsProved(i)

ProofParts ==
  /\ ProofChain /\ AnchoredOnL1
  /\ SpacedBySubmissionInterval /\ ProposedAfterL2Block

ProofInv == Grounded /\ ProofParts

LEMMA InitProofInv == Init => ProofInv
<1> SUFFICES ASSUME Init PROVE ProofInv
  OBVIOUS
<1>1. \A i \in DOMAIN l2Outputs : ~IsProved(i)
  <2>1. PICK s \in ProxyStorage :
          /\ l2Outputs = s.l2Outputs
          /\ attested = [i \in 1 .. Len(s.l2Outputs) |-> NoProof]
    BY DEF Init
  <2>2. s.l2Outputs \in Seq(OutputProposal)
    BY StorageAssumption
  <2>3. \A i \in DOMAIN l2Outputs : attested[i] = NoProof
    BY <2>1, <2>2
  <2> QED
    BY <2>3 DEF IsProved
<1>2. \A n \in L1Numbers : historicBlockHashes[n] = ZeroWord
  BY DEF Init
<1> QED
  BY <1>1, <1>2 DEF ProofInv, Grounded, ProofParts, ProofChain, AnchoredOnL1,
                    SpacedBySubmissionInterval, ProposedAfterL2Block

(* initialize leaves nothing proved, as it found it. *)
LEMMA InitializeProofInv ==
  ASSUME IInv, ProofInv, NEW a \in InitParams, Initialize(a)
  PROVE  ProofInv'
<1>1. \A i \in DOMAIN l2Outputs' : ~IsProved(i)'
  <2>1. CASE l2Outputs = <<>>
    <3>1. attested' = <<NoProof>> /\ Len(l2Outputs') = 1 /\ DOMAIN l2Outputs' = {1}
      BY <2>1 DEF Initialize, SeededOutputs, SeededAttested
    <3> QED
      BY <3>1 DEF IsProved
  <2>2. CASE l2Outputs # <<>>
    <3>1. attested' = attested /\ l2Outputs' = l2Outputs
      BY <2>2 DEF Initialize, SeededOutputs, SeededAttested
    <3>2. initialized < 2
      BY DEF Initialize, reinitializer
    <3> QED
      BY <3>1, <3>2 DEF IsProved, ProofInv, Grounded
  <2> QED
    BY <2>1, <2>2
<1>2. UNCHANGED <<historicBlockHashes, l1Number>>
  BY DEF Initialize, contextVars
<1> QED
  BY <1>1, <1>2 DEF ProofInv, Grounded, ProofParts, ProofChain, AnchoredOnL1,
                    SpacedBySubmissionInterval, ProposedAfterL2Block

(* Cutting the tail keeps every output together with its predecessor. *)
LEMMA DeleteProofInv ==
  ASSUME IInv, ProofInv, NEW sender \in Accounts, NEW i \in 0 .. Len(l2Outputs),
         DeleteL2Outputs(sender, i)
  PROVE  ProofInv'
<1>1. /\ l2Outputs \in Seq(OutputProposal)
      /\ attested \in Seq(PublicValues \cup {NoProof})
      /\ Len(attested) = Len(l2Outputs)
      /\ initialized = 2
      /\ l2Outputs' = SubSeq(l2Outputs, 1, i)
      /\ attested' = SubSeq(attested, 1, i)
      /\ UNCHANGED <<adminVars, setupVars, contextVars, historicBlockHashes>>
  BY DEF IInv, TypeOK, DeleteL2Outputs
<1>2. /\ \A j \in 1 .. i : l2Outputs'[j] = l2Outputs[j]
      /\ \A j \in 1 .. i : attested'[j] = attested[j]
      /\ \A j \in DOMAIN l2Outputs' : j \in 1 .. i
      /\ \A j \in 1 .. i : j \in DOMAIN l2Outputs
  BY <1>1, PrefixFacts
<1>3. \A j \in DOMAIN l2Outputs' :
        /\ j \in DOMAIN l2Outputs
        /\ IsProved(j)' <=> IsProved(j)
        /\ l2Outputs'[j] = l2Outputs[j] /\ attested'[j] = attested[j]
        /\ j > 1 => l2Outputs'[j - 1] = l2Outputs[j - 1]
  BY <1>2 DEF IsProved
<1>4. config' = config /\ l1Number' = l1Number /\ initialized' = 2
      /\ historicBlockHashes' = historicBlockHashes
  BY <1>1 DEF setupVars, contextVars
<1>5. ProofChain'
  BY <1>3, <1>4 DEF ProofInv, ProofParts, ProofChain
<1>6. AnchoredOnL1'
  BY <1>3, <1>4 DEF ProofInv, ProofParts, AnchoredOnL1
<1>7. SpacedBySubmissionInterval'
  BY <1>3, <1>4 DEF ProofInv, ProofParts, SpacedBySubmissionInterval
<1>8. ProposedAfterL2Block'
  BY <1>3, <1>4
  DEF ProofInv, ProofParts, ProposedAfterL2Block, computeL2Timestamp
<1>9. Grounded'
  BY <1>4 DEF ProofInv, Grounded
<1> QED
  BY <1>5, <1>6, <1>7, <1>8, <1>9 DEF ProofInv, ProofParts

(* A new output is proved from the root stored last, at a checkpointed L1  *)
(* head.                                                                   *)
LEMMA ProposeProofInv ==
  ASSUME IInv, ProofInv, NEW sender \in Accounts, NEW root \in ClaimRoots,
         NEW blk \in ClaimBlocks, NEW n \in L1Numbers, NEW hash \in ClaimHeads,
         ProposeL2Output(sender, root, blk, n, hash)
  PROVE  ProofInv'
<1> DEFINE new == [outputRoot |-> root, timestamp |-> now, l2BlockNumber |-> blk]
           values == ProposedValues(root, blk, hash)
           last == Len(l2Outputs)
<1>1. /\ l2Outputs \in Seq(OutputProposal) /\ l2Outputs # <<>>
      /\ attested \in Seq(PublicValues \cup {NoProof})
      /\ Len(attested) = last
      /\ initialized = 2 /\ BlockInRange(blk) /\ Checkpointed(n, hash)
      /\ now \in 0 .. MaxTime
      /\ <<verifierGateway, vkey, values>> \in Verifies
      /\ UNCHANGED <<adminVars, setupVars, contextVars, historicBlockHashes>>
  BY DEF IInv, TypeOK, ProposeL2Output
<1>2. blk \in Nat /\ root \in Words /\ hash \in Words
  BY InputAssumption, ChainAssumption
<1>3. U128(blk) = blk /\ U128(now) = now
  BY <1>1, <1>2, ClaimFits, U128Exact, ChainAssumption, WidthAssumption
<1>4. l2Outputs' = Append(l2Outputs, new) /\ attested' = Append(attested, values)
  BY <1>3 DEF ProposeL2Output, StoredOutput
<1>5. /\ last \in Nat /\ last > 0
      /\ l2Outputs'[last + 1] = new /\ attested'[last + 1] = values
      /\ \A j \in DOMAIN l2Outputs' : j \in DOMAIN l2Outputs \/ j = last + 1
      /\ \A j \in DOMAIN l2Outputs : j \in 1 .. last
  BY <1>1, <1>4
<1>6. \A j \in DOMAIN l2Outputs :
        /\ IsProved(j)' <=> IsProved(j)
        /\ l2Outputs'[j] = l2Outputs[j] /\ attested'[j] = attested[j]
        /\ j > 1 => l2Outputs'[j - 1] = l2Outputs[j - 1]
  BY <1>1, <1>4 DEF IsProved
<1>7. config' = config /\ l1Number' = l1Number /\ initialized' = 2
      /\ historicBlockHashes' = historicBlockHashes
  BY <1>1 DEF setupVars, contextVars
<1>8. attested'[last + 1] # NoProof /\ values \in PublicValues
  <2>1. l2Outputs[last] \in OutputProposal /\ config \in Config
    BY <1>1 DEF IInv, TypeOK
  <2>2. values \in PublicValues
    BY <1>1, <1>2, <2>1
    DEF ProposedValues, PublicValues, nextOutputIndex, Config, OutputProposal
  <2>3. NoProof \notin PublicValues
    BY InputAssumption
  <2>4. attested'[last + 1] # NoProof
    BY <1>5, <2>2, <2>3
  <2> QED
    BY <2>2, <2>4
<1>9. ProofChain'
  <2>1. /\ values.l2PreRoot = l2Outputs'[last].outputRoot
        /\ values.claimRoot = root /\ values.claimBlockNum = blk
        /\ values.chainId = config.chainId
    BY <1>1, <1>5, <1>6 DEF ProposedValues, nextOutputIndex
  <2>2. ASSUME NEW j \in DOMAIN l2Outputs', IsProved(j)'
        PROVE  /\ j > 1
               /\ attested'[j].l2PreRoot     = l2Outputs'[j - 1].outputRoot
               /\ attested'[j].claimRoot     = l2Outputs'[j].outputRoot
               /\ attested'[j].claimBlockNum = l2Outputs'[j].l2BlockNumber
               /\ attested'[j].chainId       = config'.chainId
    <3>1. CASE j \in DOMAIN l2Outputs
      BY <1>6, <1>7, <2>2, <3>1 DEF ProofInv, ProofParts, ProofChain
    <3>2. CASE j = last + 1
      BY <1>5, <1>7, <2>1, <3>2
    <3> QED
      BY <1>5, <3>1, <3>2
  <2>3. ASSUME NEW j \in DOMAIN l2Outputs', IsProved(j)',
               NEW k \in DOMAIN l2Outputs', j < k
        PROVE  IsProved(k)'
    <3>1. CASE k \in DOMAIN l2Outputs
      <4>1. j \in DOMAIN l2Outputs
        BY <1>5, <2>3, <3>1
      <4>2. IsProved(j)
        BY <1>6, <2>3, <4>1
      <4>3. IsProved(k)
        BY <2>3, <3>1, <4>1, <4>2 DEF ProofInv, ProofParts, ProofChain
      <4> QED
        BY <1>6, <3>1, <4>3
    <3>2. CASE k = last + 1
      BY <1>8, <3>2 DEF IsProved
    <3> QED
      BY <1>5, <3>1, <3>2
  <2> QED
    BY <2>2, <2>3 DEF ProofChain
<1>10. AnchoredOnL1'
  <2>1. values.l1Head = hash /\ hash # ZeroWord
    <3>1. values.l1Head = hash
      BY DEF ProposedValues
    <3> QED
      BY <1>1, <3>1, ProofAssumption
  <2>2. n < l1Number /\ hash = L1Hash[n]
    BY <1>1, <2>1 DEF Checkpointed, ProofInv, Grounded
  <2> QED
    BY <1>5, <1>6, <1>7, <2>1, <2>2 DEF AnchoredOnL1, ProofInv, ProofParts
<1>11. SpacedBySubmissionInterval'
  <2>1. blk >= l2Outputs[last].l2BlockNumber + config.submissionInterval
    BY <1>1 DEF BlockInRange, nextBlockNumber, latestBlockNumber
  <2>2. l2Outputs'[last] = l2Outputs[last]
    <3>1. last \in DOMAIN l2Outputs
      BY <1>1
    <3> QED
      BY <1>6, <3>1
  <2> QED
    BY <1>5, <1>6, <1>7, <2>1, <2>2
    DEF SpacedBySubmissionInterval, ProofInv, ProofParts
<1>12. ProposedAfterL2Block'
  <2>1. computeL2Timestamp(blk) < now
    BY <1>1 DEF BlockInRange
  <2> QED
    BY <1>5, <1>6, <1>7, <2>1
    DEF ProposedAfterL2Block, ProofInv, ProofParts, computeL2Timestamp
<1>13. Grounded'
  BY <1>7 DEF ProofInv, Grounded
<1> QED
  BY <1>9, <1>10, <1>11, <1>12, <1>13 DEF ProofInv, ProofParts

(* A checkpoint is written with what BLOCKHASH gives, and the L1 chain     *)
(* only grows.                                                             *)
LEMMA OtherProofInv ==
  ASSUME IInv, ProofInv,
         \/ \E n \in L1Numbers, hash \in ClaimHeads : CheckpointBlockHash(n, hash)
         \/ \E sender \in Accounts, a \in Addresses : TransferOwnership(sender, a)
         \/ \E sender \in Accounts, key \in NewVKeys : UpdateVKey(sender, key)
         \/ \E sender \in Accounts, g \in Gateways :
              UpdateVerifierGateway(sender, g)
         \/ NextL1Block
         \/ UNCHANGED vars
  PROVE  ProofInv'
<1>1. UNCHANGED <<l2Outputs, attested, config, initialized>>
  BY OutputsUntouched DEF outputVars, setupVars
<1>2. /\ l1Number \in L1Numbers /\ l1Number' \in Nat /\ l1Number <= l1Number'
      /\ \/ UNCHANGED historicBlockHashes
         \/ \E n \in L1Numbers, hash \in ClaimHeads : CheckpointBlockHash(n, hash)
  BY DEF IInv, TypeOK, L1Numbers, CheckpointBlockHash, TransferOwnership,
         UpdateVKey, UpdateVerifierGateway, NextL1Block, vars, contextVars
<1>3. \A n \in L1Numbers : n < l1Number => n < l1Number'
  BY <1>2, ChainAssumption DEF L1Numbers
<1>4. Grounded'
  <2> SUFFICES ASSUME NEW n \in L1Numbers, historicBlockHashes'[n] # ZeroWord
               PROVE  n < l1Number' /\ historicBlockHashes'[n] = L1Hash[n]
    BY <1>1 DEF Grounded, IsProved, ProofInv
  <2>1. CASE UNCHANGED historicBlockHashes
    BY <1>3, <2>1 DEF ProofInv, Grounded
  <2>2. CASE \E m \in L1Numbers, hash \in ClaimHeads : CheckpointBlockHash(m, hash)
    <3>1. PICK m \in L1Numbers, hash \in ClaimHeads : CheckpointBlockHash(m, hash)
      BY <2>2
    <3>2. /\ historicBlockHashes' = [historicBlockHashes EXCEPT ![m] = hash]
          /\ hash = BlockHash(m) /\ l1Number' = l1Number
          /\ historicBlockHashes \in [L1Numbers -> Words]
      BY <3>1 DEF CheckpointBlockHash, contextVars, IInv, TypeOK
    <3>3. CASE n = m
      BY <3>2, <3>3 DEF BlockHash
    <3>4. CASE n # m
      BY <3>2, <3>4 DEF ProofInv, Grounded
    <3> QED
      BY <3>3, <3>4
  <2> QED
    BY <1>2, <2>1, <2>2
<1>5. AnchoredOnL1'
  BY <1>1, <1>3 DEF ProofInv, ProofParts, AnchoredOnL1, IsProved
<1>6. ProofChain' /\ SpacedBySubmissionInterval' /\ ProposedAfterL2Block'
  BY <1>1 DEF ProofInv, ProofParts, ProofChain, SpacedBySubmissionInterval,
              ProposedAfterL2Block, computeL2Timestamp, IsProved
<1> QED
  BY <1>4, <1>5, <1>6 DEF ProofInv, ProofParts

LEMMA NextProofInv == IInv /\ ProofInv /\ [Next]_vars => ProofInv'
<1> SUFFICES ASSUME IInv, ProofInv, [Next]_vars PROVE ProofInv'
  OBVIOUS
<1>1. CASE \E a \in InitParams : Initialize(a)
  BY <1>1, InitializeProofInv
<1>2. CASE \E sender \in Accounts, i \in 0 .. Len(l2Outputs) :
             DeleteL2Outputs(sender, i)
  BY <1>2, DeleteProofInv
<1>3. CASE \E sender \in Accounts, root \in ClaimRoots, blk \in ClaimBlocks,
              n \in L1Numbers, hash \in ClaimHeads :
             ProposeL2Output(sender, root, blk, n, hash)
  BY <1>3, ProposeProofInv
<1>4. CASE \/ \E n \in L1Numbers, hash \in ClaimHeads : CheckpointBlockHash(n, hash)
           \/ \E sender \in Accounts, a \in Addresses : TransferOwnership(sender, a)
           \/ \E sender \in Accounts, key \in NewVKeys : UpdateVKey(sender, key)
           \/ \E sender \in Accounts, g \in Gateways :
                UpdateVerifierGateway(sender, g)
           \/ NextL1Block
           \/ UNCHANGED vars
  BY <1>4, OtherProofInv
<1> QED
  BY <1>1, <1>2, <1>3, <1>4 DEF Next

LEMMA ProofInvariance == Spec => []ProofInv
<1>1. Init => ProofInv
  BY InitProofInv
<1>2. IInv /\ ProofInv /\ [Next]_vars => ProofInv'
  BY NextProofInv
<1> QED
  BY <1>1, <1>2, Invariance, PTL DEF Spec

(* Whatever was proposed and deleted in between, every proved output in    *)
(* the list was proved from the root that is stored one place before it.   *)
THEOREM ChainOfProofs == Spec => []ProofChain
<1>1. ProofInv => ProofChain
  BY DEF ProofInv, ProofParts
<1> QED
  BY <1>1, ProofInvariance, PTL

(* Every accepted proof is anchored at the hash of a past L1 block, though *)
(* checkpoints can be erased and the zero hash passes the lookup.          *)
THEOREM Anchoring == Spec => []AnchoredOnL1
<1>1. ProofInv => AnchoredOnL1
  BY DEF ProofInv, ProofParts
<1> QED
  BY <1>1, ProofInvariance, PTL

(* Proposed outputs keep the submission interval to their predecessor.     *)
THEOREM Spacing == Spec => []SpacedBySubmissionInterval
<1>1. ProofInv => SpacedBySubmissionInterval
  BY DEF ProofInv, ProofParts
<1> QED
  BY <1>1, ProofInvariance, PTL

(* No output is proposed before the time of the L2 block it commits to.    *)
THEOREM NoFutureOutputs == Spec => []ProposedAfterL2Block
<1>1. ProofInv => ProposedAfterL2Block
  BY DEF ProofInv, ProofParts
<1> QED
  BY <1>1, ProofInvariance, PTL

-----------------------------------------------------------------------------
(* getL2OutputIndexAfter.  The loop is a recursive function, of which only *)
(* its equation is known, and that only if some function satisfies it.     *)
Bounds == (0 .. Len(l2Outputs)) \X (0 .. Len(l2Outputs))

Middle(b) == (b[1] + b[2]) \div 2

Halve(search, n) ==
  [b \in Bounds |->
     IF b[1] >= b[2] THEN b[1]
     ELSE IF l2Outputs[Middle(b) + 1].l2BlockNumber < n
            THEN search[<<Middle(b) + 1, b[2]>>]
            ELSE search[<<b[1], Middle(b)>>]]

(* k is the index of the first output at or above block n. *)
FirstAbove(k, n) ==
  /\ k \in 0 .. Len(l2Outputs) - 1
  /\ \A i \in 0 .. Len(l2Outputs) - 1 :
       l2Outputs[i + 1].l2BlockNumber < n <=> i < k

(* What the search returns between any bounds. *)
Clamped(k) ==
  [b \in Bounds |->
     IF b[1] >= b[2] THEN b[1]
     ELSE IF k < b[1] THEN b[1] ELSE IF b[2] < k THEN b[2] ELSE k]

LEMMA MiddleFacts ==
  ASSUME NEW b \in Bounds, b[1] < b[2], Len(l2Outputs) \in Nat
  PROVE  /\ Middle(b) \in b[1] .. b[2] - 1
         /\ Middle(b) \in 0 .. Len(l2Outputs) - 1
         /\ <<Middle(b) + 1, b[2]>> \in Bounds
         /\ <<b[1], Middle(b)>> \in Bounds
<1>1. b[1] \in 0 .. Len(l2Outputs) /\ b[2] \in 0 .. Len(l2Outputs)
  BY DEF Bounds
<1>2. Middle(b) \in Int /\ b[1] <= Middle(b) /\ Middle(b) < b[2]
  BY <1>1 DEF Middle
<1> QED
  BY <1>1, <1>2 DEF Bounds

LEMMA ClampedHalves ==
  ASSUME NEW k, NEW n \in Nat, FirstAbove(k, n), Len(l2Outputs) \in Nat,
         NEW f, NEW b \in Bounds,
         b[1] < b[2] => /\ f[<<Middle(b) + 1, b[2]>>] = Clamped(k)[<<Middle(b) + 1, b[2]>>]
                        /\ f[<<b[1], Middle(b)>>] = Clamped(k)[<<b[1], Middle(b)>>]
  PROVE  Halve(f, n)[b] = Clamped(k)[b]
<1>1. CASE b[1] >= b[2]
  BY <1>1 DEF Halve, Clamped
<1>2. CASE ~(b[1] >= b[2])
  <2> DEFINE m == Middle(b)
  <2>1. b[1] \in Nat /\ b[2] \in Nat /\ k \in Int /\ b[1] < b[2]
    BY <1>2 DEF Bounds, FirstAbove
  <2>2. /\ m \in b[1] .. b[2] - 1 /\ m \in 0 .. Len(l2Outputs) - 1
        /\ <<m + 1, b[2]>> \in Bounds /\ <<b[1], m>> \in Bounds
    BY <2>1, MiddleFacts
  <2>3. l2Outputs[m + 1].l2BlockNumber < n <=> m < k
    BY <2>2 DEF FirstAbove
  <2>4. Halve(f, n)[b] = IF l2Outputs[m + 1].l2BlockNumber < n
                           THEN f[<<m + 1, b[2]>>] ELSE f[<<b[1], m>>]
    BY <1>2 DEF Halve
  <2>5. /\ Clamped(k)[<<m + 1, b[2]>>] =
             IF m + 1 >= b[2] THEN m + 1
             ELSE IF k < m + 1 THEN m + 1 ELSE IF b[2] < k THEN b[2] ELSE k
        /\ Clamped(k)[<<b[1], m>>] =
             IF b[1] >= m THEN b[1]
             ELSE IF k < b[1] THEN b[1] ELSE IF m < k THEN m ELSE k
        /\ Clamped(k)[b] = IF k < b[1] THEN b[1] ELSE IF b[2] < k THEN b[2] ELSE k
    BY <1>2, <2>2 DEF Clamped
  <2>6. /\ f[<<m + 1, b[2]>>] = Clamped(k)[<<m + 1, b[2]>>]
        /\ f[<<b[1], m>>] = Clamped(k)[<<b[1], m>>]
    BY <2>1
  <2> HIDE DEF m
  <2>7. CASE m < k
    <3>1. Halve(f, n)[b] = Clamped(k)[<<m + 1, b[2]>>]
      BY <2>3, <2>4, <2>6, <2>7
    <3> QED
      BY <2>1, <2>2, <2>5, <2>7, <3>1
  <2>8. CASE ~(m < k)
    <3>1. Halve(f, n)[b] = Clamped(k)[<<b[1], m>>]
      BY <2>3, <2>4, <2>6, <2>8
    <3> QED
      BY <2>1, <2>2, <2>5, <2>8, <3>1
  <2> QED
    BY <2>7, <2>8
<1> QED
  BY <1>1, <1>2

LEMMA LeastNumber ==
  ASSUME NEW T, T \subseteq Nat, T # {}
  PROVE  \E x \in T : \A y \in T : x <= y
<1> DEFINE Less == {p \in Nat \X Nat : p[1] < p[2]}
<1>1. IsWellFoundedOn(Less, Nat)
  BY NatLessThanWellFounded DEF OpToRel
<1>2. \A y, z \in Nat : <<y, z>> \in Less <=> y < z
  OBVIOUS
<1> HIDE DEF Less
<1>3. PICK x \in T : \A y \in T : ~(<<y, x>> \in Less)
  BY <1>1, WFMin
<1>4. \A y \in T : ~(y < x)
  BY <1>2, <1>3
<1> QED
  BY <1>4

(* So the equation has a solution, and it has no other where lo <= hi:     *)
(* take a difference between the two with the closest bounds.              *)
LEMMA OnlyClamped ==
  ASSUME NEW k, NEW n \in Nat, FirstAbove(k, n), Len(l2Outputs) \in Nat,
         NEW f, f = Halve(f, n), NEW c \in Bounds, c[1] <= c[2]
  PROVE  f[c] = Clamped(k)[c]
<1> DEFINE Width(b) == b[2] - b[1]
           Wrong == {b \in Bounds : b[1] <= b[2] /\ f[b] # Clamped(k)[b]}
           Widths == {Width(b) : b \in Wrong}
<1>1. \A b \in Bounds : b[1] \in Nat /\ b[2] \in Nat
  BY DEF Bounds
<1> SUFFICES ASSUME Wrong # {} PROVE FALSE
  OBVIOUS
<1>2. Widths \subseteq Nat /\ Widths # {}
  BY <1>1
<1>3. PICK w \in Widths : \A v \in Widths : w <= v
  BY <1>2, LeastNumber
<1>4. PICK b \in Wrong : w = Width(b)
  OBVIOUS
<1>5. \A a \in Bounds : a[1] <= a[2] /\ Width(a) < Width(b) => f[a] = Clamped(k)[a]
  <2> SUFFICES ASSUME NEW a \in Bounds, a[1] <= a[2], Width(a) < Width(b),
                      f[a] # Clamped(k)[a]
               PROVE  FALSE
    OBVIOUS
  <2>1. Width(a) \in Widths
    OBVIOUS
  <2>2. Width(b) <= Width(a)
    BY <1>3, <1>4, <2>1
  <2> QED
    BY <1>1, <2>2
<1>6. ASSUME b[1] < b[2]
      PROVE  /\ f[<<Middle(b) + 1, b[2]>>] = Clamped(k)[<<Middle(b) + 1, b[2]>>]
             /\ f[<<b[1], Middle(b)>>] = Clamped(k)[<<b[1], Middle(b)>>]
  <2>1. /\ Middle(b) \in b[1] .. b[2] - 1
        /\ <<Middle(b) + 1, b[2]>> \in Bounds /\ <<b[1], Middle(b)>> \in Bounds
    BY <1>6, MiddleFacts
  <2>2. b[1] \in Nat /\ b[2] \in Nat /\ Middle(b) \in Nat
    BY <1>1, <2>1
  <2>3. /\ Middle(b) + 1 <= b[2] /\ b[1] <= Middle(b)
        /\ b[2] - (Middle(b) + 1) < b[2] - b[1]
        /\ Middle(b) - b[1] < b[2] - b[1]
    BY <2>1, <2>2
  <2> QED
    BY <1>5, <2>1, <2>3
<1>7. Halve(f, n)[b] = Clamped(k)[b]
  BY <1>6, ClampedHalves
<1> QED
  BY <1>7

LEMMA SearchFirst ==
  ASSUME NEW k, NEW n \in Nat, FirstAbove(k, n), Len(l2Outputs) \in Nat
  PROVE  IndexAfterLoop(n) = k
<1> DEFINE f == CHOOSE search : search = Halve(search, n)
<1>1. IndexAfterLoop(n) = f[<<0, Len(l2Outputs)>>]
  BY Zenon DEF IndexAfterLoop, Halve, Bounds, Middle, nextOutputIndex
<1>2. Clamped(k) = Halve(Clamped(k), n)
  <2>1. \A b \in Bounds : Halve(Clamped(k), n)[b] = Clamped(k)[b]
    BY ClampedHalves
  <2>2. /\ Halve(Clamped(k), n) = [b \in Bounds |-> Halve(Clamped(k), n)[b]]
        /\ Clamped(k) = [b \in Bounds |-> Clamped(k)[b]]
    BY DEF Halve, Clamped
  <2> QED
    BY <2>1, <2>2
<1>3. f = Halve(f, n)
  BY <1>2
<1> HIDE DEF f
<1>4. /\ <<0, Len(l2Outputs)>> \in Bounds
      /\ k \in Nat /\ k < Len(l2Outputs)
  BY DEF Bounds, FirstAbove
<1>5. f[<<0, Len(l2Outputs)>>] = Clamped(k)[<<0, Len(l2Outputs)>>]
  BY <1>3, <1>4, OnlyClamped
<1>6. Clamped(k)[<<0, Len(l2Outputs)>>] = k
  BY <1>4 DEF Clamped
<1> QED
  BY <1>1, <1>5, <1>6

LEMMA OutputTypes ==
  ASSUME IInv, l2Outputs # <<>>
  PROVE  /\ Len(l2Outputs) \in Nat /\ Len(l2Outputs) # 0
         /\ \A i \in 1 .. Len(l2Outputs) : l2Outputs[i].l2BlockNumber \in Nat
<1>1. l2Outputs \in Seq(OutputProposal)
  BY DEF IInv, TypeOK
<1>2. Len(l2Outputs) \in Nat /\ Len(l2Outputs) # 0
  BY <1>1
<1>3. \A i \in 1 .. Len(l2Outputs) : l2Outputs[i] \in OutputProposal
  BY <1>1
<1>4. \A p \in OutputProposal : p.l2BlockNumber \in Nat
  BY DEF OutputProposal
<1> QED
  BY <1>2, <1>3, <1>4

(* The first output at or above a block exists if the latest one is one.   *)
LEMMA FirstAboveExists ==
  ASSUME IInv, NEW n \in Nat, n <= latestBlockNumber, l2Outputs # <<>>
  PROVE  \E k : FirstAbove(k, n)
<1> DEFINE N == Len(l2Outputs)
           T == {i \in 0 .. N - 1 : l2Outputs[i + 1].l2BlockNumber >= n}
<1>1. /\ N \in Nat /\ N # 0
      /\ \A i \in 1 .. N : l2Outputs[i].l2BlockNumber \in Nat
  BY OutputTypes
<1>2. T \subseteq Nat
  OBVIOUS
<1>3. N - 1 \in T
  <2>1. l2Outputs[(N - 1) + 1].l2BlockNumber >= n
    BY <1>1 DEF latestBlockNumber
  <2> QED
    BY <1>1, <2>1
<1>4. PICK k \in T : \A i \in T : k <= i
  BY <1>2, <1>3, LeastNumber
<1>5. ASSUME NEW i \in 0 .. N - 1
      PROVE  l2Outputs[i + 1].l2BlockNumber < n <=> i < k
  <2>1. /\ i + 1 \in 1 .. N /\ k + 1 \in 1 .. N /\ k \in Nat
        /\ l2Outputs[k + 1].l2BlockNumber >= n
    BY <1>1
  <2>2. /\ l2Outputs[i + 1].l2BlockNumber \in Nat
        /\ l2Outputs[k + 1].l2BlockNumber \in Nat
    BY <1>1, <2>1
  <2>3. CASE i < k
    <3>1. i \notin T
      BY <1>4, <2>1, <2>3
    <3> QED
      BY <2>2, <2>3, <3>1
  <2>4. CASE i = k
    BY <2>1, <2>2, <2>4
  <2>5. CASE k < i
    <3>1. l2Outputs[k + 1].l2BlockNumber < l2Outputs[i + 1].l2BlockNumber
      BY <1>1, <2>1, <2>5 DEF IInv, OutputsOrdered, Ordered, TypeOK
    <3> QED
      BY <2>1, <2>2, <2>5, <3>1
  <2> QED
    BY <2>1, <2>3, <2>4, <2>5
<1>6. FirstAbove(k, n)
  BY <1>5 DEF FirstAbove
<1> QED
  BY <1>6

(* getL2OutputIndexAfter returns the first output at or above a block, for *)
(* a list of any length that proposals and deletions can lead to.          *)
THEOREM SearchCorrect == Spec => []SearchFindsCheckpoint
<1>1. ASSUME IInv, NEW n \in ClaimBlocks, n <= latestBlockNumber, l2Outputs # <<>>
      PROVE  /\ IndexAfterLoop(n) < Len(l2Outputs)
             /\ l2Outputs[IndexAfterLoop(n) + 1].l2BlockNumber >= n
             /\ \A i \in 1 .. IndexAfterLoop(n) : l2Outputs[i].l2BlockNumber < n
  <2>1. n \in Nat
    BY InputAssumption
  <2>2. PICK k : FirstAbove(k, n)
    BY <1>1, <2>1, FirstAboveExists
  <2>3. /\ Len(l2Outputs) \in Nat
        /\ \A i \in 1 .. Len(l2Outputs) : l2Outputs[i].l2BlockNumber \in Nat
    BY <1>1, OutputTypes
  <2>4. IndexAfterLoop(n) = k
    BY <2>1, <2>2, <2>3, SearchFirst
  <2>5. k \in Nat /\ k < Len(l2Outputs) /\ k + 1 \in 1 .. Len(l2Outputs)
    BY <2>2, <2>3 DEF FirstAbove
  <2>6. l2Outputs[k + 1].l2BlockNumber >= n
    <3>1. ~(l2Outputs[k + 1].l2BlockNumber < n)
      BY <2>2, <2>5 DEF FirstAbove
    <3> QED
      BY <2>1, <2>3, <2>5, <3>1
  <2>7. ASSUME NEW i \in 1 .. k PROVE l2Outputs[i].l2BlockNumber < n
    <3>1. i - 1 \in 0 .. Len(l2Outputs) - 1 /\ i - 1 < k /\ (i - 1) + 1 = i
      BY <2>5
    <3> QED
      BY <2>2, <3>1 DEF FirstAbove
  <2> QED
    BY <2>4, <2>5, <2>6, <2>7
<1>2. IInv => SearchFindsCheckpoint
  BY <1>1 DEF SearchFindsCheckpoint
<1> QED
  BY <1>2, Invariance, PTL

-----------------------------------------------------------------------------
(* Which roots the list can hold. *)

(* The public values kept for an output are those of a proof the verifier  *)
(* accepted.                                                               *)
AttestedVerified ==
  \A i \in DOMAIN l2Outputs : IsProved(i) =>
    \E p \in Verifies : p[3] = attested[i]

LEMMA InitVerified == Init => AttestedVerified
<1> SUFFICES ASSUME Init, NEW i \in DOMAIN l2Outputs PROVE ~IsProved(i)
  BY DEF AttestedVerified
<1>1. PICK s \in ProxyStorage :
        /\ l2Outputs = s.l2Outputs
        /\ attested = [j \in 1 .. Len(s.l2Outputs) |-> NoProof]
  BY DEF Init
<1>2. s.l2Outputs \in Seq(OutputProposal)
  BY StorageAssumption
<1> QED
  BY <1>1, <1>2 DEF IsProved

LEMMA NextVerified ==
  IInv /\ AttestedVerified /\ [Next]_vars => AttestedVerified'
<1> SUFFICES ASSUME IInv, AttestedVerified, [Next]_vars PROVE AttestedVerified'
  OBVIOUS
<1>1. /\ l2Outputs \in Seq(OutputProposal)
      /\ attested \in Seq(PublicValues \cup {NoProof})
      /\ Len(attested) = Len(l2Outputs)
  BY DEF IInv, TypeOK
<1>2. CASE \E a \in InitParams : Initialize(a)
  <2>1. CASE l2Outputs = <<>>
    <3>1. attested' = <<NoProof>> /\ DOMAIN l2Outputs' = {1}
      BY <1>2, <2>1 DEF Initialize, SeededOutputs, SeededAttested
    <3> QED
      BY <3>1 DEF AttestedVerified, IsProved
  <2>2. CASE l2Outputs # <<>>
    <3>1. attested' = attested /\ l2Outputs' = l2Outputs
      BY <1>2, <2>2 DEF Initialize, SeededOutputs, SeededAttested
    <3> QED
      BY <3>1 DEF AttestedVerified, IsProved
  <2> QED
    BY <2>1, <2>2
<1>3. CASE \E sender \in Accounts, i \in 0 .. Len(l2Outputs) :
             DeleteL2Outputs(sender, i)
  <2>1. PICK i \in 0 .. Len(l2Outputs) :
          /\ l2Outputs' = SubSeq(l2Outputs, 1, i)
          /\ attested' = SubSeq(attested, 1, i)
    BY <1>3 DEF DeleteL2Outputs
  <2>2. \A j \in DOMAIN l2Outputs' :
          j \in DOMAIN l2Outputs /\ attested'[j] = attested[j]
    BY <1>1, <2>1, PrefixFacts
  <2> QED
    BY <2>2 DEF AttestedVerified, IsProved
<1>4. CASE \E sender \in Accounts, root \in ClaimRoots, blk \in ClaimBlocks,
              n \in L1Numbers, hash \in ClaimHeads :
             ProposeL2Output(sender, root, blk, n, hash)
  <2>1. PICK root \in ClaimRoots, blk \in ClaimBlocks, hash \in ClaimHeads :
          /\ <<verifierGateway, vkey, ProposedValues(root, blk, hash)>> \in Verifies
          /\ l2Outputs' = Append(l2Outputs, StoredOutput(root, blk))
          /\ attested' = Append(attested, ProposedValues(root, blk, hash))
    BY <1>4 DEF ProposeL2Output
  <2>2. \A j \in DOMAIN l2Outputs' :
          \/ j \in DOMAIN l2Outputs /\ attested'[j] = attested[j]
          \/ attested'[j] = ProposedValues(root, blk, hash)
    BY <1>1, <2>1
  <2>3. ASSUME NEW j \in DOMAIN l2Outputs', IsProved(j)'
        PROVE  \E p \in Verifies : p[3] = attested'[j]
    BY <2>1, <2>2, <2>3 DEF AttestedVerified, IsProved
  <2> QED
    BY <2>3 DEF AttestedVerified
<1>5. CASE \/ \E n \in L1Numbers, hash \in ClaimHeads : CheckpointBlockHash(n, hash)
           \/ \E sender \in Accounts, a \in Addresses : TransferOwnership(sender, a)
           \/ \E sender \in Accounts, key \in NewVKeys : UpdateVKey(sender, key)
           \/ \E sender \in Accounts, g \in Gateways :
                UpdateVerifierGateway(sender, g)
           \/ NextL1Block
           \/ UNCHANGED vars
  <2>1. UNCHANGED <<l2Outputs, attested>>
    BY <1>5, OutputsUntouched DEF outputVars
  <2> QED
    BY <2>1 DEF AttestedVerified, IsProved
<1> QED
  BY <1>2, <1>3, <1>4, <1>5 DEF Next

(* An output proved whole that follows a canonical one is canonical.       *)
LEMMA CanonicalStep ==
  ASSUME ProofChain, AnchoredOnL1, AttestedVerified,
         NEW i \in DOMAIN l2Outputs, IsProved(i), ProvedWhole(i),
         IsCanonical(l2Outputs[i - 1])
  PROVE  IsCanonical(l2Outputs[i])
<1>1. PICK p \in Verifies : p[3] = attested[i]
  BY DEF AttestedVerified
<1>2. SoundStatement(attested[i])
  BY <1>1, SoundnessAssumption DEF ProvedWhole
<1>3. /\ attested[i].l2PreRoot     = l2Outputs[i - 1].outputRoot
      /\ attested[i].claimRoot     = l2Outputs[i].outputRoot
      /\ attested[i].claimBlockNum = l2Outputs[i].l2BlockNumber
      /\ attested[i].chainId       = config.chainId
  BY DEF ProofChain
<1>4. \E n \in L1Numbers : attested[i].l1Head = L1Hash[n]
  BY DEF AnchoredOnL1
<1>5. CanonicalRoot(attested[i].chainId, attested[i].l2PreRoot)
  <2> DEFINE before == <<config.chainId, l2Outputs[i - 1].l2BlockNumber,
                         l2Outputs[i - 1].outputRoot>>
  <2>1. /\ before \in CanonicalOutputs /\ before[1] = config.chainId
        /\ before[3] = l2Outputs[i - 1].outputRoot
    BY DEF IsCanonical
  <2> HIDE DEF before
  <2> QED
    BY <1>3, <2>1 DEF CanonicalRoot
<1> QED
  BY <1>2, <1>3, <1>4, <1>5 DEF SoundStatement, IsCanonical

(* So the first output that is not canonical, if there is one, is one no   *)
(* proof was asked for, or one whose proof is not whole.                   *)
LEMMA CanonicalList ==
  ASSUME IInv, ProofChain, AnchoredOnL1, AttestedVerified
  PROVE  OutputsCanonical
<1> DEFINE WholeUpTo(i) == \A j \in 1 .. i : ProvedWhole(j)
           Forked == {i \in DOMAIN l2Outputs :
                        WholeUpTo(i) /\ ~IsCanonical(l2Outputs[i])}
<1> SUFFICES ASSUME \A i \in DOMAIN l2Outputs :
                      ~IsProved(i) => IsCanonical(l2Outputs[i]),
                    Forked # {}
             PROVE  FALSE
  BY DEF OutputsCanonical
<1>1. l2Outputs \in Seq(OutputProposal)
  BY DEF IInv, TypeOK
<1>2. Forked \subseteq Nat
  BY <1>1
<1>3. PICK i \in Forked : \A j \in Forked : i <= j
  BY <1>2, LeastNumber
<1>4. i \in DOMAIN l2Outputs /\ IsProved(i) /\ i > 1 /\ WholeUpTo(i)
  BY DEF ProofChain
<1>5. /\ i - 1 \in DOMAIN l2Outputs /\ ~(i <= i - 1)
      /\ i \in 1 .. i /\ 1 .. (i - 1) \subseteq 1 .. i
  BY <1>1, <1>4
<1>6. ProvedWhole(i) /\ WholeUpTo(i - 1)
  BY <1>4, <1>5
<1> HIDE DEF WholeUpTo
<1>7. IsCanonical(l2Outputs[i - 1])
  BY <1>3, <1>5, <1>6
<1> QED
  BY <1>4, <1>6, <1>7, CanonicalStep

(* Every root the contract accepts is the canonical root of its block, up  *)
(* to the first one whose proof joins a range from another fork, whoever   *)
(* proposes, however proposals and deletions interleave and whatever else  *)
(* the verifier would accept, if the unproved outputs are canonical.  What *)
(* is taken on trust is what WholeSound (AggregationClientProofs) proves   *)
(* of the aggregation program from the soundness of range proofs.          *)
THEOREM CanonicalRoots == Spec => []OutputsCanonical
<1>1. IInv /\ ProofChain /\ AnchoredOnL1 /\ AttestedVerified => OutputsCanonical
  BY CanonicalList
<1>2. Init => AttestedVerified
  BY InitVerified
<1>3. IInv /\ AttestedVerified /\ [Next]_vars => AttestedVerified'
  BY NextVerified
<1> QED
  BY <1>1, <1>2, <1>3, Invariance, ChainOfProofs, Anchoring, PTL DEF Spec
==============================================================================
