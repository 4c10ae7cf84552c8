---------------------- MODULE ZKL2OutputOracleRefinement ----------------------
(***************************************************************************)
(* The contract implements the abstract checkpoint log, for every value of *)
(* the constants.                                                          *)
(***************************************************************************)
EXTENDS ZKL2OutputOracleProofs

LEMMA LogViewFacts ==
  ASSUME NEW s \in Seq(OutputProposal)
  PROVE  /\ LogView(s) \in Seq(Log!Entry)
         /\ Len(LogView(s)) = Len(s)
         /\ \A i \in 1 .. Len(s) : LogView(s)[i] = LogEntry(s[i])
<1>1. \A i \in 1 .. Len(s) : LogEntry(s[i]) \in Log!Entry
  <2>1. \A i \in 1 .. Len(s) : s[i] \in OutputProposal
    OBVIOUS
  <2> QED
    BY <2>1 DEF LogEntry, Log!Entry, OutputProposal
<1>2. LogView(s) = [i \in 1 .. Len(s) |-> LogEntry(s[i])]
  BY DEF LogView
<1> QED
  BY <1>1, <1>2

LEMMA InitRefines == Init => Log!Init
<1> SUFFICES ASSUME Init PROVE Log!Init
  OBVIOUS
<1>1. /\ l2Outputs \in Seq(OutputProposal) /\ Ordered(l2Outputs)
      /\ config \in Config /\ now \in 0 .. MaxTime
      /\ \A i \in DOMAIN l2Outputs : l2Outputs[i].timestamp <= now
  BY InitIInv DEF IInv, TypeOK, OutputsOrdered
<1>2. initialized # 2
  BY StorageAssumption DEF Init
<1>3. /\ LogView(l2Outputs) \in Seq(Log!Entry)
      /\ DOMAIN LogView(l2Outputs) = DOMAIN l2Outputs
      /\ \A i \in DOMAIN l2Outputs : LogView(l2Outputs)[i] = LogEntry(l2Outputs[i])
  BY <1>1, LogViewFacts DEF LogView
<1>4. \A i, j \in DOMAIN LogView(l2Outputs) : i < j =>
        /\ LogView(l2Outputs)[i].block < LogView(l2Outputs)[j].block
        /\ LogView(l2Outputs)[i].time <= LogView(l2Outputs)[j].time
  BY <1>1, <1>3 DEF Ordered, LogEntry
<1>5. \A i \in DOMAIN LogView(l2Outputs) : LogView(l2Outputs)[i].time <= now
  BY <1>1, <1>3 DEF LogEntry
<1>6. now \in Nat /\ config.finalizationPeriodSeconds \in Nat
  BY <1>1, ChainAssumption DEF Config
<1> QED
  BY <1>2, <1>3, <1>4, <1>5, <1>6 DEF Log!Init

(* initialize opens the log. *)
LEMMA InitializeRefines ==
  ASSUME IInv, IInv', NEW a \in InitParams, Initialize(a)
  PROVE  Log!Open
<1>1. /\ l2Outputs' \in Seq(OutputProposal) /\ config' \in Config
      /\ initialized # 2 /\ initialized' = 2 /\ now' = now
      /\ \A i \in DOMAIN l2Outputs' : l2Outputs'[i].timestamp <= now
  BY DEF IInv, TypeOK, OutputsOrdered, Initialize, reinitializer, contextVars
<1>2. config'.finalizationPeriodSeconds \in Nat
  BY <1>1 DEF Config
<1>3. CASE l2Outputs = <<>>
  <2>1. LogView(l2Outputs) = <<>>
    BY <1>3 DEF LogView
  <2>2. l2Outputs' # <<>> /\ Len(l2Outputs') = 1
    BY <1>3 DEF Initialize, SeededOutputs
  <2>3. /\ LogView(l2Outputs') \in Seq(Log!Entry) /\ Len(LogView(l2Outputs')) = 1
        /\ LogView(l2Outputs')[1] = LogEntry(l2Outputs'[1])
    BY <1>1, <2>2, LogViewFacts
  <2>4. LogView(l2Outputs')[1].time <= now
    BY <1>1, <2>2, <2>3 DEF LogEntry
  <2> QED
    BY <1>1, <1>2, <2>1, <2>3, <2>4 DEF Log!Open
<1>4. CASE l2Outputs # <<>>
  <2>1. l2Outputs' = l2Outputs
    BY <1>4 DEF Initialize, SeededOutputs
  <2>2. LogView(l2Outputs) # <<>>
    BY <1>4, LogViewFacts DEF IInv, TypeOK
  <2> QED
    BY <1>1, <1>2, <2>1, <2>2 DEF Log!Open
<1> QED
  BY <1>3, <1>4

(* deleteL2Outputs retracts the tail, none of which is final. *)
LEMMA DeleteRefines ==
  ASSUME IInv, NEW sender \in Accounts, NEW i \in 0 .. Len(l2Outputs),
         DeleteL2Outputs(sender, i)
  PROVE  Log!Retract
<1>1. /\ l2Outputs \in Seq(OutputProposal) /\ i < Len(l2Outputs)
      /\ l2Outputs' = SubSeq(l2Outputs, 1, i)
      /\ initialized = 2
      /\ UNCHANGED <<setupVars, contextVars>>
  BY DEF IInv, TypeOK, DeleteL2Outputs
<1>2. LogView(l2Outputs') = SubSeq(LogView(l2Outputs), 1, i)
  <2>1. /\ l2Outputs' \in Seq(OutputProposal) /\ Len(l2Outputs') = i
        /\ \A j \in 1 .. i : l2Outputs'[j] = l2Outputs[j]
    BY <1>1, PrefixFacts
  <2>2. /\ LogView(l2Outputs) \in Seq(Log!Entry)
        /\ Len(LogView(l2Outputs)) = Len(l2Outputs)
        /\ \A j \in 1 .. i : LogView(l2Outputs)[j] = LogEntry(l2Outputs[j])
    BY <1>1, LogViewFacts
  <2>3. /\ LogView(l2Outputs') \in Seq(Log!Entry)
        /\ Len(LogView(l2Outputs')) = i
        /\ \A j \in 1 .. i : LogView(l2Outputs')[j] = LogEntry(l2Outputs'[j])
    BY <2>1, LogViewFacts
  <2> QED
    BY <2>1, <2>2, <2>3
<1>3. \A j \in DOMAIN LogView(l2Outputs) : j >= i + 1 =>
        now - LogView(l2Outputs)[j].time < config.finalizationPeriodSeconds
  <2> SUFFICES ASSUME NEW j \in DOMAIN l2Outputs, j >= i + 1
               PROVE  now - LogView(l2Outputs)[j].time
                        < config.finalizationPeriodSeconds
    BY DEF LogView
  <2>1. LogView(l2Outputs)[j].time = l2Outputs[j].timestamp
    BY DEF LogEntry, LogView
  <2>2. ~Finalized(j)
    <3>1. j \notin DOMAIN l2Outputs'
      BY <1>1, PrefixFacts
    <3> QED
      BY <1>1, <3>1, DeleteKeepsFinalized
  <2>3. /\ l2Outputs[j].timestamp \in Nat /\ now \in Nat
        /\ config.finalizationPeriodSeconds \in Nat
    <3>1. l2Outputs[j] \in OutputProposal
      BY <1>1
    <3> QED
      BY <3>1, ChainAssumption DEF OutputProposal, IInv, TypeOK, Config
  <2> QED
    BY <2>1, <2>2, <2>3 DEF Finalized
<1>4. i + 1 \in DOMAIN LogView(l2Outputs) /\ (i + 1) - 1 = i
  BY <1>1 DEF LogView
<1> QED
  BY <1>1, <1>2, <1>3, <1>4 DEF Log!Retract, setupVars, contextVars

(* proposeL2Output extends the log by one later checkpoint. *)
LEMMA ProposeRefines ==
  ASSUME IInv, IInv', NEW sender \in Accounts, NEW root \in ClaimRoots,
         NEW blk \in ClaimBlocks, NEW n \in L1Numbers, NEW hash \in ClaimHeads,
         ProposeL2Output(sender, root, blk, n, hash)
  PROVE  Log!Extend
<1> DEFINE last == Len(l2Outputs)
<1>1. /\ l2Outputs \in Seq(OutputProposal) /\ l2Outputs # <<>>
      /\ l2Outputs' \in Seq(OutputProposal) /\ Ordered(l2Outputs')
      /\ l2Outputs' = Append(l2Outputs, StoredOutput(root, blk))
      /\ initialized = 2 /\ now \in 0 .. MaxTime
      /\ UNCHANGED <<setupVars, contextVars>>
  BY DEF IInv, TypeOK, OutputsOrdered, ProposeL2Output
<1>2. /\ last > 0 /\ Len(l2Outputs') = last + 1
      /\ l2Outputs'[last + 1] = StoredOutput(root, blk)
      /\ \A j \in 1 .. last : l2Outputs'[j] = l2Outputs[j]
  BY <1>1
<1>3. /\ LogView(l2Outputs) \in Seq(Log!Entry) /\ Len(LogView(l2Outputs)) = last
      /\ \A j \in 1 .. last : LogView(l2Outputs)[j] = LogEntry(l2Outputs[j])
  BY <1>1, LogViewFacts
<1>4. /\ LogView(l2Outputs') \in Seq(Log!Entry)
      /\ Len(LogView(l2Outputs')) = last + 1
      /\ \A j \in 1 .. last + 1 :
           LogView(l2Outputs')[j] = LogEntry(l2Outputs'[j])
  BY <1>1, <1>2, LogViewFacts
<1>5. SubSeq(LogView(l2Outputs'), 1, last) = LogView(l2Outputs)
  BY <1>1, <1>2, <1>3, <1>4
<1>6. LogView(l2Outputs')[last + 1].time = now
  <2>1. StoredOutput(root, blk).timestamp = now
    BY <1>1, U128Exact, ChainAssumption, WidthAssumption DEF StoredOutput
  <2> QED
    BY <1>1, <1>2, <1>4, <2>1 DEF LogEntry
<1>7. LogView(l2Outputs')[last + 1].block > LogView(l2Outputs)[last].block
  <2>1. l2Outputs'[last].l2BlockNumber < l2Outputs'[last + 1].l2BlockNumber
    BY <1>1, <1>2 DEF Ordered
  <2>2. /\ l2Outputs'[last].l2BlockNumber \in Nat
        /\ l2Outputs'[last + 1].l2BlockNumber \in Nat
    <3>1. /\ l2Outputs'[last] \in OutputProposal
          /\ l2Outputs'[last + 1] \in OutputProposal
      BY <1>1, <1>2
    <3> QED
      BY <3>1 DEF OutputProposal
  <2> QED
    BY <1>1, <1>2, <1>3, <1>4, <2>1, <2>2 DEF LogEntry
<1>8. LogView(l2Outputs) # <<>>
  BY <1>2, <1>3
<1> QED
  BY <1>1, <1>3, <1>4, <1>5, <1>6, <1>7, <1>8
  DEF Log!Extend, setupVars, contextVars

(* Every other transaction leaves the log alone; an L1 block is a tick. *)
LEMMA OtherRefines ==
  ASSUME IInv,
         \/ \E n \in L1Numbers, hash \in ClaimHeads : CheckpointBlockHash(n, hash)
         \/ \E sender \in Accounts, a \in Addresses : TransferOwnership(sender, a)
         \/ \E sender \in Accounts, key \in NewVKeys : UpdateVKey(sender, key)
         \/ \E sender \in Accounts, g \in Gateways :
              UpdateVerifierGateway(sender, g)
         \/ NextL1Block
         \/ UNCHANGED vars
  PROVE  Log!Tick \/ UNCHANGED Log!logVars
<1>1. UNCHANGED <<l2Outputs, config, initialized>>
  BY OutputsUntouched DEF outputVars, setupVars
<1>2. CASE NextL1Block
  <2>1. now' \in Nat /\ now' > now
    BY <1>2, ChainAssumption DEF NextL1Block, IInv, TypeOK
  <2> QED
    BY <1>1, <2>1 DEF Log!Tick
<1>3. CASE UNCHANGED now
  BY <1>1, <1>3 DEF Log!logVars
<1> QED
  BY <1>2, <1>3 DEF CheckpointBlockHash, TransferOwnership, UpdateVKey,
                    UpdateVerifierGateway, vars, contextVars

LEMMA NextRefines == IInv /\ IInv' /\ [Next]_vars => [Log!Next]_(Log!logVars)
<1> SUFFICES ASSUME IInv, IInv', [Next]_vars
             PROVE  Log!Next \/ UNCHANGED Log!logVars
  OBVIOUS
<1>1. CASE \E a \in InitParams : Initialize(a)
  BY <1>1, InitializeRefines DEF Log!Next
<1>2. CASE \E sender \in Accounts, i \in 0 .. Len(l2Outputs) :
             DeleteL2Outputs(sender, i)
  BY <1>2, DeleteRefines DEF Log!Next
<1>3. CASE \E sender \in Accounts, root \in ClaimRoots, blk \in ClaimBlocks,
              n \in L1Numbers, hash \in ClaimHeads :
             ProposeL2Output(sender, root, blk, n, hash)
  BY <1>3, ProposeRefines DEF Log!Next
<1>4. CASE \/ \E n \in L1Numbers, hash \in ClaimHeads : CheckpointBlockHash(n, hash)
           \/ \E sender \in Accounts, a \in Addresses : TransferOwnership(sender, a)
           \/ \E sender \in Accounts, key \in NewVKeys : UpdateVKey(sender, key)
           \/ \E sender \in Accounts, g \in Gateways :
                UpdateVerifierGateway(sender, g)
           \/ NextL1Block
           \/ UNCHANGED vars
  BY <1>4, OtherRefines DEF Log!Next
<1> QED
  BY <1>1, <1>2, <1>3, <1>4 DEF Next

(* The contract implements the checkpoint log: proofs, checkpoints, keys   *)
(* and ownership never make the list do anything the log may not do.       *)
THEOREM Refinement == Spec => ImplementsCheckpointLog
<1>1. Init => Log!Init
  BY InitRefines
<1>2. IInv /\ IInv' /\ [Next]_vars => [Log!Next]_(Log!logVars)
  BY NextRefines
<1> QED
  BY <1>1, <1>2, Invariance, PTL DEF Spec, ImplementsCheckpointLog, Log!Spec
==============================================================================
