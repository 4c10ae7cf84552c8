CONSTANTS
  proposerAcc = proposerAcc
  challengerAcc = challengerAcc
  ownerAcc = ownerAcc
  gatewayAcc = gatewayAcc
  zeroAddr = zeroAddr
  zero = zero
  vkA = vkA
  vkB = vkB
  h0 = h0
  h1 = h1
  h2 = h2
  h3 = h3
  h4 = h4
  noProof = noProof
  offL1 = offL1
  MaxBlock = 3
  Interval = 1
  Accounts = {proposerAcc, challengerAcc}
  Gateways = {gatewayAcc}
  ZeroAddress = zeroAddr
  Words <- MCWords
  ZeroWord = zero
  ClaimRoots <- MCClaimRoots
  ClaimBlocks <- MCClaimBlocks
  ClaimHeads <- MCClaimHeads
  NewVKeys <- NoKeys
  ChainIds = {0, 1, 2}
  Verifies <- MCVerifies
  WholeOnL1 <- MCWholeOnL1
  CanonicalOutputs <- MCCanonicalOutputs
  InitParams <- MCInitParams
  ProxyStorage <- FreshStorage
  L1Hash <- MCL1Hash
  Window = 2
  Mod128 = 8
  StartTime = 1
  StartL1Block = 1
  MaxTime = 6
  MaxL1Block = 4
  TimeSteps = {1, 2}
  NoProof = noProof
SPECIFICATION Spec
INVARIANTS TypeOK OutputsOrdered ProofChain AnchoredOnL1 ProposedAfterL2Block SearchFindsCheckpoint EventsReplayOutputs OutputsCanonical
PROPERTIES FinalizedStable EmptyIsAbsorbing ImplementsCheckpointLog
CHECK_DEADLOCK FALSE
