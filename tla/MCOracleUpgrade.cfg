CONSTANTS
  proposerAcc = proposerAcc
  challengerAcc = challengerAcc
  ownerAcc = ownerAcc
  gatewayAcc = gatewayAcc
  zeroAddr = zeroAddr
  zero = zero
  vkA = vkA
  vkB = vkB
  h0 = h0
  h1 = h1
  h2 = h2
  h3 = h3
  h4 = h4
  noProof = noProof
  offL1 = offL1
  MaxBlock = 5
  Interval = 1
  Accounts = {proposerAcc, challengerAcc, ownerAcc}
  Gateways = {gatewayAcc}
  ZeroAddress = zeroAddr
  Words <- MCWords
  ZeroWord = zero
  ClaimRoots <- MCClaimRoots
  ClaimBlocks <- MCClaimBlocks
  ClaimHeads <- MCClaimHeads
  NewVKeys <- BothKeys
  ChainIds = {0, 1, 2}
  Verifies <- StraightVerifies
  WholeOnL1 <- MCWholeOnL1
  CanonicalOutputs <- MCCanonicalOutputs
  InitParams <- UpgradeParams
  ProxyStorage <- LegacyStorage
  L1Hash <- MCL1Hash
  Window = 2
  Mod128 = 16
  StartTime = 2
  StartL1Block = 2
  MaxTime = 6
  MaxL1Block = 4
  TimeSteps = {1, 2}
  NoProof = noProof
SPECIFICATION Spec
INVARIANTS ProofChain SpacedBySubmissionInterval
PROPERTIES FinalizedStable
CHECK_DEADLOCK FALSE
