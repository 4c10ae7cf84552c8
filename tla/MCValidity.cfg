CONSTANTS
  MaxBlock = 6
  Starts = {0, 1, 3, 5}
  Claims = {0, 1, 2, 3, 4, 5, 6}
  Roots = {2, 3, 6, noBlock}
  NoBlock = noBlock
  IncludedIn <- MCIncludedIn
  L1Heads = {0, 1, 3, 5}
  MaxSpan = 3
SPECIFICATION FairSpec
INVARIANTS TypeOK SafeHeadInStep ProvedMeansExecuted
PROPERTIES ImplementsRangeExecution ValidClaimsProved
CHECK_DEADLOCK FALSE
